------------------------------ MODULE Extraction ------------------------------
(***************************************************************************)
(* `extract` of commands/derive.rs with extract_tar of imaging/archive.rs: *)
(* the entries of a logical archive, one after the other, become files of  *)
(* working/<base>/, each of them recorded.                                 *)
(*                                                                         *)
(* The names come from a device: two entries may have one name, an entry   *)
(* may be called what another is called while it is written (x and         *)
(* x.partial), and a name may be a file here and a directory there.  The   *)
(* base may already hold what an earlier extraction made or left behind.   *)
(* What a file holds is told by the extraction and the entry it came from, *)
(* and by how much of the entry it has.                                    *)
(***************************************************************************)
EXTENDS Naturals, Sequences, FiniteSets

CONSTANTS
    Paths,       \* paths below working/<base>/
    Names,       \* those an entry may have
    Above,       \* the directories above a path
    PartialOf,   \* the path of a name while it is written
    Refused,     \* names validate_entry_path refuses
    Illegal,     \* paths this host cannot create
    Dotted,      \* paths whose text has two dots in a row, like notes..txt
    Archives,    \* archives there may be: their entries, and whether they break off
    EntryLimits, \* --max-entries
    ByteLimits,  \* --max-total-size, in units
    Block,       \* size of the buffer
    MaxListed,   \* MAX_RECORDED_SKIPS: skipped entries a manifest lists one by one
    MaxRounds,   \* bound: extractions into the base, one after the other
    None, Dir    \* what is at a path: nothing, a directory

Entries == [name : Names, kind : {"file", "dir", "other"}, size : Nat]
Content == [round : 1 .. MaxRounds, entry : Nat \ {0}, len : Nat]

ASSUME NameAssumption ==
    /\ Names \subseteq Paths
    /\ Above \in [Paths -> SUBSET Paths]
    /\ PartialOf \in [Names -> Paths]
    /\ \A n \in Names : PartialOf[n] # n /\ PartialOf[n] \notin Above[n] /\ n \notin Above[n]

ASSUME ArchiveAssumption ==
    Archives \subseteq [entries : Seq(Entries), broken : BOOLEAN]

ASSUME LimitAssumption ==
    /\ EntryLimits \subseteq Nat /\ ByteLimits \subseteq Nat /\ Block \in Nat \ {0}
    /\ MaxListed \in Nat /\ MaxRounds \in Nat

ASSUME PlaceAssumption == None # Dir /\ None \notin Content /\ Dir \notin Content

VARIABLES
    pc,          \* where the command is
    archive,     \* the archive it reads
    maxEntries,  \* ExtractionOptions
    maxBytes,
    seen,        \* entries taken from the archive
    written,     \* units of the open entry that are written
    total,       \* total_bytes
    records,     \* ExtractionResult::files
    skipped,     \* ExtractionResult::skipped, entries in their order
    directories, \* ExtractionResult::directories, a number
    truncated,   \* ExtractionResult::truncated
    cancel,      \* the CancellationToken
    result,      \* how the last command ended
    round,       \* number of the extraction
    disk,        \* what is at each path
    manifests    \* the manifests written

input == <<archive, maxEntries, maxBytes, round>>
outcome == <<records, skipped, directories, truncated>>
vars == <<pc, input, seen, written, total, outcome, cancel, result, disk, manifests>>

Init ==
    /\ pc = "idle"
    /\ archive = [entries |-> <<>>, broken |-> FALSE] /\ maxEntries = 0 /\ maxBytes = 0
    /\ seen = 0 /\ written = 0 /\ total = 0
    /\ records = {} /\ skipped = <<>> /\ directories = 0 /\ truncated = FALSE
    /\ cancel = FALSE /\ result = "none" /\ round = 0
    /\ disk = [p \in Paths |-> None]
    /\ manifests = {}

Goto(p) == pc' = p /\ UNCHANGED result
End(r) == pc' = "idle" /\ result' = r

Count == Len(archive.entries)

(* The entry the loop takes next, and the one whose data is being read.    *)
Upcoming == archive.entries[seen + 1]
Current == archive.entries[seen]

-----------------------------------------------------------------------------
(* create_subdirectory, which makes the directories above a path as well,  *)
(* stops at a file or at a name the host rejects, and keeps what it made.  *)
Blocked(p) == p \in Illegal \/ disk[p] \notin {None, Dir}

Reachable(p) == {q \in Above[p] \cup {p} : \A d \in Above[q] \cup {q} : ~Blocked(d)}

WithDirectories(dirs) == [p \in Paths |-> IF p \in dirs THEN Dir ELSE disk[p]]

ParentsExist(p) == Above[p] \subseteq Reachable(p)

(* create_artifact: neither the name nor its .partial may be in use.       *)
Creatable(p) ==
    /\ p \notin Illegal /\ PartialOf[p] \notin Illegal
    /\ disk[p] = None /\ disk[PartialOf[p]] = None

-----------------------------------------------------------------------------
(* Manifest::validate.  resolve_source loads every manifest of the case.   *)
Readable(m) == \A r \in m.records : r.path \notin Dotted
CaseReadable == \A m \in manifests : Readable(m)

NotResolved ==
    /\ pc = "idle" /\ ~CaseReadable
    /\ End("failed")
    /\ UNCHANGED <<input, seen, written, total, outcome, cancel, disk, manifests>>

Start ==
    /\ pc = "idle" /\ round < MaxRounds /\ CaseReadable
    /\ round' = round + 1
    /\ archive' \in Archives /\ maxEntries' \in EntryLimits /\ maxBytes' \in ByteLimits
    /\ seen' = 0 /\ written' = 0 /\ total' = 0
    /\ records' = {} /\ skipped' = <<>> /\ directories' = 0 /\ truncated' = FALSE
    /\ cancel' = FALSE
    /\ Goto("next")
    /\ UNCHANGED <<disk, manifests>>

EndOfArchive ==
    /\ pc = "next" /\ seen = Count /\ ~archive.broken
    /\ Goto("manifest")
    /\ UNCHANGED <<input, seen, written, total, outcome, cancel, disk, manifests>>

(* What follows the last entry of an archive that breaks off.              *)
Malformed ==
    /\ pc = "next" /\ seen = Count /\ archive.broken /\ ~cancel
    /\ End("failed")
    /\ UNCHANGED <<input, seen, written, total, outcome, cancel, disk, manifests>>

(* An entry comes, and the token is not set.                               *)
EntryComes == pc = "next" /\ seen < Count /\ ~cancel

EntryLimit ==
    /\ EntryComes /\ seen = maxEntries
    /\ truncated' = TRUE
    /\ Goto("manifest")
    /\ UNCHANGED <<input, seen, written, total, records, skipped, directories, cancel, disk,
                   manifests>>

Admitted == EntryComes /\ seen < maxEntries

SkipEntry == seen' = seen + 1 /\ skipped' = Append(skipped, seen + 1)

(* An unsafe path, a link or a device node.                                *)
Refuse ==
    /\ Admitted
    /\ Upcoming.name \in Refused \/ Upcoming.kind = "other"
    /\ SkipEntry
    /\ UNCHANGED <<pc, input, written, total, records, directories, truncated, cancel, result,
                   disk, manifests>>

MakeDirectory ==
    /\ Admitted /\ Upcoming.name \notin Refused /\ Upcoming.kind = "dir"
    /\ \/ /\ Upcoming.name \in Reachable(Upcoming.name)
          /\ disk' = WithDirectories(Reachable(Upcoming.name))
          /\ seen' = seen + 1 /\ directories' = directories + 1
          /\ UNCHANGED skipped
       \/ /\ Upcoming.name \notin Reachable(Upcoming.name)
          /\ disk' \in {disk, WithDirectories(Reachable(Upcoming.name))}
          /\ SkipEntry
          /\ UNCHANGED directories
    /\ UNCHANGED <<pc, input, written, total, records, truncated, cancel, result, manifests>>

FileComes == Admitted /\ Upcoming.name \notin Refused /\ Upcoming.kind = "file"

ByteLimit ==
    /\ FileComes /\ maxBytes <= total
    /\ truncated' = TRUE
    /\ Goto("manifest")
    /\ UNCHANGED <<input, seen, written, total, records, skipped, directories, cancel, disk,
                   manifests>>

(* Mutant: an entry that cannot be created is passed over in silence.      *)
PassOver ==
    /\ FileComes /\ total < maxBytes
    /\ ~(ParentsExist(Upcoming.name) /\ Creatable(Upcoming.name))
    /\ seen' = seen + 1
    /\ UNCHANGED <<pc, input, written, total, outcome, cancel, result, disk, manifests>>

(* The directories above it, or the file itself, cannot be created.        *)
NotCreated ==
    /\ FileComes /\ total < maxBytes
    /\ \/ /\ ~ParentsExist(Upcoming.name)
          /\ disk' \in {disk, WithDirectories(Reachable(Upcoming.name) \ {Upcoming.name})}
       \/ /\ ParentsExist(Upcoming.name) /\ ~Creatable(Upcoming.name)
          /\ disk' = WithDirectories(Above[Upcoming.name])
    /\ SkipEntry
    /\ UNCHANGED <<pc, input, written, total, records, directories, truncated, cancel, result,
                   manifests>>

OpenFile ==
    /\ FileComes /\ total < maxBytes
    /\ ParentsExist(Upcoming.name) /\ Creatable(Upcoming.name)
    /\ disk' = [WithDirectories(Above[Upcoming.name]) EXCEPT
                  ![PartialOf[Upcoming.name]] =
                      [round |-> round, entry |-> seen + 1, len |-> 0]]
    /\ seen' = seen + 1 /\ written' = 0
    /\ Goto("read")
    /\ UNCHANGED <<input, total, outcome, cancel, manifests>>

-----------------------------------------------------------------------------
(* The first n units of the entry that is being read.                      *)
Piece(n) == [round |-> round, entry |-> seen, len |-> n]

(* Mutant: the size is looked at between the entries only.                 *)
ReadWithoutLimit ==
    /\ pc = "read" /\ ~cancel
    /\ \E n \in 1 .. Block :
          /\ written + n <= Current.size
          /\ written' = written + n
          /\ total' = total + n
          /\ disk' = [disk EXCEPT ![PartialOf[Current.name]] = Piece(written + n)]
    /\ UNCHANGED <<pc, input, seen, outcome, cancel, result, manifests>>

(* One turn of the inner loop: the limit is looked at after the write.     *)
ReadBlock ==
    /\ pc = "read" /\ ~cancel
    /\ \E n \in 1 .. Block :
          /\ written + n <= Current.size
          /\ written' = written + n
          /\ total' = total + n
          /\ disk' = [disk EXCEPT ![PartialOf[Current.name]] = Piece(written + n)]
          /\ truncated' = (maxBytes < total + n)
          /\ Goto(IF maxBytes < total + n THEN "cut" ELSE "read")
    /\ UNCHANGED <<input, seen, records, skipped, directories, cancel, manifests>>

Record(path, complete) ==
    records' = records \cup
        {[path |-> path, complete |-> complete, size |-> Current.size,
          content |-> Piece(written)]}

(* A read gives nothing: the entry is at its end, or the archive is.  The  *)
(* file gets its name.  (That another command takes the name meanwhile is  *)
(* the matter of EvidenceStore.)                                           *)
EndOfEntry ==
    /\ pc = "read" /\ ~cancel
    /\ written = Current.size \/ (archive.broken /\ seen = Count)
    /\ disk' = [disk EXCEPT ![Current.name] = disk[PartialOf[Current.name]],
                            ![PartialOf[Current.name]] = None]
    /\ Record(Current.name, TRUE)
    /\ Goto("next")
    /\ UNCHANGED <<input, seen, written, total, skipped, directories, truncated, cancel, manifests>>

(* Mutant: the file that was cut is not among the files.                   *)
CutUnrecorded ==
    /\ pc = "cut"
    /\ Goto("manifest")
    /\ UNCHANGED <<input, seen, written, total, outcome, cancel, disk, manifests>>

(* Mutant: it is finished as if it were whole.                             *)
CutAsComplete ==
    /\ pc = "cut"
    /\ disk' = [disk EXCEPT ![Current.name] = disk[PartialOf[Current.name]],
                            ![PartialOf[Current.name]] = None]
    /\ Record(Current.name, TRUE)
    /\ Goto("manifest")
    /\ UNCHANGED <<input, seen, written, total, skipped, directories, truncated, cancel, manifests>>

(* finish_incomplete: the file keeps its .partial name and is recorded.    *)
CutShort ==
    /\ pc = "cut"
    /\ Record(PartialOf[Current.name], FALSE)
    /\ Goto("manifest")
    /\ UNCHANGED <<input, seen, written, total, skipped, directories, truncated, cancel, disk,
                   manifests>>

-----------------------------------------------------------------------------
(* cancel.check() before every entry and every block.  After the last      *)
(* entry it is not called: the extraction is complete.                     *)
Cancelled ==
    /\ cancel
    /\ pc = "read" \/ (pc = "next" /\ (seen < Count \/ archive.broken))
    /\ End("cancelled")
    /\ UNCHANGED <<input, seen, written, total, outcome, cancel, disk, manifests>>

(* What a manifest says of the entries that are no files: how many were    *)
(* skipped, the first of them by name, and how many became directories.    *)
Listed == SubSeq(skipped, 1, IF Len(skipped) <= MaxListed THEN Len(skipped) ELSE MaxListed)

(* The manifest is in place before its hash list, which may then fail.     *)
(* It names its source, by path and digest: that is the archive.           *)
WriteManifest ==
    /\ pc = "manifest"
    /\ manifests' = manifests \cup
           {[round |-> round, source |-> archive, records |-> records, listed |-> Listed,
             skips |-> Len(skipped), directories |-> directories, truncated |-> truncated]}
    /\ \E r \in {"ok", "failed"} : End(r)
    /\ UNCHANGED <<input, seen, written, total, outcome, cancel, disk>>

(* A call of the file system fails, an entry cannot be read, or there is   *)
(* no case the manifest could inherit.                                     *)
Fails ==
    /\ pc # "idle"
    /\ End("failed")
    /\ UNCHANGED <<input, seen, written, total, outcome, cancel, disk, manifests>>

SetToken ==
    /\ pc # "idle" /\ ~cancel
    /\ cancel' = TRUE
    /\ UNCHANGED <<pc, input, seen, written, total, outcome, result, disk, manifests>>

TakeEntry == Refuse \/ MakeDirectory \/ NotCreated \/ OpenFile
Stop == EndOfArchive \/ Malformed \/ EntryLimit \/ ByteLimit \/ Cancelled \/ Fails
Write == ReadBlock \/ EndOfEntry \/ CutShort

Next == NotResolved \/ Start \/ TakeEntry \/ Write \/ Stop \/ WriteManifest \/ SetToken

Spec == Init /\ [][Next]_vars

-----------------------------------------------------------------------------
(* Types.  The limits are limits: no more entries are taken than allowed,  *)
(* and no more is written than a last block beyond the size, as the test   *)
(* archive.rs:681 has it.                                                  *)
ArtifactRecord == [path : Paths, complete : BOOLEAN, size : Nat, content : Content]

Manifest ==
    [round : 1 .. MaxRounds, source : [entries : Seq(Entries), broken : BOOLEAN],
     records : SUBSET ArtifactRecord, listed : Seq(Nat), skips : Nat, directories : Nat,
     truncated : BOOLEAN]

TypeOK ==
    /\ pc \in {"idle", "next", "read", "cut", "manifest"}
    /\ result \in {"none", "ok", "cancelled", "failed"}
    /\ archive \in [entries : Seq(Entries), broken : BOOLEAN]
    /\ maxEntries \in Nat /\ maxBytes \in Nat
    /\ seen \in 0 .. maxEntries /\ seen <= Count
    /\ written \in Nat
    /\ total \in 0 .. (maxBytes + Block)
    /\ records \subseteq ArtifactRecord
    /\ skipped \in Seq(Nat) /\ directories \in Nat
    /\ truncated \in BOOLEAN /\ cancel \in BOOLEAN
    /\ round \in 0 .. MaxRounds
    /\ disk \in [Paths -> Content \cup {None, Dir}]
    /\ manifests \subseteq Manifest

(* TESTING.md:112: every extracted file is manifested, so that             *)
(* verification reports nothing extra.  What an extraction with a manifest *)
(* has on disk is what its manifest records, path by path and unit by      *)
(* unit: no file it made is left out, not even the one a limit cut short,  *)
(* and no later extraction into the same base touches one of them.         *)
IsFileOf(r, p) == disk[p] \notin {None, Dir} /\ disk[p].round = r

Manifested ==
    \A m \in manifests :
        /\ \A r \in m.records : disk[r.path] = r.content
        /\ \A p \in Paths : IsFileOf(m.round, p) => \E r \in m.records : r.path = p

(* store.rs:21: a file gets its final name only when it is complete.  A    *)
(* file some manifest calls complete has all its entry declared, although  *)
(* one at the end of an archive that breaks off is published short: the    *)
(* command then fails at the entry after it, before there is a manifest.   *)
WholeIfComplete ==
    \A m \in manifests : \A r \in m.records : r.complete => r.content.len = r.size

(* archive.rs:95: "Whether every entry in the archive was accounted for."  *)
(* Without truncation the files, the skipped entries and the directories   *)
(* of a manifest add up to the entries of its archive; no entry is listed  *)
(* as skipped twice, or is a file as well.  As long as the skipped ones    *)
(* are not more than a manifest lists, each entry that is no directory is  *)
(* in it by name; of the ones beyond, it has the number only.              *)
FilesIn(rs) == {r.content.entry : r \in rs}
NamedIn(m) == FilesIn(m.records) \cup {m.listed[i] : i \in DOMAIN m.listed}

Accounted ==
    \A m \in manifests :
        /\ ~m.truncated =>
              /\ Cardinality(m.records) + m.skips + m.directories = Len(m.source.entries)
              /\ m.skips <= MaxListed =>
                    \A e \in 1 .. Len(m.source.entries) :
                        e \in NamedIn(m) \/ m.source.entries[e].kind = "dir"
        /\ \A i \in DOMAIN m.listed :
              /\ m.listed[i] \notin FilesIn(m.records)
              /\ \A j \in DOMAIN m.listed : m.listed[i] = m.listed[j] => i = j

(* MANIFEST_SCHEMA.md:126: the path of an artifact is "never absolute,     *)
(* never containing `..`", and a manifest with another one is refused by   *)
(* every later command that loads the manifests of the case.  This module  *)
(* breaks it: validate_entry_path refuses `..` as a component only.        *)
PathsWithoutDots == CaseReadable
====
