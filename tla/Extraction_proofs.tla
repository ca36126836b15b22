-------------------------- MODULE Extraction_proofs --------------------------
(***************************************************************************)
(* Proofs about Extraction, for every set of names, archive and limit:     *)
(* what the manifests record is what is on disk, file by file; what they   *)
(* call complete is whole; every entry is accounted for; and the names     *)
(* validate_entry_path accepts are the only cause of a path that a         *)
(* manifest may not have.                                                  *)
(***************************************************************************)
EXTENDS Extraction, FiniteSetTheorems, SequenceTheorems, TLAPS

(* While entries are taken and read, no limit has been passed.             *)
WithinLimits ==
    /\ pc \in {"next", "read"} => total <= maxBytes /\ ~truncated
    /\ pc = "cut" => truncated

(* The file that is being written is at its .partial path, the name it is  *)
(* to get is free, and it is not recorded yet.                             *)
Reading ==
    pc \in {"read", "cut"} =>
        /\ seen \in 1 .. Count
        /\ disk[Current.name] = None
        /\ disk[PartialOf[Current.name]] = Piece(written)
        /\ \A r \in records : r.path # PartialOf[Current.name]

(* What this extraction has recorded is on disk, and what it has on disk   *)
(* is recorded or being written.                                           *)
Own ==
    /\ pc # "idle" => round > 0
    /\ \A r \in records : disk[r.path] = r.content /\ r.content.round = round
    /\ pc # "idle" =>
          \A p \in Paths :
             IsFileOf(round, p) =>
                \/ \E r \in records : r.path = p
                \/ pc \in {"read", "cut"} /\ p = PartialOf[Current.name]

(* The manifests are those of earlier extractions, or of this one when it  *)
(* is over; nothing on disk is of a later one.                             *)
Past ==
    /\ \A m \in manifests :
          /\ m.round <= round /\ (m.round = round => pc = "idle")
          /\ \A r \in m.records : r.content.round = m.round
    /\ \A p \in Paths : disk[p] \notin {None, Dir} => disk[p].round <= round

(* A file that was published short is the last of an archive that breaks   *)
(* off, and no manifest is reached from there.                             *)
ShortAtTheBreak ==
    \A r \in records :
        r.complete /\ r.content.len # r.size =>
            archive.broken /\ seen = Count /\ pc \in {"next", "idle"}

(* The entries taken so far, but for the one being read, are accounted for.*)
Done == IF pc \in {"read", "cut"} THEN seen - 1 ELSE seen
IsSkipped(e) == \E i \in 1 .. Len(skipped) : skipped[i] = e

Counted ==
    /\ IsFiniteSet(records)
    /\ Cardinality(records) + Len(skipped) + directories = Done

Named ==
    \A e \in 1 .. Done : e \in FilesIn(records) \/ IsSkipped(e) \/ archive.entries[e].kind = "dir"

Apart ==
    /\ \A r \in records : r.content.entry \in 1 .. Done
    /\ \A i \in 1 .. Len(skipped) : skipped[i] \in 1 .. Done /\ skipped[i] \notin FilesIn(records)
    /\ \A i, j \in 1 .. Len(skipped) : skipped[i] = skipped[j] => i = j

Indices ==
    pc # "idle" =>
        /\ Counted /\ Named /\ Apart
        /\ pc = "manifest" /\ ~truncated => seen = Count

Ind == TypeOK /\ WithinLimits /\ Reading /\ Own /\ Past /\ Manifested /\ ShortAtTheBreak
       /\ WholeIfComplete /\ Indices /\ Accounted

-----------------------------------------------------------------------------
LEMMA CurrentEntry ==
    ASSUME TypeOK, seen \in 1 .. Count
    PROVE  /\ Current \in Entries /\ Current.name \in Names /\ Current.name \in Paths
           /\ Current.size \in Nat /\ PartialOf[Current.name] \in Paths
<1>1. archive.entries \in Seq(Entries)
  BY DEF TypeOK
<1>2. Current \in Entries
  BY <1>1 DEF Current, Count
<1> QED BY <1>2, NameAssumption DEF Entries

LEMMA UpcomingEntry ==
    ASSUME TypeOK, seen < Count
    PROVE  /\ seen + 1 \in 1 .. Count
           /\ Upcoming \in Entries /\ Upcoming.name \in Names /\ Upcoming.name \in Paths
           /\ Upcoming.size \in Nat /\ PartialOf[Upcoming.name] \in Paths
<1>1. seen \in Nat /\ Count \in Nat
  BY DEF TypeOK, Count
<1>2. seen + 1 \in 1 .. Count
  BY <1>1
<1>3. archive.entries \in Seq(Entries)
  BY DEF TypeOK
<1>4. Upcoming \in Entries
  BY <1>2, <1>3 DEF Upcoming, Count
<1> QED BY <1>2, <1>4, NameAssumption DEF Entries

(* Directories are made where nothing was, or a directory already is.      *)
FilesKept ==
    \A p \in Paths : disk[p] \notin {None, Dir} \/ disk'[p] \notin {None, Dir} => disk'[p] = disk[p]

LEMMA DirectoriesOnly ==
    ASSUME TypeOK, NEW p \in Paths, NEW S \in SUBSET Reachable(p)
    PROVE  /\ WithDirectories(S) \in [Paths -> Content \cup {None, Dir}]
           /\ \A q \in Paths :
                 /\ disk[q] \notin {None, Dir} => WithDirectories(S)[q] = disk[q]
                 /\ WithDirectories(S)[q] \notin {None, Dir} => WithDirectories(S)[q] = disk[q]
                 /\ q \notin S => WithDirectories(S)[q] = disk[q]
<1>1. \A q \in S : disk[q] \in {None, Dir}
  BY DEF Reachable, Blocked
<1> QED BY <1>1, PlaceAssumption DEF TypeOK, WithDirectories

LEMMA DirectoryStep ==
    ASSUME TypeOK, MakeDirectory \/ NotCreated
    PROVE  FilesKept /\ disk' \in [Paths -> Content \cup {None, Dir}]
<1> DEFINE p == Upcoming.name
<1>1. p \in Paths
  BY UpcomingEntry DEF MakeDirectory, NotCreated, FileComes, Admitted, EntryComes
<1>2. disk \in [Paths -> Content \cup {None, Dir}]
  BY DEF TypeOK
<1>3. \/ disk' = disk
      \/ \E S \in SUBSET Reachable(p) : disk' = WithDirectories(S)
  <2>1. CASE MakeDirectory
    BY <2>1 DEF MakeDirectory
  <2>2. CASE NotCreated /\ ~ParentsExist(p)
    BY <2>2 DEF NotCreated
  <2>3. CASE NotCreated /\ ParentsExist(p)
    BY <2>3 DEF NotCreated, ParentsExist
  <2> QED BY <2>1, <2>2, <2>3
<1> QED BY <1>1, <1>2, <1>3, DirectoriesOnly DEF FilesKept

(* Opening a file makes the directories above it and an empty file, and    *)
(* leaves the name it is to get alone.                                     *)
LEMMA OpenStep ==
    ASSUME TypeOK, Own, OpenFile
    PROVE  LET n == Upcoming.name
               c == [round |-> round, entry |-> seen + 1, len |-> 0]
           IN  /\ disk' \in [Paths -> Content \cup {None, Dir}]
               /\ disk[PartialOf[n]] = None /\ disk'[PartialOf[n]] = c
               /\ disk'[n] = None
               /\ \A p \in Paths \ {PartialOf[n]} :
                     disk[p] \notin {None, Dir} \/ disk'[p] \notin {None, Dir} => disk'[p] = disk[p]
<1> DEFINE n == Upcoming.name
           c == [round |-> round, entry |-> seen + 1, len |-> 0]
           w == WithDirectories(Above[n])
<1>1. n \in Names /\ n \in Paths /\ PartialOf[n] \in Paths /\ seen + 1 \in Nat \ {0}
  BY UpcomingEntry DEF OpenFile, FileComes, Admitted, EntryComes, Count
<1>2. disk' = [w EXCEPT ![PartialOf[n]] = c] /\ Above[n] \subseteq Reachable(n)
      /\ disk[n] = None /\ disk[PartialOf[n]] = None
  BY DEF OpenFile, ParentsExist, Creatable
<1>3. w \in [Paths -> Content \cup {None, Dir}]
      /\ \A q \in Paths :
            /\ disk[q] \notin {None, Dir} => w[q] = disk[q]
            /\ w[q] \notin {None, Dir} => w[q] = disk[q]
            /\ q \notin Above[n] => w[q] = disk[q]
  BY <1>1, <1>2, DirectoriesOnly
<1>4. n # PartialOf[n] /\ n \notin Above[n]
  BY <1>1, NameAssumption
<1>5. c \in Content
  <2>1. round \in 1 .. MaxRounds
    BY DEF TypeOK, Own, OpenFile, FileComes, Admitted, EntryComes
  <2> QED BY <2>1, <1>1 DEF Content
<1> HIDE DEF n, c, w
<1> QED BY <1>1, <1>2, <1>3, <1>4, <1>5 DEF n, c

(* A block goes to the end of the open file.                               *)
LEMMA ReadStep ==
    ASSUME TypeOK, Reading, Own, ReadBlock
    PROVE  LET p == PartialOf[Current.name]
           IN  /\ seen \in 1 .. Count /\ p \in Paths /\ written' \in Nat
               /\ total' \in Nat /\ total' <= total + Block
               /\ Piece(written) \in Content /\ disk[p] = Piece(written)
               /\ Piece(written') \in Content
               /\ disk' = [disk EXCEPT ![p] = Piece(written')]
<1> DEFINE p == PartialOf[Current.name]
<1>1. seen \in 1 .. Count /\ p \in Paths /\ disk[p] = Piece(written)
  BY CurrentEntry DEF ReadBlock, Reading
<1>2. PICK n \in 1 .. Block :
         /\ written' = written + n /\ total' = total + n
         /\ disk' = [disk EXCEPT ![p] = Piece(written + n)]
  BY DEF ReadBlock
<1>3. written \in Nat /\ written' \in Nat /\ total' \in Nat /\ total' <= total + Block
  BY <1>2, LimitAssumption DEF TypeOK
<1>4. round \in 1 .. MaxRounds
  BY DEF TypeOK, Own, ReadBlock
<1>5. Piece(written) \in Content /\ Piece(written') \in Content
  BY <1>1, <1>3, <1>4 DEF Piece, Content, Count, TypeOK
<1>6. disk' = [disk EXCEPT ![p] = Piece(written')]
  BY <1>2
<1> QED BY <1>1, <1>3, <1>5, <1>6

(* A finished file is recorded where it is.                                *)
Finished(path, complete) ==
    [path |-> path, complete |-> complete, size |-> Current.size, content |-> Piece(written)]

LEMMA FinishStep ==
    ASSUME TypeOK, Reading, Own, EndOfEntry \/ CutShort
    PROVE  LET n == Current.name
               p == PartialOf[n]
           IN  /\ seen \in 1 .. Count /\ n \in Paths /\ p \in Paths /\ n # p
               /\ Piece(written) \in Content
               /\ Piece(written).round = round /\ Piece(written).entry = seen
               /\ Piece(written).len = written
               /\ disk[n] = None /\ disk[p] = Piece(written)
               /\ EndOfEntry => /\ disk' = [disk EXCEPT ![n] = Piece(written), ![p] = None]
                                /\ records' = records \cup {Finished(n, TRUE)}
                                /\ Finished(n, TRUE) \in ArtifactRecord
               /\ CutShort => /\ disk' = disk
                              /\ records' = records \cup {Finished(p, FALSE)}
                              /\ Finished(p, FALSE) \in ArtifactRecord
<1> DEFINE n == Current.name
           p == PartialOf[n]
<1>1. /\ pc \in {"read", "cut"} /\ seen \in 1 .. Count
      /\ disk[n] = None /\ disk[p] = Piece(written)
  BY DEF EndOfEntry, CutShort, Reading
<1>2. n \in Names /\ n \in Paths /\ p \in Paths /\ Current.size \in Nat
  BY <1>1, CurrentEntry
<1>3. n # p
  BY <1>2, NameAssumption
<1>4. round \in 1 .. MaxRounds
  BY <1>1 DEF TypeOK, Own
<1>5. /\ Piece(written) \in Content /\ Piece(written).round = round
      /\ Piece(written).entry = seen /\ Piece(written).len = written
  BY <1>1, <1>4 DEF Piece, Content, Count, TypeOK
<1>6. EndOfEntry => /\ disk' = [disk EXCEPT ![n] = Piece(written), ![p] = None]
                    /\ records' = records \cup {Finished(n, TRUE)}
  BY <1>1 DEF EndOfEntry, Record, Finished
<1>7. CutShort => disk' = disk /\ records' = records \cup {Finished(p, FALSE)}
  BY DEF CutShort, Record, Finished
<1>8. Finished(n, TRUE) \in ArtifactRecord /\ Finished(p, FALSE) \in ArtifactRecord
  BY <1>2, <1>5 DEF Finished, ArtifactRecord
<1> QED BY <1>1, <1>2, <1>3, <1>5, <1>6, <1>7, <1>8

(* The skipped entries a manifest lists are the first ones.                *)
LEMMA ListedPart ==
    ASSUME TypeOK
    PROVE  /\ Listed \in Seq(Nat) /\ Len(skipped) \in Nat /\ Len(Listed) <= Len(skipped)
           /\ \A i \in 1 .. Len(Listed) : Listed[i] = skipped[i]
           /\ Len(skipped) <= MaxListed => Listed = skipped
<1> DEFINE n == IF Len(skipped) <= MaxListed THEN Len(skipped) ELSE MaxListed
<1>1. skipped \in Seq(Nat) /\ Len(skipped) \in Nat
  BY DEF TypeOK
<1>2. n \in 0 .. Len(skipped)
  BY <1>1, LimitAssumption
<1>3. Listed = SubSeq(skipped, 1, n)
  BY DEF Listed
<1> HIDE DEF n
<1>4. Listed \in Seq(Nat) /\ Len(Listed) = n /\ \A i \in 1 .. n : Listed[i] = skipped[i]
  <2>1. \A i \in 1 .. n : i \in 1 .. Len(skipped)
    BY <1>1, <1>2
  <2> QED BY <1>1, <1>2, <1>3, <2>1, SubSeqProperties
<1>5. Len(skipped) <= MaxListed => Listed = skipped
  BY <1>1, <1>3, SubSeqFull DEF n
<1> QED BY <1>1, <1>2, <1>4, <1>5

-----------------------------------------------------------------------------
LEMMA TypeStep ==
    ASSUME TypeOK, WithinLimits, Reading, Own, [Next]_vars
    PROVE  TypeOK'
<1> USE DEF TypeOK, Goto, End, input, outcome, Count
<1>1. CASE Start
  <2>1. archive' \in [entries : Seq(Entries), broken : BOOLEAN]
    BY <1>1, ArchiveAssumption DEF Start
  <2>2. maxEntries' \in Nat /\ maxBytes' \in Nat /\ Block \in Nat
    BY <1>1, LimitAssumption DEF Start
  <2>3. round' \in 0 .. MaxRounds
    BY <1>1, LimitAssumption DEF Start
  <2>4. seen' = 0 /\ total' = 0
    BY <1>1 DEF Start
  <2>5. seen' \in 0 .. maxEntries'
    BY <2>2, <2>4
  <2>6. seen' <= Count'
    <3>1. Len(archive'.entries) \in Nat
      BY <2>1
    <3>2. 0 <= Len(archive'.entries)
      BY <3>1
    <3> QED BY <2>4, <3>2
  <2>7. total' \in 0 .. (maxBytes' + Block)
    <3> HIDE DEF TypeOK
    <3>1. \A b, k \in Nat : 0 \in 0 .. (b + k)
      OBVIOUS
    <3> QED BY <2>2, <2>4, <3>1
  <2>8. /\ pc' = "next" /\ UNCHANGED <<result, disk, manifests>>
        /\ written' = 0 /\ records' = {} /\ skipped' = <<>> /\ directories' = 0
        /\ truncated' = FALSE /\ cancel' = FALSE
    BY <1>1 DEF Start
  <2>9. /\ pc' \in {"idle", "next", "read", "cut", "manifest"} /\ result' = result
        /\ result \in {"none", "ok", "cancelled", "failed"}
        /\ written' \in Nat /\ truncated' \in BOOLEAN /\ cancel' \in BOOLEAN
    BY <2>8
  <2>10. records' \subseteq ArtifactRecord /\ skipped' \in Seq(Nat) /\ directories' \in Nat
    BY <2>8
  <2>11. disk' \in [Paths -> Content \cup {None, Dir}] /\ manifests' \subseteq Manifest
    BY <2>8
  <2> QED BY <2>1, <2>2, <2>3, <2>5, <2>6, <2>7, <2>9, <2>10, <2>11
<1>2. CASE EndOfArchive \/ Malformed \/ EntryLimit \/ ByteLimit \/ Cancelled \/ Fails \/ SetToken
           \/ NotResolved
  BY <1>2 DEF EndOfArchive, Malformed, EntryLimit, ByteLimit, FileComes, Admitted, EntryComes,
              Cancelled, Fails, SetToken, NotResolved
<1>3. CASE Refuse
  <2>1. seen' = seen + 1 /\ seen < maxEntries /\ seen < Count /\ skipped' = Append(skipped, seen + 1)
    BY <1>3 DEF Refuse, Admitted, EntryComes, SkipEntry
  <2>2. UNCHANGED <<pc, input, written, total, records, directories, truncated, cancel, result,
                    disk, manifests>>
    BY <1>3 DEF Refuse
  <2>3. skipped' \in Seq(Nat) /\ seen' \in 0 .. maxEntries' /\ seen' <= Count'
    BY <2>1, <2>2
  <2> QED BY <2>2, <2>3
<1>4. CASE MakeDirectory
  <2>1. disk' \in [Paths -> Content \cup {None, Dir}]
    BY <1>4, DirectoryStep
  <2>2. seen' = seen + 1 /\ seen < maxEntries /\ seen < Count
    BY <1>4 DEF MakeDirectory, Admitted, EntryComes, SkipEntry
  <2>3. \/ skipped' = skipped /\ directories' = directories + 1
        \/ skipped' = Append(skipped, seen + 1) /\ directories' = directories
    BY <1>4 DEF MakeDirectory, SkipEntry
  <2>4. UNCHANGED <<pc, input, written, total, records, truncated, cancel, result, manifests>>
    BY <1>4 DEF MakeDirectory
  <2>5. skipped' \in Seq(Nat) /\ directories' \in Nat
    <3>1. seen + 1 \in Nat /\ skipped \in Seq(Nat) /\ directories \in Nat
      OBVIOUS
    <3>2. Append(skipped, seen + 1) \in Seq(Nat) /\ directories + 1 \in Nat
      BY <3>1, AppendProperties
    <3> QED BY <2>3, <3>1, <3>2
  <2>6. seen' \in 0 .. maxEntries' /\ seen' <= Count'
    BY <2>2, <2>4
  <2> QED BY <2>1, <2>4, <2>5, <2>6
<1>5. CASE NotCreated
  <2>1. disk' \in [Paths -> Content \cup {None, Dir}]
    BY <1>5, DirectoryStep
  <2>2. seen' = seen + 1 /\ seen < maxEntries /\ seen < Count /\ skipped' = Append(skipped, seen + 1)
    BY <1>5 DEF NotCreated, FileComes, Admitted, EntryComes, SkipEntry
  <2>3. UNCHANGED <<pc, input, written, total, records, directories, truncated, cancel, result,
                    manifests>>
    BY <1>5 DEF NotCreated
  <2>4. skipped' \in Seq(Nat) /\ seen' \in 0 .. maxEntries' /\ seen' <= Count'
    BY <2>2, <2>3
  <2> QED BY <2>1, <2>3, <2>4
<1>6. CASE OpenFile
  <2>1. disk' \in [Paths -> Content \cup {None, Dir}]
    BY <1>6, OpenStep
  <2> QED BY <1>6, <2>1 DEF OpenFile, FileComes, Admitted, EntryComes
<1>7. CASE ReadBlock
  <2>1. written' \in Nat /\ total' \in 0 .. (maxBytes + Block)
    BY <1>7, ReadStep, LimitAssumption DEF ReadBlock, WithinLimits
  <2>2. disk' \in [Paths -> Content \cup {None, Dir}]
    BY <1>7, ReadStep
  <2> QED BY <1>7, <2>1, <2>2 DEF ReadBlock
<1>8. CASE EndOfEntry
  <2>1. disk' \in [Paths -> Content \cup {None, Dir}]
    <3> DEFINE n == Current.name
    <3>1. Piece(written) \in Content /\ disk' = [disk EXCEPT ![n] = Piece(written), ![PartialOf[n]] = None]
      BY <1>8, FinishStep
    <3>2. disk \in [Paths -> Content \cup {None, Dir}]
      OBVIOUS
    <3> HIDE DEF n, TypeOK
    <3> QED BY <3>1, <3>2
  <2>2. records' \subseteq ArtifactRecord
    BY <1>8, FinishStep
  <2> QED BY <1>8, <2>1, <2>2 DEF EndOfEntry
<1>9. CASE CutShort
  <2>1. records' \subseteq ArtifactRecord
    BY <1>9, FinishStep
  <2> QED BY <1>9, <2>1 DEF CutShort
<1>10. CASE WriteManifest
  <2>1. Listed \in Seq(Nat) /\ Len(skipped) \in Nat
    BY ListedPart
  <2>2. [round |-> round, source |-> archive, records |-> records, listed |-> Listed,
         skips |-> Len(skipped), directories |-> directories, truncated |-> truncated] \in Manifest
    BY <1>10, <2>1 DEF WriteManifest, Own, Manifest
  <2> QED BY <1>10, <2>2 DEF WriteManifest
<1>11. CASE UNCHANGED vars
  BY <1>11 DEF vars
<1> QED BY <1>1, <1>2, <1>3, <1>4, <1>5, <1>6, <1>7, <1>8, <1>9, <1>10, <1>11
        DEF Next, TakeEntry, Write, Stop

LEMMA LimitStep ==
    ASSUME TypeOK, WithinLimits, [Next]_vars
    PROVE  WithinLimits'
<1> USE LimitAssumption DEF TypeOK, WithinLimits, Goto, End, input, outcome
<1>1. CASE Start
  BY <1>1 DEF Start
<1>2. CASE Stop \/ WriteManifest \/ SetToken \/ NotResolved
  BY <1>2 DEF Stop, EndOfArchive, Malformed, EntryLimit, ByteLimit, FileComes, Admitted,
              EntryComes, Cancelled, Fails, SetToken, WriteManifest, NotResolved
<1>3. CASE TakeEntry
  BY <1>3 DEF TakeEntry, Refuse, MakeDirectory, NotCreated, OpenFile, FileComes, Admitted,
              EntryComes
<1>4. CASE ReadBlock
  <2>1. PICK n \in 1 .. Block :
           /\ total' = total + n
           /\ truncated' = (maxBytes < total + n)
           /\ pc' = IF maxBytes < total + n THEN "cut" ELSE "read"
    BY <1>4 DEF ReadBlock
  <2>2. maxBytes' = maxBytes
    BY <1>4 DEF ReadBlock
  <2>3. CASE maxBytes < total + n
    BY <2>1, <2>3
  <2>4. CASE ~(maxBytes < total + n)
    <3>1. total' <= maxBytes'
      BY <2>1, <2>2, <2>4
    <3>2. pc' = "read" /\ ~truncated'
      BY <2>1, <2>4, Zenon
    <3> QED BY <3>1, <3>2
  <2> QED BY <2>3, <2>4
<1>5. CASE EndOfEntry \/ CutShort
  <2>1. /\ maxBytes' = maxBytes /\ total' = total /\ truncated' = truncated
        /\ pc' = "manifest" \/ (pc = "read" /\ pc' = "next")
    BY <1>5 DEF EndOfEntry, CutShort
  <2> QED BY <2>1
<1>6. CASE UNCHANGED vars
  BY <1>6 DEF vars
<1> QED BY <1>1, <1>2, <1>3, <1>4, <1>5, <1>6 DEF Next, Write

-----------------------------------------------------------------------------
LEMMA FreeIsUnrecorded ==
    ASSUME TypeOK, Own, NEW p \in Paths, disk[p] = None
    PROVE  \A r \in records : r.path # p
<1>1. \A r \in records : disk[r.path] = r.content /\ r.content \in Content
  BY DEF Own, TypeOK, ArtifactRecord
<1> QED BY <1>1, PlaceAssumption

LEMMA ReadingStep ==
    ASSUME TypeOK, Reading, Own, [Next]_vars
    PROVE  Reading'
<1>1. CASE OpenFile
  <2> DEFINE n == Upcoming.name
  <2>1. /\ seen + 1 \in 1 .. Count /\ n \in Names /\ PartialOf[n] \in Paths
    BY <1>1, UpcomingEntry DEF OpenFile, FileComes, Admitted, EntryComes
  <2>2. /\ disk[PartialOf[n]] = None /\ disk'[n] = None
        /\ disk'[PartialOf[n]] = [round |-> round, entry |-> seen + 1, len |-> 0]
    BY <1>1, OpenStep
  <2>3. \A r \in records : r.path # PartialOf[n]
    BY <2>1, <2>2, FreeIsUnrecorded
  <2>4. /\ seen' = seen + 1 /\ written' = 0 /\ UNCHANGED <<archive, round, records>>
    BY <1>1 DEF OpenFile, input, outcome
  <2>5. Current' = Upcoming /\ Count' = Count
    BY <2>4 DEF Current, Upcoming, Count
  <2>6. Piece(written)' = [round |-> round, entry |-> seen + 1, len |-> 0]
    BY <2>4 DEF Piece
  <2> QED BY <2>1, <2>2, <2>3, <2>4, <2>5, <2>6 DEF Reading
<1>2. CASE ReadBlock
  <2> DEFINE n == Current.name
  <2>1. /\ seen \in 1 .. Count /\ n \in Names /\ n \in Paths /\ PartialOf[n] \in Paths
        /\ n # PartialOf[n]
    BY <1>2, ReadStep, CurrentEntry, NameAssumption
  <2>2. /\ disk[n] = None /\ \A r \in records : r.path # PartialOf[n]
    BY <1>2 DEF ReadBlock, Reading
  <2>3. disk' = [disk EXCEPT ![PartialOf[n]] = Piece(written')]
    BY <1>2, ReadStep
  <2>4. UNCHANGED <<archive, seen, round, records>>
    BY <1>2 DEF ReadBlock, input
  <2>5. /\ Current' = Current /\ Count' = Count /\ Piece(written)' = Piece(written')
    BY <2>4 DEF Current, Count, Piece
  <2>6. disk'[n] = None /\ disk'[PartialOf[n]] = Piece(written')
    BY <2>1, <2>2, <2>3 DEF TypeOK
  <2> QED BY <2>1, <2>2, <2>4, <2>5, <2>6 DEF Reading
<1>3. CASE SetToken
  BY <1>3 DEF SetToken, Reading, Current, Count, Piece, input, outcome
<1>4. CASE UNCHANGED vars
  BY <1>4 DEF vars, Reading, Current, Count, Piece, input, outcome
<1>5. CASE Start \/ Refuse \/ MakeDirectory \/ NotCreated \/ EndOfEntry \/ CutShort \/ Stop
           \/ WriteManifest \/ NotResolved
  <2>1. pc' \notin {"read", "cut"}
    BY <1>5 DEF Start, Refuse, MakeDirectory, NotCreated, FileComes, Admitted, EntryComes,
                EndOfEntry, CutShort, Stop, EndOfArchive, Malformed, EntryLimit, ByteLimit,
                Cancelled, Fails, WriteManifest, NotResolved, Goto, End
  <2> QED BY <2>1 DEF Reading
<1> QED BY <1>1, <1>2, <1>3, <1>4, <1>5 DEF Next, TakeEntry, Write

(* What is on disk of other extractions is never touched.                  *)
Mine(x) == x \in {None, Dir} \/ x.round = round

LEMMA OthersUntouched ==
    ASSUME TypeOK, Reading, Own, [Next]_vars
    PROVE  \A p \in Paths : \/ disk'[p] = disk[p]
                            \/ pc # "idle" /\ Mine(disk[p]) /\ Mine(disk'[p])
<1>1. CASE MakeDirectory \/ NotCreated
  <2>1. FilesKept /\ pc # "idle"
    BY <1>1, DirectoryStep DEF MakeDirectory, NotCreated, FileComes, Admitted, EntryComes
  <2> QED BY <2>1 DEF FilesKept, Mine
<1>2. CASE OpenFile
  <2>1. pc # "idle"
    BY <1>2 DEF OpenFile, FileComes, Admitted, EntryComes
  <2>2. [round |-> round, entry |-> seen + 1, len |-> 0].round = round
    OBVIOUS
  <2> QED BY <1>2, <2>1, <2>2, OpenStep DEF Mine
<1>3. CASE ReadBlock
  <2>1. pc # "idle" /\ Piece(written).round = round /\ Piece(written').round = round
    BY <1>3 DEF ReadBlock, Piece
  <2> QED BY <1>3, <2>1, ReadStep DEF Mine, TypeOK
<1>4. CASE EndOfEntry
  <2>1. pc # "idle"
    BY <1>4 DEF EndOfEntry
  <2> QED BY <1>4, <2>1, FinishStep DEF Mine, TypeOK
<1>5. CASE Start \/ Refuse \/ CutShort \/ Stop \/ WriteManifest \/ SetToken \/ NotResolved
           \/ UNCHANGED vars
  BY <1>5 DEF Start, Refuse, CutShort, Stop, EndOfArchive, Malformed, EntryLimit, ByteLimit,
              Cancelled, Fails, WriteManifest, SetToken, NotResolved, vars
<1> QED BY <1>1, <1>2, <1>3, <1>4, <1>5 DEF Next, TakeEntry, Write

LEMMA OwnStep ==
    ASSUME TypeOK, Reading, Own, Past, [Next]_vars
    PROVE  Own'
<1> DEFINE n == Current.name
           q == PartialOf[n]
<1>0. \A r \in records : r.path \in Paths /\ disk[r.path] = r.content /\ r.content.round = round
                         /\ disk[r.path] \notin {None, Dir}
  BY PlaceAssumption DEF Own, TypeOK, ArtifactRecord
<1>1. CASE Start
  <2>1. /\ round' = round + 1 /\ round \in Nat /\ round' > 0 /\ records' = {} /\ disk' = disk
    BY <1>1, LimitAssumption DEF Start, TypeOK
  <2>2. \A p \in Paths : disk[p] \notin {None, Dir} => disk[p].round \in Nat /\ disk[p].round <= round
    BY DEF Past, TypeOK, Content
  <2>3. \A p \in Paths : disk[p] \notin {None, Dir} => disk[p].round # round'
    BY <2>1, <2>2
  <2> QED BY <2>1, <2>3 DEF Own, IsFileOf
<1>2. CASE MakeDirectory \/ NotCreated
  <2>1. FilesKept
    BY <1>2, DirectoryStep
  <2>2. pc = "next" /\ pc' = "next" /\ UNCHANGED <<round, records>>
    BY <1>2 DEF MakeDirectory, NotCreated, FileComes, Admitted, EntryComes, input
  <2> QED BY <1>0, <2>1, <2>2 DEF Own, IsFileOf, FilesKept
<1>3. CASE OpenFile
  <2> DEFINE m == Upcoming.name
  <2>1. /\ pc = "next" /\ pc' = "read" /\ UNCHANGED <<archive, round, records>> /\ seen' = seen + 1
    BY <1>3 DEF OpenFile, FileComes, Admitted, EntryComes, Goto, input, outcome
  <2>2. Current' = Upcoming
    BY <2>1 DEF Current, Upcoming
  <2>3. disk[PartialOf[m]] = None
        /\ \A p \in Paths \ {PartialOf[m]} :
              disk[p] \notin {None, Dir} \/ disk'[p] \notin {None, Dir} => disk'[p] = disk[p]
    BY <1>3, OpenStep
  <2> QED BY <1>0, <2>1, <2>2, <2>3 DEF Own, IsFileOf
<1>4. CASE ReadBlock
  <2>1. pc = "read" /\ pc' \in {"read", "cut"} /\ UNCHANGED <<archive, seen, round, records>>
    BY <1>4 DEF ReadBlock, Goto, input
  <2>2. Current' = Current
    BY <2>1 DEF Current
  <2>3. \A r \in records : r.path # q
    BY <2>1 DEF Reading
  <2>4. \A p \in Paths \ {q} : disk'[p] = disk[p]
    BY <1>4, ReadStep DEF TypeOK
  <2> QED BY <1>0, <2>1, <2>2, <2>3, <2>4 DEF Own, IsFileOf
<1>5. CASE EndOfEntry
  <2>1. /\ pc = "read" /\ pc' = "next" /\ round' = round
        /\ \A r \in records : r.path # q
    BY <1>5 DEF EndOfEntry, Goto, input, Reading
  <2>2. /\ n \in Paths /\ q \in Paths /\ n # q /\ disk[n] = None /\ Piece(written).round = round
        /\ disk' = [disk EXCEPT ![n] = Piece(written), ![q] = None]
        /\ records' = records \cup {Finished(n, TRUE)}
    BY <1>5, FinishStep
  <2>3. Finished(n, TRUE).path = n /\ Finished(n, TRUE).content = Piece(written)
    BY DEF Finished
  <2>4. disk'[n] = Piece(written) /\ disk'[q] = None /\ \A p \in Paths \ {n, q} : disk'[p] = disk[p]
    BY <2>2 DEF TypeOK
  <2>5. \A r \in records' : disk'[r.path] = r.content /\ r.content.round = round
    BY <1>0, <2>1, <2>2, <2>3, <2>4
  <2>6. \A p \in Paths : IsFileOf(round, p)' => \E r \in records' : r.path = p
    BY <2>1, <2>2, <2>3, <2>4 DEF Own, IsFileOf
  <2> QED BY <2>1, <2>5, <2>6 DEF Own
<1>6. CASE CutShort
  <2>1. /\ pc = "cut" /\ pc' = "manifest" /\ round' = round
    BY <1>6 DEF CutShort, Goto, input
  <2>2. /\ disk' = disk /\ disk[q] = Piece(written) /\ Piece(written).round = round
        /\ records' = records \cup {Finished(q, FALSE)}
    BY <1>6, FinishStep
  <2>3. Finished(q, FALSE).path = q /\ Finished(q, FALSE).content = Piece(written)
    BY DEF Finished
  <2> QED BY <1>0, <2>1, <2>2, <2>3 DEF Own, IsFileOf
<1>7. CASE SetToken \/ NotResolved \/ UNCHANGED vars
  BY <1>7 DEF SetToken, NotResolved, End, vars, Own, IsFileOf, Current, input, outcome
<1>8. CASE Refuse \/ Stop \/ WriteManifest
  <2>1. /\ pc # "idle" /\ UNCHANGED <<round, records, disk>>
        /\ pc' \in {"next", "manifest"} => pc \notin {"read", "cut"}
        /\ pc' \in {"next", "manifest", "idle"}
    BY <1>8 DEF Refuse, Admitted, EntryComes, Stop, EndOfArchive, Malformed, EntryLimit, ByteLimit,
                FileComes, Cancelled, Fails, WriteManifest, Goto, End, input, outcome
  <2>2. \A r \in records' : disk'[r.path] = r.content /\ r.content.round = round'
    BY <1>0, <2>1
  <2>3. CASE pc' = "idle"
    BY <2>2, <2>3 DEF Own
  <2>4. CASE pc' # "idle"
    <3>1. pc \notin {"read", "cut", "idle"}
      BY <2>1, <2>4
    <3> QED BY <2>1, <2>2, <3>1 DEF Own, IsFileOf
  <2> QED BY <2>3, <2>4
<1> QED BY <1>1, <1>2, <1>3, <1>4, <1>5, <1>6, <1>7, <1>8 DEF Next, TakeEntry, Write

(* A step changes no manifest, and adds at most the one that records what  *)
(* this extraction made, when it ends.                                     *)
ThisManifest ==
    [round |-> round, source |-> archive, records |-> records, listed |-> Listed,
     skips |-> Len(skipped), directories |-> directories, truncated |-> truncated]

LEMMA ManifestsGrow ==
    ASSUME [Next]_vars
    PROVE  \/ manifests' = manifests
           \/ /\ manifests' = manifests \cup {ThisManifest}
              /\ pc = "manifest" /\ pc' = "idle"
              /\ UNCHANGED <<round, disk, records, skipped, directories, truncated, seen, archive>>
<1>1. CASE WriteManifest
  BY <1>1 DEF WriteManifest, ThisManifest, End, input, outcome
<1>2. CASE ~WriteManifest
  BY <1>2 DEF Next, vars, Start, TakeEntry, Refuse, MakeDirectory, NotCreated, OpenFile, Write,
              ReadBlock, EndOfEntry, CutShort, Stop, EndOfArchive, Malformed, EntryLimit, ByteLimit,
              Cancelled, Fails, SetToken, NotResolved
<1> QED BY <1>1, <1>2

LEMMA RoundStep ==
    ASSUME [Next]_vars
    PROVE  \/ Start
           \/ round' = round /\ (pc' = "idle" \/ pc # "idle")
           \/ round' = round /\ pc' = pc
<1>1. CASE ~Start
  BY <1>1 DEF Next, vars, TakeEntry, Refuse, MakeDirectory, NotCreated, OpenFile, FileComes,
              Admitted, EntryComes, Write, ReadBlock, EndOfEntry, CutShort, Stop, EndOfArchive,
              Malformed, EntryLimit, ByteLimit, Cancelled, Fails, SetToken, WriteManifest, NotResolved,
              End, input
<1> QED BY <1>1

LEMMA PastStep ==
    ASSUME TypeOK, Reading, Own, Past, [Next]_vars
    PROVE  Past'
<1>1. round \in Nat /\ (\A m \in manifests : m.round \in Nat)
  BY LimitAssumption DEF TypeOK, Manifest
<1>2. round' = round \/ round' = round + 1
  BY RoundStep DEF Start
<1>3. \A p \in Paths : disk'[p] \notin {None, Dir} => disk'[p].round <= round'
  <2>1. \A p \in Paths : disk[p] \notin {None, Dir} => disk[p].round \in Nat /\ disk[p].round <= round
    BY DEF Past, TypeOK, Content
  <2> QED BY <1>1, <1>2, <2>1, OthersUntouched DEF Mine
<1>4. ASSUME NEW m \in manifests'
      PROVE  /\ m.round <= round' /\ (m.round = round' => pc' = "idle")
             /\ \A r \in m.records : r.content.round = m.round
  <2>1. CASE m \in manifests
    <3>1. m.round <= round /\ (m.round = round => pc = "idle") /\ m.round \in Nat
      BY <1>1, <2>1 DEF Past
    <3>2. CASE Start
      BY <1>1, <2>1, <3>1, <3>2 DEF Past, Start
    <3>3. CASE ~Start
      BY <2>1, <3>1, <3>3, RoundStep DEF Past
    <3> QED BY <3>2, <3>3
  <2>2. CASE m \notin manifests
    <3>1. m = ThisManifest /\ pc' = "idle" /\ round' = round
      BY <2>2, ManifestsGrow
    <3> QED BY <1>1, <3>1 DEF ThisManifest, Own
  <2> QED BY <2>1, <2>2
<1> QED BY <1>3, <1>4 DEF Past

LEMMA ManifestedStep ==
    ASSUME TypeOK, Reading, Own, Past, Manifested, [Next]_vars
    PROVE  Manifested'
<1> SUFFICES ASSUME NEW m \in manifests'
             PROVE  /\ \A r \in m.records : disk'[r.path] = r.content
                    /\ \A p \in Paths : IsFileOf(m.round, p)' => \E r \in m.records : r.path = p
  BY DEF Manifested, IsFileOf
<1>1. CASE m \in manifests
  <2>1. \A r \in m.records : /\ r.path \in Paths /\ disk[r.path] = r.content
                            /\ disk[r.path] \notin {None, Dir} /\ r.content.round = m.round
    BY <1>1, PlaceAssumption DEF Manifested, Past, TypeOK, Manifest, ArtifactRecord
  <2>2. pc # "idle" => m.round # round
    BY <1>1 DEF Past
  <2>3. \A r \in m.records : disk'[r.path] = r.content
    BY <2>1, <2>2, OthersUntouched DEF Mine
  <2>4. ASSUME NEW p \in Paths, IsFileOf(m.round, p)'
        PROVE  \E r \in m.records : r.path = p
    <3>1. disk'[p] = disk[p]
      BY <2>2, <2>4, OthersUntouched DEF Mine, IsFileOf
    <3> QED BY <1>1, <2>4, <3>1 DEF Manifested, IsFileOf
  <2> QED BY <2>3, <2>4
<1>2. CASE m \notin manifests
  <2>1. m = ThisManifest /\ pc = "manifest" /\ disk' = disk
    BY <1>2, ManifestsGrow
  <2>2. m.records = records /\ m.round = round
    BY <2>1 DEF ThisManifest
  <2> QED BY <2>1, <2>2 DEF Own, IsFileOf
<1> QED BY <1>1, <1>2

LEMMA ShortStep ==
    ASSUME TypeOK, Reading, Own, ShortAtTheBreak, [Next]_vars
    PROVE  ShortAtTheBreak'
<1>1. CASE Start
  BY <1>1 DEF Start, ShortAtTheBreak
<1>2. CASE EndOfEntry
  <2>1. /\ pc = "read" /\ pc' = "next" /\ UNCHANGED <<archive, seen>>
        /\ written = Current.size \/ (archive.broken /\ seen = Count)
    BY <1>2 DEF EndOfEntry, Goto, input
  <2>2. \A r \in records : r.complete => r.content.len = r.size
    BY <2>1 DEF ShortAtTheBreak
  <2>3. /\ records' = records \cup {Finished(Current.name, TRUE)}
        /\ Piece(written).len = written
    BY <1>2, FinishStep
  <2>4. /\ Finished(Current.name, TRUE).size = Current.size
        /\ Finished(Current.name, TRUE).content = Piece(written)
    BY DEF Finished
  <2> QED BY <2>1, <2>2, <2>3, <2>4 DEF ShortAtTheBreak, Count
<1>3. CASE CutShort
  <2>1. pc = "cut" /\ records' = records \cup {Finished(PartialOf[Current.name], FALSE)}
    BY <1>3, FinishStep DEF CutShort
  <2>2. ~Finished(PartialOf[Current.name], FALSE).complete
    BY DEF Finished
  <2> QED BY <2>1, <2>2 DEF ShortAtTheBreak
<1>4. CASE TakeEntry \/ ReadBlock
  <2>1. /\ UNCHANGED <<archive, records>>
        /\ pc = "read" \/ seen < Count
    BY <1>4 DEF TakeEntry, Refuse, MakeDirectory, NotCreated, OpenFile, FileComes, Admitted,
                EntryComes, ReadBlock, input, outcome
  <2>2. seen # Count \/ pc = "read"
    BY <2>1 DEF TypeOK, Count
  <2> QED BY <2>1, <2>2 DEF ShortAtTheBreak
<1>5. CASE EndOfArchive \/ EntryLimit \/ ByteLimit \/ WriteManifest
  <2>1. /\ UNCHANGED <<archive, records, seen>>
        /\ pc = "manifest" \/ ~archive.broken \/ seen < Count
    BY <1>5 DEF EndOfArchive, EntryLimit, ByteLimit, FileComes, Admitted, EntryComes, WriteManifest,
                input, outcome
  <2>2. seen # Count \/ pc = "manifest" \/ ~archive.broken
    BY <2>1 DEF TypeOK, Count
  <2> QED BY <2>1, <2>2 DEF ShortAtTheBreak
<1>6. CASE Malformed \/ Cancelled \/ Fails \/ SetToken \/ NotResolved \/ UNCHANGED vars
  BY <1>6 DEF Malformed, Cancelled, Fails, SetToken, NotResolved, vars, End, input, outcome,
              ShortAtTheBreak, Count
<1> QED BY <1>1, <1>2, <1>3, <1>4, <1>5, <1>6 DEF Next, Write, Stop

LEMMA WholeStep ==
    ASSUME WholeIfComplete, ShortAtTheBreak, [Next]_vars
    PROVE  WholeIfComplete'
<1> SUFFICES ASSUME NEW m \in manifests'
             PROVE  \A r \in m.records : r.complete => r.content.len = r.size
  BY DEF WholeIfComplete
<1>1. CASE m \in manifests
  BY <1>1 DEF WholeIfComplete
<1>2. CASE m \notin manifests
  <2>1. m.records = records /\ pc = "manifest"
    BY <1>2, ManifestsGrow DEF ThisManifest
  <2> QED BY <2>1 DEF ShortAtTheBreak
<1> QED BY <1>1, <1>2

(* An entry that is skipped or becomes a directory is counted once.        *)
LEMMA PassedStep ==
    ASSUME TypeOK, Indices, Refuse \/ MakeDirectory \/ NotCreated
    PROVE  Indices'
<1>1. /\ pc = "next" /\ pc' = "next" /\ seen' = seen + 1 /\ UNCHANGED <<records, archive>>
      /\ \/ skipped' = Append(skipped, seen + 1) /\ directories' = directories
         \/ /\ skipped' = skipped /\ directories' = directories + 1
            /\ archive.entries[seen + 1].kind = "dir"
  BY DEF Refuse, MakeDirectory, NotCreated, FileComes, Admitted, EntryComes, SkipEntry, Upcoming,
         input
<1>2. seen \in Nat /\ Done = seen /\ Done' = seen + 1
  BY <1>1 DEF TypeOK, Done
<1>3. Counted /\ Named /\ Apart
  BY <1>1 DEF Indices
<1>4. directories \in Nat /\ skipped \in Seq(Nat) /\ Len(skipped) \in Nat
  BY DEF TypeOK
<1>5. CASE skipped' = skipped
  <2>1. directories' = directories + 1 /\ archive.entries[seen + 1].kind = "dir"
    <3>1. skipped # Append(skipped, seen + 1)
      BY <1>4
    <3> QED BY <1>1, <1>5, <3>1
  <2>2. Counted'
    <3>1. Cardinality(records) \in Nat
      BY <1>3, FS_CardinalityType DEF Counted
    <3> QED BY <1>1, <1>2, <1>3, <1>4, <1>5, <2>1, <3>1 DEF Counted
  <2>3. Named'
    BY <1>1, <1>2, <1>3, <1>5, <2>1 DEF Named, IsSkipped
  <2>4. Apart'
    BY <1>1, <1>2, <1>3, <1>5 DEF Apart
  <2> QED BY <1>1, <2>2, <2>3, <2>4 DEF Indices
<1>6. CASE skipped' = Append(skipped, seen + 1) /\ directories' = directories
  <2>1. /\ Len(skipped') = Len(skipped) + 1 /\ skipped'[Len(skipped) + 1] = seen + 1
        /\ \A i \in 1 .. Len(skipped) : skipped'[i] = skipped[i]
    BY <1>2, <1>4, <1>6
  <2>2. Counted'
    <3>1. Cardinality(records) \in Nat
      BY <1>3, FS_CardinalityType DEF Counted
    <3>2. Cardinality(records) + Len(skipped) + directories = seen
      BY <1>2, <1>3 DEF Counted
    <3>3. Cardinality(records) + (Len(skipped) + 1) + directories = seen + 1
      BY <1>2, <1>4, <3>1, <3>2
    <3> QED BY <1>1, <1>2, <1>3, <1>6, <2>1, <3>3 DEF Counted
  <2>3. Named'
    <3>1. Len(skipped) + 1 \in 1 .. Len(skipped')
      BY <1>4, <2>1
    <3>2. 1 .. Len(skipped) \subseteq 1 .. Len(skipped')
      BY <1>4, <2>1
    <3>3. \A e \in 1 .. Done : IsSkipped(e) => IsSkipped(e)'
      BY <2>1, <3>2 DEF IsSkipped
    <3>4. \E i \in 1 .. Len(skipped') : skipped'[i] = seen + 1
      BY <2>1, <3>1
    <3>5. \A e \in 1 .. (seen + 1) : e \in 1 .. Done \/ e = seen + 1
      BY <1>2
    <3>6. \A e \in 1 .. (seen + 1) :
             e \in FilesIn(records) \/ IsSkipped(e)' \/ archive.entries[e].kind = "dir"
      <4> SUFFICES ASSUME NEW e \in 1 .. (seen + 1)
                   PROVE  e \in FilesIn(records) \/ IsSkipped(e)' \/ archive.entries[e].kind = "dir"
        OBVIOUS
      <4>1. CASE e = seen + 1
        BY <3>4, <4>1 DEF IsSkipped
      <4>2. CASE e \in 1 .. Done
        BY <1>3, <3>3, <4>2 DEF Named
      <4> QED BY <3>5, <4>1, <4>2
    <3> QED BY <1>1, <1>2, <3>6 DEF Named
  <2>4. Apart'
    <3>1. \A i \in 1 .. Len(skipped') : i \in 1 .. Len(skipped) \/ i = Len(skipped) + 1
      BY <1>4, <2>1
    <3>2. seen + 1 \notin 1 .. Done /\ seen + 1 \in 1 .. Done' /\ 1 .. Done \subseteq 1 .. Done'
      BY <1>2
    <3>3. \A r \in records : r.content.entry \in 1 .. Done
      BY <1>3 DEF Apart
    <3>4. seen + 1 \notin FilesIn(records)
      BY <3>2, <3>3 DEF FilesIn
    <3>5. \A i \in 1 .. Len(skipped') : skipped'[i] \in 1 .. Done' /\ skipped'[i] \notin FilesIn(records)
      BY <1>3, <2>1, <3>1, <3>2, <3>4 DEF Apart
    <3>6. \A i, j \in 1 .. Len(skipped') : skipped'[i] = skipped'[j] => i = j
      <4> SUFFICES ASSUME NEW i \in 1 .. Len(skipped'), NEW j \in 1 .. Len(skipped'),
                          skipped'[i] = skipped'[j]
                   PROVE  i = j
        OBVIOUS
      <4>1. \A k \in 1 .. Len(skipped) : skipped'[k] # seen + 1
        BY <1>3, <2>1, <3>2 DEF Apart
      <4>2. CASE i \in 1 .. Len(skipped) /\ j \in 1 .. Len(skipped)
        BY <1>3, <2>1, <4>2 DEF Apart
      <4>3. CASE i = Len(skipped) + 1 \/ j = Len(skipped) + 1
        BY <2>1, <3>1, <4>1, <4>3
      <4> QED BY <3>1, <4>2, <4>3
    <3>7. \A r \in records : r.content.entry \in 1 .. Done'
      BY <3>2, <3>3
    <3> QED BY <1>1, <3>5, <3>6, <3>7 DEF Apart
  <2> QED BY <1>1, <2>2, <2>3, <2>4 DEF Indices
<1> QED BY <1>1, <1>5, <1>6

(* An entry that becomes a file is counted once.                           *)
LEMMA RecordedStep ==
    ASSUME TypeOK, WithinLimits, Reading, Own, Indices, EndOfEntry \/ CutShort
    PROVE  Indices'
<1>1. PICK f : /\ records' = records \cup {f} /\ f.content.entry = seen
  <2>1. \A p, b : Finished(p, b).content = Piece(written)
    BY DEF Finished
  <2>2. Piece(written).entry = seen
    BY FinishStep
  <2>3. \/ records' = records \cup {Finished(Current.name, TRUE)}
        \/ records' = records \cup {Finished(PartialOf[Current.name], FALSE)}
    BY FinishStep
  <2> QED BY <2>1, <2>2, <2>3
<1>2. /\ pc \in {"read", "cut"} /\ pc' \in {"next", "manifest"}
      /\ UNCHANGED <<seen, skipped, directories, truncated, archive>>
      /\ pc' = "manifest" => truncated
  BY DEF EndOfEntry, CutShort, Goto, WithinLimits, input
<1>3. seen \in Nat /\ Done = seen - 1 /\ Done' = seen /\ seen \in 1 .. Count /\ Count \in Nat
  <2>1. seen \in 1 .. Count
    BY FinishStep
  <2>2. seen \in Nat /\ Count \in Nat
    BY DEF TypeOK, Count
  <2>3. Done = seen - 1 /\ Done' = seen
    BY <1>2 DEF Done
  <2> QED BY <2>1, <2>2, <2>3
<1>4. seen \in 1 .. Done' /\ seen \notin 1 .. Done /\ 1 .. Done \subseteq 1 .. Done'
      /\ \A e \in 1 .. Done' : e \in 1 .. Done \/ e = seen
  BY <1>3
<1>5. Counted /\ Named /\ Apart
  BY <1>2 DEF Indices
<1>6. FilesIn(records') = FilesIn(records) \cup {seen}
  BY <1>1 DEF FilesIn
<1>7. f \notin records
  BY <1>1, <1>4, <1>5 DEF Apart
<1>8. Counted'
  <2>1. /\ IsFiniteSet(records') /\ Cardinality(records') = Cardinality(records) + 1
        /\ Cardinality(records) \in Nat
    BY <1>1, <1>5, <1>7, FS_AddElement, FS_CardinalityType DEF Counted
  <2>2. Len(skipped) \in Nat /\ directories \in Nat
    BY DEF TypeOK
  <2> QED BY <1>2, <1>3, <1>5, <2>1, <2>2 DEF Counted
<1>9. Named'
  BY <1>2, <1>4, <1>5, <1>6 DEF Named, IsSkipped
<1>10. Apart'
  <2>1. \A r \in records' : r.content.entry \in 1 .. Done'
    BY <1>1, <1>4, <1>5 DEF Apart
  <2>2. \A i \in 1 .. Len(skipped) :
           skipped[i] \in 1 .. Done' /\ skipped[i] \notin FilesIn(records')
    BY <1>4, <1>5, <1>6 DEF Apart
  <2> QED BY <1>2, <1>5, <2>1, <2>2 DEF Apart
<1> QED BY <1>2, <1>8, <1>9, <1>10 DEF Indices

LEMMA IndicesStep ==
    ASSUME TypeOK, WithinLimits, Reading, Own, Indices, [Next]_vars
    PROVE  Indices'
<1>0. seen \in Nat /\ seen <= Count /\ Count \in Nat
  BY DEF TypeOK, Count
<1>1. CASE Start
  <2>1. /\ pc' = "next" /\ seen' = 0 /\ records' = {} /\ skipped' = <<>> /\ directories' = 0
    BY <1>1 DEF Start, Goto
  <2>2. Done' = 0 /\ 1 .. Done' = {} /\ Len(skipped') = 0 /\ 1 .. Len(skipped') = {}
    BY <2>1 DEF Done
  <2>3. Counted'
    BY <2>1, <2>2, FS_EmptySet DEF Counted
  <2>4. Named' /\ Apart'
    BY <2>1, <2>2 DEF Named, Apart
  <2> QED BY <2>1, <2>3, <2>4 DEF Indices
<1>2. CASE Refuse \/ MakeDirectory \/ NotCreated
  BY <1>2, PassedStep
<1>3. CASE OpenFile
  <2>1. /\ pc = "next" /\ pc' = "read" /\ seen' = seen + 1
        /\ UNCHANGED <<records, skipped, directories, archive>>
    BY <1>3 DEF OpenFile, FileComes, Admitted, EntryComes, Goto, outcome, input
  <2>2. Done' = Done
    BY <1>0, <2>1 DEF Done
  <2> QED BY <2>1, <2>2 DEF Indices, Counted, Named, Apart, IsSkipped
<1>4. CASE ReadBlock
  <2>1. /\ pc = "read" /\ pc' \in {"read", "cut"}
        /\ UNCHANGED <<records, skipped, directories, archive, seen>>
    BY <1>4 DEF ReadBlock, Goto, input
  <2>2. Done' = Done
    BY <2>1 DEF Done
  <2> QED BY <2>1, <2>2 DEF Indices, Counted, Named, Apart, IsSkipped
<1>5. CASE EndOfEntry \/ CutShort
  BY <1>5, RecordedStep
<1>6. CASE EndOfArchive \/ EntryLimit \/ ByteLimit
  <2>1. /\ pc = "next" /\ pc' = "manifest" /\ UNCHANGED <<archive, seen, records, skipped, directories>>
        /\ ~truncated' => seen = Count
    BY <1>6 DEF EndOfArchive, EntryLimit, ByteLimit, FileComes, Admitted, EntryComes, Goto, input,
                outcome
  <2>2. Done' = Done /\ Count' = Count
    BY <2>1 DEF Done, Count
  <2> QED BY <2>1, <2>2 DEF Indices, Counted, Named, Apart, IsSkipped
<1>7. CASE Malformed \/ Cancelled \/ Fails \/ WriteManifest
  BY <1>7 DEF Malformed, Cancelled, Fails, WriteManifest, End, Indices
<1>8. CASE SetToken \/ NotResolved \/ UNCHANGED vars
  <2>1. \/ pc' = "idle"
        \/ UNCHANGED <<pc, archive, seen, records, skipped, directories, truncated>>
    BY <1>8 DEF SetToken, NotResolved, End, vars, input, outcome
  <2> QED BY <2>1 DEF Indices, Counted, Named, Apart, IsSkipped, Done, Count
<1> QED BY <1>1, <1>2, <1>3, <1>4, <1>5, <1>6, <1>7, <1>8 DEF Next, TakeEntry, Write, Stop

LEMMA AccountedStep ==
    ASSUME TypeOK, Indices, Accounted, [Next]_vars
    PROVE  Accounted'
<1> DEFINE InFull(m) ==
             /\ Cardinality(m.records) + m.skips + m.directories = Len(m.source.entries)
             /\ m.skips <= MaxListed =>
                   \A e \in 1 .. Len(m.source.entries) :
                       e \in NamedIn(m) \/ m.source.entries[e].kind = "dir"
           Once(m) ==
             \A i \in DOMAIN m.listed :
                /\ m.listed[i] \notin FilesIn(m.records)
                /\ \A j \in DOMAIN m.listed : m.listed[i] = m.listed[j] => i = j
<1>1. \A m \in manifests : (~m.truncated => InFull(m)) /\ Once(m)
  BY DEF Accounted
<1>2. CASE pc # "manifest" \/ manifests' = manifests
  <2>1. manifests' = manifests
    BY <1>2, ManifestsGrow
  <2> QED BY <1>1, <2>1 DEF Accounted
<1>3. CASE pc = "manifest" /\ manifests' = manifests \cup {ThisManifest}
  <2> DEFINE t == ThisManifest
  <2>1. /\ Counted /\ Named /\ Apart /\ Done = seen
        /\ ~truncated => seen = Count
    BY <1>3 DEF Indices, Done
  <2>2. /\ t.source = archive /\ t.records = records /\ t.listed = Listed /\ t.skips = Len(skipped)
        /\ t.directories = directories /\ t.truncated = truncated
    BY DEF ThisManifest
  <2>3. DOMAIN Listed = 1 .. Len(Listed) /\ \A i \in 1 .. Len(Listed) : i \in 1 .. Len(skipped)
    <3>1. Listed \in Seq(Nat) /\ Len(Listed) <= Len(skipped) /\ Len(skipped) \in Nat
      BY ListedPart
    <3>2. Len(Listed) \in Nat /\ DOMAIN Listed = 1 .. Len(Listed)
      BY <3>1, LenProperties
    <3> QED BY <3>1, <3>2
  <2>4. ~truncated => InFull(t)
    <3> SUFFICES ASSUME ~truncated PROVE InFull(t)
      OBVIOUS
    <3>1. Len(archive.entries) = Done
      BY <2>1 DEF Count
    <3>2. Cardinality(records) + Len(skipped) + directories = Len(archive.entries)
      BY <2>1, <3>1 DEF Counted
    <3>3. ASSUME Len(skipped) <= MaxListed, NEW e \in 1 .. Len(archive.entries)
          PROVE  e \in NamedIn(t) \/ archive.entries[e].kind = "dir"
      <4>1. Listed = skipped /\ DOMAIN Listed = 1 .. Len(skipped)
        BY <3>3, <2>3, ListedPart
      <4>2. IsSkipped(e) => e \in NamedIn(t)
        BY <2>2, <4>1 DEF IsSkipped, NamedIn
      <4>3. e \in FilesIn(records) => e \in NamedIn(t)
        BY <2>2 DEF NamedIn
      <4> QED BY <2>1, <3>1, <4>2, <4>3 DEF Named
    <3> HIDE DEF t
    <3> QED BY <2>2, <3>2, <3>3
  <2>5. Once(t)
    <3>1. \A i \in 1 .. Len(Listed) : Listed[i] = skipped[i]
      BY ListedPart
    <3> HIDE DEF t
    <3> QED BY <2>1, <2>2, <2>3, <3>1 DEF Apart
  <2> HIDE DEF InFull, Once
  <2>6. \A m \in manifests' : (~m.truncated => InFull(m)) /\ Once(m)
    BY <1>1, <1>3, <2>2, <2>4, <2>5
  <2> QED BY <2>6 DEF Accounted, InFull, Once
<1> QED BY <1>2, <1>3, ManifestsGrow

-----------------------------------------------------------------------------
LEMMA Initially == Init => Ind
<1> SUFFICES ASSUME Init PROVE Ind
  OBVIOUS
<1>1. TypeOK
  <2>1. archive \in [entries : Seq(Entries), broken : BOOLEAN] /\ Count = 0
    BY DEF Init, Count
  <2>2. \A b \in Nat : 0 \in 0 .. (0 + b)
    OBVIOUS
  <2>3. 0 \in 0 .. MaxRounds /\ 0 \in 0 .. (0 + Block) /\ 0 \in 0 .. 0
    BY <2>2, LimitAssumption
  <2>4. disk \in [Paths -> Content \cup {None, Dir}]
    BY DEF Init
  <2>5. /\ seen \in 0 .. maxEntries /\ total \in 0 .. (maxBytes + Block) /\ round \in 0 .. MaxRounds
        /\ seen <= Count
    BY <2>1, <2>3 DEF Init
  <2>6. /\ records \subseteq ArtifactRecord /\ skipped \in Seq(Nat) /\ directories \in Nat
        /\ manifests \subseteq Manifest
    BY DEF Init
  <2>7. /\ maxEntries \in Nat /\ maxBytes \in Nat /\ written \in Nat
        /\ truncated \in BOOLEAN /\ cancel \in BOOLEAN
        /\ pc \in {"idle", "next", "read", "cut", "manifest"}
        /\ result \in {"none", "ok", "cancelled", "failed"}
    BY DEF Init
  <2> QED BY <2>1, <2>4, <2>5, <2>6, <2>7 DEF TypeOK
<1>2. WithinLimits /\ Reading /\ Manifested /\ ShortAtTheBreak /\ WholeIfComplete /\ Indices /\ Accounted
  BY DEF Init, WithinLimits, Reading, Manifested, ShortAtTheBreak, WholeIfComplete, Indices, Accounted
<1>3. Own /\ Past
  BY DEF Init, Own, Past
<1> QED BY <1>1, <1>2, <1>3 DEF Ind

LEMMA Inductive == Ind /\ [Next]_vars => Ind'
BY TypeStep, LimitStep, ReadingStep, OwnStep, PastStep, ManifestedStep, ShortStep, WholeStep,
   IndicesStep, AccountedStep DEF Ind

LEMMA Invariant == Spec => []Ind
BY Initially, Inductive, PTL DEF Spec

(* Types, and the limits: max_entries, and max_total_bytes by less than a  *)
(* buffer more.                                                            *)
THEOREM LimitsRespected == Spec => []TypeOK
<1>1. Ind => TypeOK
  BY DEF Ind
<1> QED BY <1>1, Invariant, PTL

(* TESTING.md:112, for every archive, every limit and any number of        *)
(* extractions into one base: the files an extraction leaves on disk are   *)
(* those its manifest records, with the content it records.                *)
THEOREM EveryFileManifested == Spec => []Manifested
<1>1. Ind => Manifested
  BY DEF Ind
<1> QED BY <1>1, Invariant, PTL

(* A file the manifest calls complete is as long as its entry declared,    *)
(* whether or not the archive breaks off.                                  *)
THEOREM CompleteIsWhole == Spec => []WholeIfComplete
<1>1. Ind => WholeIfComplete
  BY DEF Ind
<1> QED BY <1>1, Invariant, PTL

(* archive.rs:95: an extraction that was not truncated has accounted for   *)
(* every entry, each of them once.                                         *)
THEOREM EveryEntryAccounted == Spec => []Accounted
<1>1. Ind => Accounted
  BY DEF Ind
<1> QED BY <1>1, Invariant, PTL

-----------------------------------------------------------------------------
(* How far the unreadable manifest reaches.  A path in a record is a name  *)
(* that passed validate_entry_path, or that name with .partial after it.   *)
Accepted == {p \in Paths : \E n \in Names \ Refused : p = n \/ p = PartialOf[n]}

OfAcceptedNames ==
    /\ pc \in {"read", "cut"} => Current.name \notin Refused
    /\ \A r \in records : r.path \in Accepted
    /\ \A m \in manifests : \A r \in m.records : r.path \in Accepted

LEMMA AcceptedInit == Init => OfAcceptedNames
BY DEF Init, OfAcceptedNames

LEMMA AcceptedStep == Ind /\ OfAcceptedNames /\ [Next]_vars => OfAcceptedNames'
<1> SUFFICES ASSUME Ind, OfAcceptedNames, [Next]_vars PROVE OfAcceptedNames'
  OBVIOUS
<1>1. TypeOK /\ (pc \in {"read", "cut"} => seen \in 1 .. Count)
  BY DEF Ind, Reading
(* The name of the file that is open was accepted when it was created.     *)
<1>2. pc' \in {"read", "cut"} => Current'.name \notin Refused
  <2>1. CASE OpenFile
    <3>1. Current' = Upcoming
      BY <2>1 DEF OpenFile, input, Current, Upcoming
    <3> QED BY <2>1, <3>1 DEF OpenFile, FileComes
  <2>2. CASE ReadBlock
    <3>1. Current' = Current /\ pc = "read"
      BY <2>2 DEF ReadBlock, input, Current
    <3> QED BY <3>1 DEF OfAcceptedNames
  <2>3. CASE SetToken \/ UNCHANGED vars
    <3>1. Current' = Current /\ pc' = pc
      BY <2>3 DEF SetToken, vars, input, Current
    <3> QED BY <3>1 DEF OfAcceptedNames
  <2>4. CASE NotResolved \/ Start \/ EndOfEntry \/ CutShort \/ Stop \/ WriteManifest
    BY <2>4 DEF NotResolved, Start, EndOfEntry, CutShort, Stop, EndOfArchive, Malformed, EntryLimit,
                ByteLimit, Cancelled, Fails, WriteManifest, Goto, End
  <2>5. CASE Refuse \/ MakeDirectory \/ NotCreated
    BY <2>5 DEF Refuse, MakeDirectory, NotCreated, FileComes, Admitted, EntryComes
  <2> QED BY <2>1, <2>2, <2>3, <2>4, <2>5 DEF Next, TakeEntry, Write
(* Records are added for the open file only.                               *)
<1>3. \A r \in records' : r.path \in Accepted
  <2>1. CASE EndOfEntry \/ CutShort
    <3>1. Current.name \in Names \ Refused /\ Current.name \in Accepted
          /\ PartialOf[Current.name] \in Accepted
      BY <1>1, <2>1, CurrentEntry DEF EndOfEntry, CutShort, OfAcceptedNames, Accepted
    <3>2. PICK p \in {Current.name, PartialOf[Current.name]}, c \in BOOLEAN : Record(p, c)
      BY <2>1 DEF EndOfEntry, CutShort
    <3>3. \A r \in records' : r \in records \/ r.path = p
      BY <3>2 DEF Record
    <3> QED BY <3>1, <3>2, <3>3 DEF OfAcceptedNames
  <2>2. CASE UNCHANGED records \/ records' = {}
    BY <2>2 DEF OfAcceptedNames
  <2> QED BY <2>1, <2>2 DEF Next, NotResolved, Start, TakeEntry, Refuse, MakeDirectory, NotCreated,
          OpenFile, Write, ReadBlock, Stop, EndOfArchive, Malformed, EntryLimit, ByteLimit, Cancelled,
          Fails, WriteManifest, SetToken, vars, outcome
(* A manifest is added with the records there are.                         *)
<1>4. \A m \in manifests' : \A r \in m.records : r.path \in Accepted
  <2>1. CASE WriteManifest
    <3>1. \A m \in manifests' : m \in manifests \/ m.records = records
      BY <2>1 DEF WriteManifest
    <3> QED BY <3>1 DEF OfAcceptedNames
  <2>2. CASE UNCHANGED manifests
    BY <2>2 DEF OfAcceptedNames
  <2> QED BY <2>1, <2>2 DEF Next, NotResolved, Start, TakeEntry, Refuse, MakeDirectory, NotCreated,
          OpenFile, Write, ReadBlock, EndOfEntry, CutShort, Stop, EndOfArchive, Malformed, EntryLimit,
          ByteLimit, Cancelled, Fails, SetToken, vars
<1> QED BY <1>2, <1>3, <1>4 DEF OfAcceptedNames

(* MANIFEST_SCHEMA.md:126 would hold of every manifest, and no extraction  *)
(* could make its case unreadable, if validate_entry_path let no name pass *)
(* that has two dots in a row, or that has them with .partial after it (as *)
(* a name that ends in a dot does): nothing but the names it accepts gets  *)
(* into a manifest, whatever the archive, the limits and the failures.     *)
THEOREM ReadableIfNamesHaveNoDots ==
    ASSUME Accepted \cap Dotted = {}
    PROVE  Spec => []PathsWithoutDots
<1>1. OfAcceptedNames => PathsWithoutDots
  BY DEF OfAcceptedNames, PathsWithoutDots, CaseReadable, Readable
<1>2. Spec => []OfAcceptedNames
  BY AcceptedInit, AcceptedStep, Invariant, PTL DEF Spec
<1> QED BY <1>1, <1>2, PTL
====
