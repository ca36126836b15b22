---------------------------- MODULE EvidenceStore ----------------------------
(***************************************************************************)
(* Several `acquire` commands working in one case directory.               *)
(*                                                                         *)
(* Each element of Ops is one execution of commands/acquire.rs::run, from  *)
(* the case check to its exit code, with the calls it makes on             *)
(* evidence/store.rs (create_artifact, write_chunk, finish_complete,       *)
(* finish_incomplete, adopt_artifact, write_manifest) and the whole of     *)
(* acquisition/adb.rs::stream_to_artifact.  One action is one system call  *)
(* (or a run of code no other process can observe), because the commands   *)
(* are separate processes that share nothing but the directory, take no    *)
(* lock on it, and can be killed, or lose power, between any two calls.    *)
(*                                                                         *)
(* What the device sends is abstracted to a number of chunks: chunk i of   *)
(* operation w is the same chunk wherever it is found, so a file is        *)
(* (who wrote it, how many chunks the kernel holds, whether they are on    *)
(* stable storage, whether the medium kept them intact), and two files     *)
(* have the same digest exactly when they have the same content.           *)
(***************************************************************************)
EXTENDS Naturals, FiniteSets

CONSTANTS
    Ops,            \* executions of `acquire` in this case directory
    Names,          \* final file names under original/
    ManifestNames,  \* file names under manifests/ (and, with it, under hashes/)
    Cases,          \* case identifiers
    NameOf,         \* [Ops -> Names]: artifact_name of the operation
    Adopts,         \* [Ops -> SUBSET Names]: names that start with its evidence id
    ManifestOf,     \* [Ops -> ManifestNames]: <evidence id>-<operation id>
    CaseOf,         \* [Ops -> Cases]
    PostVerify,     \* operations run without --no-post-verify
    Faults,         \* which faults happen: a subset of
                    \* {"interrupt", "crash", "power", "io"}
    Overlap,        \* TRUE: commands may run at the same time
    SizeOf,         \* [Ops -> Nat]: chunks its remote command writes before it
                    \* exits with 0, which is no proof that the source held no more
    MaxChunks,      \* bound: chunks any remote command writes
    None            \* no file, no manifest

ASSUME OpsAssumption ==
    /\ NameOf \in [Ops -> Names]
    /\ Adopts \in [Ops -> SUBSET Names]
    /\ \A w \in Ops : NameOf[w] \in Adopts[w]
    /\ ManifestOf \in [Ops -> ManifestNames]
    /\ CaseOf \in [Ops -> Cases]
    /\ PostVerify \subseteq Ops

ASSUME BoundAssumption ==
    /\ MaxChunks \in Nat
    /\ SizeOf \in [Ops -> 0 .. MaxChunks]
    /\ Overlap \in BOOLEAN

(* A file of original/: what AcquisitionOptions and the kernel leave of a  *)
(* transfer.  len may exceed what the writer hashed by one torn chunk.     *)
File == [by : Ops, len : Nat, synced : BOOLEAN, good : BOOLEAN]

ASSUME NoneAssumption == None \notin File /\ None \notin Ops

VARIABLES
    pc,         \* where the operation is in acquire::run
    hashed,     \* chunks its MultiHasher has seen (ArtifactWriter::hasher)
    verdict,    \* AcquisitionStatus of the stream, or a relay error
    fatal,      \* acquire.rs `fatal`: none, or the exit code of the backend's Err
    cancel,     \* its CancellationToken
    recorded,   \* adopt_residue: paths found in the manifests it loaded
    listed,     \* adopt_residue: files of its evidence id, as it listed them
    report,     \* artifact records its manifest will carry
    exit,       \* how the command ended
    final,      \* original/<name>
    partial,    \* original/<name>.partial
    manifests,  \* manifests/<m>.manifest.json
    hashLists   \* hashes/<m>.sha256

local == <<hashed, verdict, fatal, cancel, recorded, listed, report, exit>>
disk == <<final, partial, manifests, hashLists>>
vars == <<pc, local, disk>>

Verdicts == {"none", "completed", "completed_with_errors", "cancelled", "failed", "relay_error"}
CompleteVerdicts == {"completed", "completed_with_errors"}   \* AcquisitionStatus::is_complete

(* Exit codes as error.rs gives them: 130 is Error::Cancelled, 4 is Error:: *)
(* Acquisition, every other error has another code.  acquire::run makes an *)
(* Error::Acquisition only of a failed status; those of the backends       *)
(* ("preflight did not resolve", "already finalized") cannot occur.        *)
Failures == {"none", "interrupted", "error"}
Exits == Failures \cup {"ok", "failed"}
Phases == {"start", "create", "reserve", "stream", "flush", "recheck", "rename", "verify",
           "residue", "list", "adopt", "manifest", "hashlist", "done", "crashed"}
Ended == {"done", "crashed"}
Writing == {"stream", "flush", "recheck", "rename"}   \* an ArtifactWriter is alive

Running(w) == pc[w] \notin Ended \cup {"start"}

(* Paths under original/, and what reading one gives.                      *)
Paths == [kind : {"final", "partial"}, name : Names]
FinalPath(n) == [kind |-> "final", name |-> n]
PartialPath(n) == [kind |-> "partial", name |-> n]
At(p) == IF p.kind = "final" THEN final[p.name] ELSE partial[p.name]

(* A digest stands for the content: whose chunks, how many, intact or not. *)
Digest == [by : Ops, len : Nat, good : BOOLEAN]
DigestOf(f) == [by |-> f.by, len |-> f.len, good |-> f.good]
TransferDigest(w) == [by |-> w, len |-> hashed[w], good |-> TRUE]

(* ArtifactRecord, with a mark for where its digest comes from: the hasher *)
(* of the writer, or adopt_residue reading a file that was settled on the  *)
(* medium, or left unsynced, or still moving under its writer.             *)
Origins == {"writer", "settled", "unsynced", "moving"}
Records == [path : Paths, digest : Digest, complete : BOOLEAN, origin : Origins]
Manifest == [op : Ops, case : Cases, status : Verdicts, artifacts : SUBSET Records]
ASSUME NoManifestAssumption == None \notin Manifest

RecordedPaths == UNION {{r.path : r \in manifests[m].artifacts} :
                          m \in {x \in ManifestNames : manifests[x] # None}}

Init ==
    /\ pc = [w \in Ops |-> "start"]
    /\ hashed = [w \in Ops |-> 0]
    /\ verdict = [w \in Ops |-> "none"]
    /\ fatal = [w \in Ops |-> "none"]
    /\ cancel = [w \in Ops |-> FALSE]
    /\ recorded = [w \in Ops |-> {}]
    /\ listed = [w \in Ops |-> {}]
    /\ report = [w \in Ops |-> {}]
    /\ exit = [w \in Ops |-> "none"]
    /\ final = [n \in Names |-> None]
    /\ partial = [n \in Names |-> None]
    /\ manifests = [m \in ManifestNames |-> None]
    /\ hashLists = [m \in ManifestNames |-> None]

Goto(w, p) == pc' = [pc EXCEPT ![w] = p]

(* The process is gone, and with it everything it had in memory (hashed,   *)
(* verdict and fatal are kept: the properties speak of them afterwards).   *)
Gone(W) ==
    /\ cancel' = [w \in Ops |-> IF w \in W THEN FALSE ELSE cancel[w]]
    /\ recorded' = [w \in Ops |-> IF w \in W THEN {} ELSE recorded[w]]
    /\ listed' = [w \in Ops |-> IF w \in W THEN {} ELSE listed[w]]
    /\ report' = [w \in Ops |-> IF w \in W THEN {} ELSE report[w]]

(* backend.acquire returns Err: acquire::run goes on to adopt_residue.     *)
Fail(w, e) ==
    /\ Goto(w, "residue")
    /\ fatal' = [fatal EXCEPT ![w] = e]
    /\ report' = [report EXCEPT ![w] = {}]

(* acquire::run itself returns Err, with no manifest written after it.     *)
GiveUp(w, e) ==
    /\ Goto(w, "done")
    /\ exit' = [exit EXCEPT ![w] = e]
    /\ Gone({w})
    /\ UNCHANGED <<hashed, verdict, fatal>>

-----------------------------------------------------------------------------
(* Mutant: the check is left out.                                          *)
NoCaseCheck(w) == TRUE

(* ensure_case_consistency: every manifest must carry this case id.        *)
SameCase(w) == \A m \in ManifestNames : manifests[m] # None => manifests[m].case = CaseOf[w]

MayStart(w) == Overlap \/ \A v \in Ops : ~Running(v)

Start(w) ==
    /\ pc[w] = "start" /\ MayStart(w) /\ SameCase(w)
    /\ Goto(w, "create")
    /\ UNCHANGED <<local, disk>>

(* Another case, or an error before anything is written: a manifest that   *)
(* does not load, preflight, not enough space.                             *)
StartRefused(w) ==
    /\ pc[w] = "start" /\ MayStart(w) /\ (~SameCase(w) \/ "io" \in Faults)
    /\ GiveUp(w, "error")
    /\ UNCHANGED disk

(* create_artifact, first half: refuse when the final name is taken.       *)
CheckFinal(w) ==
    /\ pc[w] = "create" /\ final[NameOf[w]] = None
    /\ Goto(w, "reserve")
    /\ UNCHANGED <<local, disk>>

FinalTaken(w) ==
    /\ pc[w] = "create" /\ final[NameOf[w]] # None
    /\ Fail(w, "error")
    /\ UNCHANGED <<hashed, verdict, cancel, recorded, listed, exit, disk>>

(* Mutant: create and truncate instead of create_new.                      *)
ReserveTruncating(w) ==
    /\ pc[w] = "reserve"
    /\ partial' = [partial EXCEPT ![NameOf[w]] =
                     [by |-> w, len |-> 0, synced |-> FALSE, good |-> TRUE]]
    /\ Goto(w, "stream")
    /\ UNCHANGED <<local, final, manifests, hashLists>>

(* create_artifact, second half: create_new on the .partial sibling.       *)
Reserve(w) ==
    /\ pc[w] = "reserve" /\ partial[NameOf[w]] = None
    /\ partial' = [partial EXCEPT ![NameOf[w]] =
                     [by |-> w, len |-> 0, synced |-> FALSE, good |-> TRUE]]
    /\ Goto(w, "stream")
    /\ UNCHANGED <<local, final, manifests, hashLists>>

PartialTaken(w) ==
    /\ pc[w] = "reserve" /\ (partial[NameOf[w]] # None \/ "io" \in Faults)
    /\ Fail(w, "error")
    /\ UNCHANGED <<hashed, verdict, cancel, recorded, listed, exit, disk>>

-----------------------------------------------------------------------------
Held(w) == partial[NameOf[w]]   \* the file behind w's ArtifactWriter

(* write_chunk: write_all, then hasher.update.  The BufWriter passes any   *)
(* part of what it holds on to the kernel.                                 *)
WriteChunk(w) ==
    /\ pc[w] = "stream" /\ hashed[w] < SizeOf[w]
    /\ \E n \in Held(w).len .. hashed[w] + 1 :
         partial' = [partial EXCEPT ![NameOf[w]] = [Held(w) EXCEPT !.len = n]]
    /\ hashed' = [hashed EXCEPT ![w] = @ + 1]
    /\ UNCHANGED <<pc, verdict, fatal, cancel, recorded, listed, report, exit,
                   final, manifests, hashLists>>

(* write_chunk fails: part of the chunk may be in the file, and the hasher *)
(* has not seen it.                                                        *)
WriteFails(w) ==
    /\ pc[w] = "stream" /\ hashed[w] < SizeOf[w] /\ "io" \in Faults
    /\ \E n \in Held(w).len .. hashed[w] + 1 :
         partial' = [partial EXCEPT ![NameOf[w]] = [Held(w) EXCEPT !.len = n]]
    /\ verdict' = [verdict EXCEPT ![w] = "relay_error"]
    /\ Goto(w, "flush")
    /\ UNCHANGED <<hashed, fatal, cancel, recorded, listed, report, exit,
                   final, manifests, hashLists>>

(* The stream ends: the relay loop saw the flag, or the child exited, or   *)
(* adb could not be started, read or waited for.  What each verdict says   *)
(* of the data is what Delivery promises: "completed" is said only of all  *)
(* that the remote command wrote.                                          *)
EndStream(w) ==
    /\ pc[w] = "stream"
    /\ \E v \in Verdicts \ {"none"} :
         /\ v = "relay_error" => "io" \in Faults
         /\ v = "completed" => hashed[w] = SizeOf[w]
         /\ v = "cancelled" => cancel[w]
         /\ v = "completed_with_errors" => hashed[w] > 0
         /\ verdict' = [verdict EXCEPT ![w] = v]
    /\ Goto(w, "flush")
    /\ UNCHANGED <<hashed, fatal, cancel, recorded, listed, report, exit, disk>>

(* Mutants: sync_all is left out; the BufWriter is dropped unflushed.      *)
FlushedNotSynced(w, g) ==
    [by |-> w, synced |-> FALSE, good |-> g,
     len |-> IF Held(w).len > hashed[w] THEN Held(w).len ELSE hashed[w]]
SyncedNotFlushed(w, g) == [by |-> w, synced |-> TRUE, good |-> g, len |-> Held(w).len]

(* flush_to_disk: the buffered rest reaches the file, then sync_all.  What *)
(* the medium then holds may differ from what was sent: that is what the   *)
(* re-read of post_write_verify is for.                                    *)
Flushed(w, g) ==
    [by |-> w, synced |-> TRUE, good |-> g,
     len |-> IF Held(w).len > hashed[w] THEN Held(w).len ELSE hashed[w]]

FlushComplete(w) ==
    /\ pc[w] = "flush" /\ verdict[w] \in CompleteVerdicts
    /\ \E g \in {TRUE} \cup (IF "io" \in Faults THEN {FALSE} ELSE {}) :
         partial' = [partial EXCEPT ![NameOf[w]] = Flushed(w, g)]
    /\ Goto(w, "recheck")
    /\ UNCHANGED <<local, final, manifests, hashLists>>

(* Mutant: a relay error is recorded like any failed transfer.             *)
FlushIncompleteAlways(w) ==
    /\ pc[w] = "flush" /\ verdict[w] \in {"cancelled", "failed", "relay_error"}
    /\ partial' = [partial EXCEPT ![NameOf[w]] = Flushed(w, TRUE)]
    /\ report' = [report EXCEPT ![w] =
                    {[path |-> PartialPath(NameOf[w]), digest |-> TransferDigest(w),
                      complete |-> FALSE, origin |-> "writer"]}]
    /\ Goto(w, "manifest")
    /\ UNCHANGED <<hashed, verdict, fatal, cancel, recorded, listed, exit,
                   final, manifests, hashLists>>

(* finish_incomplete: the data stays under its .partial name, with the     *)
(* digest of what was hashed.                                              *)
FlushIncomplete(w) ==
    /\ pc[w] = "flush" /\ verdict[w] \in {"cancelled", "failed"}
    /\ partial' = [partial EXCEPT ![NameOf[w]] = Flushed(w, TRUE)]
    /\ report' = [report EXCEPT ![w] =
                    {[path |-> PartialPath(NameOf[w]), digest |-> TransferDigest(w),
                      complete |-> FALSE, origin |-> "writer"]}]
    /\ Goto(w, "manifest")
    /\ UNCHANGED <<hashed, verdict, fatal, cancel, recorded, listed, exit,
                   final, manifests, hashLists>>

(* After a relay error the flushed file's record is dropped: the error is  *)
(* returned, and adopt_residue will hash the file again.                   *)
FlushAfterRelayError(w) ==
    /\ pc[w] = "flush" /\ verdict[w] = "relay_error"
    /\ partial' = [partial EXCEPT ![NameOf[w]] = Flushed(w, TRUE)]
    /\ Fail(w, "error")
    /\ UNCHANGED <<hashed, verdict, cancel, recorded, listed, exit,
                   final, manifests, hashLists>>

FlushFails(w) ==
    /\ pc[w] = "flush" /\ "io" \in Faults
    /\ \E n \in Held(w).len .. Flushed(w, TRUE).len :
         partial' = [partial EXCEPT ![NameOf[w]] = [Held(w) EXCEPT !.len = n]]
    /\ Fail(w, "error")
    /\ UNCHANGED <<hashed, verdict, cancel, recorded, listed, exit,
                   final, manifests, hashLists>>

(* Mutant: rename without the second look.                                 *)
RecheckSkipped(w) ==
    /\ pc[w] = "recheck"
    /\ Goto(w, "rename")
    /\ UNCHANGED <<local, disk>>

(* finish_complete: the second look at the final name, then the rename,    *)
(* which on its own would replace whatever holds that name.                *)
Recheck(w) ==
    /\ pc[w] = "recheck" /\ final[NameOf[w]] = None
    /\ Goto(w, "rename")
    /\ UNCHANGED <<local, disk>>

Appeared(w) ==
    /\ pc[w] = "recheck" /\ final[NameOf[w]] # None
    /\ Fail(w, "error")
    /\ UNCHANGED <<hashed, verdict, cancel, recorded, listed, exit, disk>>

Rename(w) ==
    /\ pc[w] = "rename"
    /\ final' = [final EXCEPT ![NameOf[w]] = Held(w)]
    /\ partial' = [partial EXCEPT ![NameOf[w]] = None]
    /\ report' = [report EXCEPT ![w] =
                    {[path |-> FinalPath(NameOf[w]), digest |-> TransferDigest(w),
                      complete |-> TRUE, origin |-> "writer"]}]
    /\ Goto(w, IF w \in PostVerify THEN "verify" ELSE "manifest")
    /\ UNCHANGED <<hashed, verdict, fatal, cancel, recorded, listed, exit, manifests, hashLists>>

RenameFails(w) ==
    /\ pc[w] = "rename" /\ "io" \in Faults
    /\ Fail(w, "error")
    /\ UNCHANGED <<hashed, verdict, cancel, recorded, listed, exit, disk>>

(* Mutant: only the size is compared.                                      *)
MatchesInSize(w) == final[NameOf[w]].len = hashed[w]

(* post_write_verify: hash_file asks the token before every block.         *)
Matches(w) == DigestOf(final[NameOf[w]]) = TransferDigest(w)

Verified(w) ==
    /\ pc[w] = "verify" /\ ~cancel[w] /\ Matches(w)
    /\ Goto(w, "manifest")
    /\ UNCHANGED <<local, disk>>

NotVerified(w) ==
    /\ pc[w] = "verify"
    /\ \/ cancel[w] /\ Fail(w, "interrupted")
       \/ (~Matches(w) \/ "io" \in Faults) /\ Fail(w, "error")
    /\ UNCHANGED <<hashed, verdict, cancel, recorded, listed, exit, disk>>

-----------------------------------------------------------------------------
(* adopt_residue: load every manifest, list original/, then hash each file *)
(* of this evidence id that no manifest names.                             *)
LoadRecorded(w) ==
    /\ pc[w] = "residue"
    /\ recorded' = [recorded EXCEPT ![w] = RecordedPaths]
    /\ Goto(w, "list")
    /\ UNCHANGED <<hashed, verdict, fatal, cancel, listed, report, exit, disk>>

Present == {p \in Paths : At(p) # None}
ClassFiles(w) == {p \in Present : p.name \in Adopts[w]}

(* Mutant: .partial files are passed over.                                 *)
ListPublishedOnly(w) ==
    /\ pc[w] = "list"
    /\ listed' = [listed EXCEPT ![w] = {p \in ClassFiles(w) : p.kind = "final"}]
    /\ Goto(w, "adopt")
    /\ UNCHANGED <<hashed, verdict, fatal, cancel, recorded, report, exit, disk>>

ListResidue(w) ==
    /\ pc[w] = "list"
    /\ listed' = [listed EXCEPT ![w] = ClassFiles(w)]
    /\ Goto(w, "adopt")
    /\ UNCHANGED <<hashed, verdict, fatal, cancel, recorded, report, exit, disk>>

ReportPaths(w) == {r.path : r \in report[w]}
Todo(w) == (listed[w] \ recorded[w]) \ ReportPaths(w)

(* What kind of file the hash is taken of, when the reading starts.        *)
OriginOf(f) ==
    IF pc[f.by] \in Writing THEN "moving" ELSE IF f.synced THEN "settled" ELSE "unsynced"

AdoptOne(w) ==
    /\ pc[w] = "adopt" /\ ~cancel[w]
    /\ \E p \in Todo(w) :
         /\ At(p) # None
         /\ report' = [report EXCEPT ![w] = @ \cup
                         {[path |-> p, digest |-> DigestOf(At(p)),
                           complete |-> p.kind = "final", origin |-> OriginOf(At(p))]}]
    /\ UNCHANGED <<pc, hashed, verdict, fatal, cancel, recorded, listed, exit, disk>>

(* Something could not be read, or the file is gone: `?` leaves            *)
(* acquire::run before build_manifest.                                     *)
AdoptFails(w) ==
    /\ \/ pc[w] \in {"residue", "list", "adopt"} /\ "io" \in Faults
       \/ pc[w] = "adopt" /\ \E p \in Todo(w) : At(p) = None
    /\ GiveUp(w, "error")
    /\ UNCHANGED disk

(* hash_file sees the token: the same `?`, with the exit code of Cancelled. *)
AdoptCancelled(w) ==
    /\ pc[w] = "adopt" /\ cancel[w]
    /\ \E p \in Todo(w) : At(p) # None
    /\ GiveUp(w, "interrupted")
    /\ UNCHANGED disk

Adopted(w) ==
    /\ pc[w] = "adopt" /\ Todo(w) = {}
    /\ Goto(w, "manifest")
    /\ UNCHANGED <<local, disk>>

-----------------------------------------------------------------------------
(* write_manifest.  write_to fills a temporary file of its own (its name   *)
(* holds the process id), syncs it, and renames it over the target: only   *)
(* the rename is visible.  The hash list is then created with create_new.  *)
(* Mutant: the status of the stream, whatever failed after it.             *)
StatusOfStream(w) == verdict[w]
StatusOf(w) == IF fatal[w] # "none" THEN "failed" ELSE verdict[w]

WriteManifest(w) ==
    /\ pc[w] = "manifest"
    /\ manifests' = [manifests EXCEPT ![ManifestOf[w]] =
                       [op |-> w, case |-> CaseOf[w], status |-> StatusOf(w),
                        artifacts |-> report[w]]]
    /\ Goto(w, "hashlist")
    /\ UNCHANGED <<local, final, partial, hashLists>>

WriteManifestFails(w) ==
    /\ pc[w] = "manifest" /\ "io" \in Faults
    /\ GiveUp(w, "error")
    /\ UNCHANGED disk

(* Mutant: the status for the exit.                                        *)
ExitByStatus(w) == IF verdict[w] \in CompleteVerdicts THEN "ok" ELSE verdict[w]
ExitOf(w) ==
    IF fatal[w] # "none" THEN fatal[w]
    ELSE IF verdict[w] \in CompleteVerdicts THEN "ok"
    ELSE IF verdict[w] = "cancelled" THEN "interrupted"
    ELSE "failed"

WriteHashList(w) ==
    /\ pc[w] = "hashlist" /\ hashLists[ManifestOf[w]] = None
    /\ hashLists' = [hashLists EXCEPT ![ManifestOf[w]] = w]
    /\ Goto(w, "done")
    /\ exit' = [exit EXCEPT ![w] = ExitOf(w)]
    /\ Gone({w})
    /\ UNCHANGED <<hashed, verdict, fatal, final, partial, manifests>>

(* create_new finds the name taken, or a write fails and leaves the list    *)
(* behind, empty or in part.                                               *)
WriteHashListFails(w) ==
    /\ pc[w] = "hashlist"
    /\ (hashLists[ManifestOf[w]] # None \/ "io" \in Faults)
    /\ hashLists' \in {hashLists, [hashLists EXCEPT ![ManifestOf[w]] = IF @ = None THEN w ELSE @]}
    /\ GiveUp(w, "error")
    /\ UNCHANGED <<final, partial, manifests>>

-----------------------------------------------------------------------------
(* The environment: Ctrl-C sets the token of a running command; a command  *)
(* is killed; the machine loses power.                                     *)
Interrupt(w) ==
    /\ "interrupt" \in Faults
    /\ Running(w) /\ ~cancel[w]
    /\ cancel' = [cancel EXCEPT ![w] = TRUE]
    /\ UNCHANGED <<pc, hashed, verdict, fatal, recorded, listed, report, exit, disk>>

Crash(w) ==
    /\ "crash" \in Faults
    /\ Running(w)
    /\ Goto(w, "crashed")
    /\ Gone({w})
    /\ UNCHANGED <<hashed, verdict, fatal, exit, disk>>

(* Data that was not synced may be lost, in any part.  Names are kept: a   *)
(* metadata journal makes directory updates durable in order.              *)
Cut(f, k) == IF f = None \/ f.synced \/ f.len < k THEN f ELSE [f EXCEPT !.len = k]
CutFiles(dir, k) == [n \in Names |-> Cut(dir[n], k)]

PowerLoss ==
    /\ "power" \in Faults
    /\ \E w \in Ops : Running(w)
    /\ pc' = [w \in Ops |-> IF Running(w) THEN "crashed" ELSE pc[w]]
    /\ Gone(Ops)
    /\ \E k \in 0 .. MaxChunks :
         /\ final' = CutFiles(final, k)
         /\ partial' = CutFiles(partial, k)
    /\ UNCHANGED <<hashed, verdict, fatal, exit, manifests, hashLists>>

Open(w) == Start(w) \/ StartRefused(w) \/ CheckFinal(w) \/ FinalTaken(w)
           \/ Reserve(w) \/ PartialTaken(w)
Transfer(w) == WriteChunk(w) \/ WriteFails(w) \/ EndStream(w)
Finish(w) == FlushComplete(w) \/ FlushIncomplete(w) \/ FlushAfterRelayError(w) \/ FlushFails(w)
             \/ Recheck(w) \/ Appeared(w) \/ Rename(w) \/ RenameFails(w)
             \/ Verified(w) \/ NotVerified(w)
AdoptResidue(w) == LoadRecorded(w) \/ ListResidue(w) \/ AdoptOne(w) \/ AdoptFails(w)
                   \/ AdoptCancelled(w) \/ Adopted(w)
Document(w) == WriteManifest(w) \/ WriteManifestFails(w) \/ WriteHashList(w)
               \/ WriteHashListFails(w)
Environment(w) == Interrupt(w) \/ Crash(w)

Next ==
    \/ \E w \in Ops : Open(w) \/ Transfer(w) \/ Finish(w) \/ AdoptResidue(w)
                      \/ Document(w) \/ Environment(w)
    \/ PowerLoss

Spec == Init /\ [][Next]_vars

-----------------------------------------------------------------------------
(* Correctness.                                                            *)

(* Every variable keeps its type.                                          *)
TypeOK ==
    /\ pc \in [Ops -> Phases]
    /\ hashed \in [Ops -> Nat]
    /\ verdict \in [Ops -> Verdicts]
    /\ fatal \in [Ops -> Failures]
    /\ cancel \in [Ops -> BOOLEAN]
    /\ recorded \in [Ops -> SUBSET Paths]
    /\ listed \in [Ops -> SUBSET Paths]
    /\ report \in [Ops -> SUBSET Records]
    /\ exit \in [Ops -> Exits]
    /\ final \in [Names -> File \cup {None}]
    /\ partial \in [Names -> File \cup {None}]
    /\ manifests \in [ManifestNames -> Manifest \cup {None}]
    /\ hashLists \in [ManifestNames -> Ops \cup {None}]

(* README: files under original/ are never modified, overwritten or        *)
(* deleted.  The existence check in create_artifact does not give this by  *)
(* itself (another command may publish between it and the rename), nor     *)
(* does the check in finish_complete (it is a check and then a rename):    *)
(* what closes both races is that the .partial file was made with          *)
(* create_new and is held until the rename.                                *)
NoClobber == [][\A n \in Names : final[n] # None => final'[n] = final[n]]_vars

(* store.rs: nothing in this module deletes an artifact.  A .partial file  *)
(* keeps its owner, and it disappears only by taking its final name with   *)
(* all of its content.  It never shrinks while the machine stays up: only  *)
(* the power loss that ends every running command takes from it, and only  *)
(* from a file nobody had synced.                                          *)
MachineDown == "power" \in Faults /\ \A w \in Ops : Running(w) => pc'[w] = "crashed"

NothingDeleted ==
    [][\A n \in Names : partial[n] # None =>
         \/ partial'[n] = None /\ final'[n] = partial[n]
         \/ /\ partial'[n] # None /\ partial'[n].by = partial[n].by
            /\ partial'[n].len < partial[n].len => ~partial[n].synced /\ MachineDown]_vars

(* A file under its final name is exactly what its writer hashed, of a     *)
(* stream that ended as complete, and nothing takes from it afterwards,    *)
(* not even a power loss; if the verdict was "completed" it is all that    *)
(* the remote command wrote, and if there were errors it is not empty.     *)
FinalIsWhole ==
    \A n \in Names : final[n] # None =>
        LET w == final[n].by IN
        /\ NameOf[w] = n
        /\ verdict[w] \in CompleteVerdicts
        /\ final[n].len = hashed[w]
        /\ verdict[w] = "completed" => final[n].len = SizeOf[w]
        /\ verdict[w] = "completed_with_errors" => final[n].len > 0

Existing == {m \in ManifestNames : manifests[m] # None}
TrueOfDisk(r) == At(r.path) # None /\ DigestOf(At(r.path)) = r.digest

(* A record that came from the writer, not from adoption, describes the    *)
(* file that is on disk under that path, whatever ran at the same time and *)
(* wherever it was killed; what the medium corrupted is excepted only for  *)
(* an operation that was told not to re-read.                              *)
WriterRecordsTrue ==
    \A m \in Existing : \A r \in manifests[m].artifacts :
        r.origin = "writer" =>
            /\ At(r.path) # None
            /\ At(r.path).by = r.digest.by /\ At(r.path).len = r.digest.len
            /\ r.complete /\ manifests[m].op \in PostVerify => TrueOfDisk(r)

(* The exit code agrees with the manifest and with the disk.  0 comes only *)
(* with a published file, re-read when asked, and a manifest that records  *)
(* it as complete; 4 only with the .partial file recorded as incomplete    *)
(* and the status "failed".  130 has two meanings.  If the transfer itself *)
(* was interrupted it is like 4, with the status "cancelled".  If the      *)
(* signal came later, in the re-read or while the residue was hashed,      *)
(* there may be no manifest and the file may be published, but no manifest *)
(* of the command calls it complete.  Whatever the code, what was written  *)
(* is still there ("any data already written has been preserved",          *)
(* main.rs:65).                                                            *)
Recorded(w, p, c) ==
    /\ manifests[ManifestOf[w]] # None
    /\ manifests[ManifestOf[w]].op = w
    /\ [path |-> p, digest |-> TransferDigest(w), complete |-> c, origin |-> "writer"]
         \in manifests[ManifestOf[w]].artifacts

ManifestWith(w, status) ==
    /\ manifests[ManifestOf[w]] # None
    /\ manifests[ManifestOf[w]].op = w
    /\ manifests[ManifestOf[w]].status \in status

HeldAs(dir, w) == dir[NameOf[w]] # None /\ dir[NameOf[w]].by = w

ExitMatchesEvidence ==
    \A w \in Ops :
        /\ exit[w] = "ok" =>
             /\ Recorded(w, FinalPath(NameOf[w]), TRUE)
             /\ ManifestWith(w, CompleteVerdicts)
             /\ HeldAs(final, w)
             /\ w \in PostVerify => DigestOf(final[NameOf[w]]) = TransferDigest(w)
        /\ exit[w] = "failed" \/ (exit[w] = "interrupted" /\ fatal[w] = "none") =>
             /\ Recorded(w, PartialPath(NameOf[w]), FALSE)
             /\ ManifestWith(w, {IF exit[w] = "failed" THEN "failed" ELSE "cancelled"})
             /\ HeldAs(partial, w)
        /\ exit[w] = "interrupted" /\ fatal[w] # "none" => ~ManifestWith(w, CompleteVerdicts)
        /\ exit[w] # "none" /\ verdict[w] # "none" => HeldAs(partial, w) \/ HeldAs(final, w)

(* What every record of every manifest is worth, the adopted ones too,     *)
(* whatever overlaps, fails or is killed.  A published file is recorded as *)
(* it is, by whoever records it.  Of a .partial file the record is true    *)
(* for good if the file was settled when it was hashed; if nobody had      *)
(* synced it, a power loss may have cut it since; and if it was another    *)
(* command's transfer in progress, the digest may fit nothing, but the     *)
(* file is still there, under this name or the final one.  A record made   *)
(* after a torn write is true only because the writer's digest is thrown   *)
(* away and the file is hashed again.                                      *)
AllRecordsTrue ==
    \A m \in Existing : \A r \in manifests[m].artifacts :
        LET f == At(r.path) IN
        /\ r.path.kind = "final" => r.origin \in {"writer", "settled"}
        /\ r.origin = "writer" => f # None /\ f.by = r.digest.by /\ f.len = r.digest.len
        /\ r.origin = "settled" => TrueOfDisk(r)
        /\ r.origin = "unsynced" =>
             /\ f # None /\ f.by = r.digest.by /\ f.len <= r.digest.len
             /\ "power" \notin Faults => TrueOfDisk(r)
        /\ r.origin = "moving" =>
             \E p \in {r.path, FinalPath(r.path.name)} : At(p) # None /\ At(p).by = r.digest.by

(* When a failed command writes its manifest, no file of its evidence id   *)
(* that it found in the directory is left without a record, not even what  *)
(* an earlier command, or a crash, left behind; and if no other command    *)
(* ran meanwhile, none that is there.                                      *)
ResidueSwept ==
    [][\A w \in Ops :
         pc[w] = "manifest" /\ pc'[w] = "hashlist" /\ fatal[w] # "none" =>
            /\ listed[w] \subseteq RecordedPaths'
            /\ ~Overlap => ClassFiles(w) \subseteq RecordedPaths']_vars

(* A directory belongs to one case: no two manifests name different ones.  *)
OneCase == \A m1, m2 \in Existing : manifests[m1].case = manifests[m2].case

(* The ledger of Custody, read off the directory: what a manifest says of  *)
(* its acquisition, and whose work it says the published files are.        *)
Sealed == [n \in Names |-> IF final[n] = None THEN None ELSE final[n].by]
PublishedRecords(m) == {r \in manifests[m].artifacts : r.path.kind = "final"}
EntryOf(m) ==
    [status |-> IF manifests[m].status \in CompleteVerdicts THEN "complete" ELSE "incomplete",
     files |-> {<<r.path.name, r.digest.by>> : r \in PublishedRecords(m)}]
Ledger ==
    [w \in Ops |->
       IF manifests[ManifestOf[w]] = None \/ manifests[ManifestOf[w]].op # w
         THEN None ELSE EntryOf(ManifestOf[w])]

C == INSTANCE Custody WITH sealed <- Sealed, ledger <- Ledger

(* The commands implement the abstract custody record, provided that no    *)
(* two operations share a manifest name.                                   *)
RefinesCustody == C!Spec
DistinctManifests == \A v, w \in Ops : ManifestOf[v] = ManifestOf[w] => v = w

(* acquire.rs:14: the manifest is written "on every path, including        *)
(* failure".                                                               *)
ManifestOnEveryPath ==
    \A w \in Ops : pc[w] = "done" /\ (fatal[w] # "none" \/ verdict[w] # "none") =>
        manifests[ManifestOf[w]] # None
====
