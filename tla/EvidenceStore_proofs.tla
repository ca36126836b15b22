------------------------- MODULE EvidenceStore_proofs -------------------------
(***************************************************************************)
(* Proofs about EvidenceStore, for any number of commands, names, chunks   *)
(* and faults.                                                             *)
(*                                                                         *)
(* Inv is the inductive invariant.  Its heart is Owned: from the moment    *)
(* create_new succeeds until the rename, the .partial file under w's name  *)
(* is w's, so two commands can never both be past their reservation of one *)
(* name.  This is why the second existence check of finish_complete cannot *)
(* go stale (NameFree), and with it why no published file is ever          *)
(* replaced.                                                               *)
(*                                                                         *)
(* RecordsInv adds what commands have recorded, and with it the manifests  *)
(* and the exit codes.  Then come commands that run one after the other,   *)
(* of which more can be said; then which commands end without a manifest,  *)
(* and that every command ends.                                            *)
(***************************************************************************)
EXTENDS EvidenceStore, TLAPS

Before == {"start", "create", "reserve"}

Owned == \A w \in Ops : pc[w] \in Writing => Held(w) \in File /\ Held(w).by = w
NameFree == \A w \in Ops : pc[w] = "rename" => final[NameOf[w]] = None
Measured ==
    \A w \in Ops :
        pc[w] = "stream" \/ (pc[w] = "flush" /\ verdict[w] # "relay_error")
            => Held(w).len <= hashed[w]
ReadyToPublish ==
    \A w \in Ops : pc[w] \in {"recheck", "rename"} =>
        /\ verdict[w] \in CompleteVerdicts
        /\ Held(w).len = hashed[w]
        /\ Held(w).synced
Published ==
    \A n \in Names : final[n] # None =>
        /\ NameOf[final[n].by] = n
        /\ pc[final[n].by] \notin Before \cup Writing
        /\ verdict[final[n].by] \in CompleteVerdicts
        /\ final[n].len = hashed[final[n].by]
        /\ final[n].synced
WholeSource ==
    \A w \in Ops :
        /\ verdict[w] = "completed" => hashed[w] = SizeOf[w]
        /\ verdict[w] = "completed_with_errors" => hashed[w] > 0
        /\ pc[w] \in Before \cup {"stream"} => verdict[w] = "none"

Inv == TypeOK /\ Owned /\ NameFree /\ Measured /\ ReadyToPublish /\ Published

LEMMA DigestType == \A f \in File : DigestOf(f) \in Digest
BY DEF File, Digest, DigestOf

LEMMA RecordedType == TypeOK => RecordedPaths \subseteq Paths
BY DEF TypeOK, RecordedPaths, Manifest, Records

(* The record adoption makes of a file.                                    *)
AdoptRecord(p) == [path |-> p, digest |-> DigestOf(At(p)), complete |-> p.kind = "final",
                   origin |-> OriginOf(At(p))]

LEMMA FileAt ==
    ASSUME TypeOK, NEW p \in Paths, At(p) # None PROVE At(p) \in File /\ At(p).by \in Ops
BY DEF TypeOK, Paths, At, File

LEMMA AdoptsOne ==
    ASSUME TypeOK, NEW w \in Ops, AdoptOne(w)
    PROVE  \E p \in Todo(w) : /\ p \in Paths /\ At(p) # None
                              /\ AdoptRecord(p) \in Records /\ AdoptRecord(p).origin # "writer"
                              /\ report' = [report EXCEPT ![w] = @ \cup {AdoptRecord(p)}]
                              /\ report'[w] = report[w] \cup {AdoptRecord(p)}
<1>1. PICK p \in Todo(w) :
        At(p) # None /\ report' = [report EXCEPT ![w] = @ \cup {AdoptRecord(p)}]
  BY DEF AdoptOne, AdoptRecord
<1>2. p \in Paths BY DEF Todo, TypeOK
<1>3. At(p) \in File BY <1>1, <1>2, FileAt
<1>4. OriginOf(At(p)) \in Origins BY DEF OriginOf, Origins
<1>5. AdoptRecord(p) \in Records BY <1>2, <1>3, <1>4, DigestType DEF AdoptRecord, Records
<1>6. report'[w] = report[w] \cup {AdoptRecord(p)} BY <1>1 DEF TypeOK
<1>7. AdoptRecord(p).origin # "writer" BY DEF AdoptRecord, OriginOf
<1>8. QED BY <1>1, <1>2, <1>5, <1>6, <1>7

LEMMA InitType == Init => TypeOK
BY DEF Init, TypeOK, Phases, Verdicts, Failures, Exits

(* The steps up to and including the stream.                               *)
LEMMA OpenType == ASSUME TypeOK, NEW w \in Ops, Open(w) PROVE TypeOK'
<1> USE OpsAssumption DEF Phases, Failures
<1>1. CASE Start(w) BY <1>1 DEF Start, Goto, TypeOK, local, disk
<1>2. CASE StartRefused(w) BY <1>2 DEF StartRefused, GiveUp, Gone, Goto, TypeOK, disk, Exits
<1>3. CASE CheckFinal(w) BY <1>3 DEF CheckFinal, Goto, TypeOK, local, disk
<1>4. CASE FinalTaken(w) BY <1>4 DEF FinalTaken, Fail, Goto, TypeOK, disk
<1>5. CASE Reserve(w) BY <1>5 DEF Reserve, Goto, TypeOK, local, File
<1>6. CASE PartialTaken(w) BY <1>6 DEF PartialTaken, Fail, Goto, TypeOK, disk
<1>7. QED BY <1>1, <1>2, <1>3, <1>4, <1>5, <1>6 DEF Open

LEMMA TransferType == ASSUME TypeOK, Owned, NEW w \in Ops, Transfer(w) PROVE TypeOK'
<1> USE OpsAssumption, BoundAssumption, NoneAssumption DEF Phases
<1>a. pc[w] = "stream" =>
        \A n \in Held(w).len .. hashed[w] + 1 : [Held(w) EXCEPT !.len = n] \in File
  BY DEF Owned, Writing, File, TypeOK
<1>1. CASE WriteChunk(w) BY <1>a, <1>1 DEF WriteChunk, TypeOK
<1>2. CASE WriteFails(w) BY <1>a, <1>2 DEF WriteFails, Goto, TypeOK, Verdicts
<1>3. CASE EndStream(w) BY <1>3 DEF EndStream, Goto, TypeOK, disk, Verdicts
<1>4. QED BY <1>1, <1>2, <1>3 DEF Transfer

(* From flush_to_disk to the verified artifact.                            *)
LEMMA FinishType == ASSUME TypeOK, Owned, NEW w \in Ops, Finish(w) PROVE TypeOK'
<1> USE OpsAssumption DEF Phases, Failures, Writing
<1>1. pc[w] = "flush" => \A g \in BOOLEAN : Flushed(w, g) \in File
  BY DEF Flushed, Owned, TypeOK, File
<1>2. TransferDigest(w) \in Digest BY DEF TransferDigest, Digest, TypeOK
<1>3. CASE FlushComplete(w)
  <2>1. PICK g \in BOOLEAN : partial' = [partial EXCEPT ![NameOf[w]] = Flushed(w, g)]
    BY <1>3 DEF FlushComplete
  <2>2. Flushed(w, g) \in File BY <1>1, <1>3 DEF FlushComplete
  <2>3. QED BY <2>1, <2>2, <1>3 DEF FlushComplete, Goto, TypeOK, local
<1>4. CASE FlushIncomplete(w)
  <2>1. {[path |-> PartialPath(NameOf[w]), digest |-> TransferDigest(w),
          complete |-> FALSE, origin |-> "writer"]} \in SUBSET Records
    BY <1>2 DEF Records, Origins, Paths, PartialPath
  <2>2. Flushed(w, TRUE) \in File BY <1>1, <1>4 DEF FlushIncomplete
  <2>3. QED BY <2>1, <2>2, <1>4 DEF FlushIncomplete, Goto, TypeOK
<1>5. CASE FlushAfterRelayError(w)
  BY <1>1, <1>5 DEF FlushAfterRelayError, Fail, Goto, TypeOK
<1>6. CASE FlushFails(w)
  <2>1. \A n \in Held(w).len .. Flushed(w, TRUE).len : [Held(w) EXCEPT !.len = n] \in File
    BY <1>1, <1>6 DEF FlushFails, Owned, File
  <2>2. QED BY <1>6, <2>1 DEF FlushFails, Fail, Goto, TypeOK
<1>7. CASE Recheck(w) BY <1>7 DEF Recheck, Goto, TypeOK, local, disk
<1>8. CASE Appeared(w) BY <1>8 DEF Appeared, Fail, Goto, TypeOK, disk
<1>9. CASE Rename(w)
  <2>1. {[path |-> FinalPath(NameOf[w]), digest |-> TransferDigest(w),
          complete |-> TRUE, origin |-> "writer"]} \in SUBSET Records
    BY <1>2 DEF Records, Origins, Paths, FinalPath
  <2>2. Held(w) \in File BY <1>9 DEF Rename, Owned
  <2>3. QED BY <2>1, <2>2, <1>9 DEF Rename, Goto, TypeOK
<1>10. CASE RenameFails(w) BY <1>10 DEF RenameFails, Fail, Goto, TypeOK, disk
<1>11. CASE Verified(w) BY <1>11 DEF Verified, Goto, TypeOK, local, disk
<1>12. CASE NotVerified(w) BY <1>12 DEF NotVerified, Fail, Goto, TypeOK, disk
<1>13. QED
  BY <1>3, <1>4, <1>5, <1>6, <1>7, <1>8, <1>9, <1>10, <1>11, <1>12 DEF Finish

LEMMA AdoptType == ASSUME TypeOK, NEW w \in Ops, AdoptResidue(w) PROVE TypeOK'
<1> USE OpsAssumption DEF Phases, Failures
<1>1. CASE LoadRecorded(w) BY <1>1, RecordedType DEF LoadRecorded, Goto, TypeOK, disk
<1>2. CASE ListResidue(w)
  BY <1>2 DEF ListResidue, ClassFiles, Present, Goto, TypeOK, disk
<1>3. CASE AdoptOne(w)
  <2>1. PICK p \in Todo(w) :
          /\ AdoptRecord(p) \in Records
          /\ report' = [report EXCEPT ![w] = @ \cup {AdoptRecord(p)}]
    BY <1>3, AdoptsOne
  <2>2. QED BY <1>3, <2>1 DEF AdoptOne, TypeOK, disk
<1>4. CASE AdoptFails(w) BY <1>4 DEF AdoptFails, GiveUp, Gone, Goto, TypeOK, disk, Exits
<1>5. CASE AdoptCancelled(w)
  BY <1>5 DEF AdoptCancelled, GiveUp, Gone, Goto, TypeOK, disk, Exits
<1>6. CASE Adopted(w) BY <1>6 DEF Adopted, Goto, TypeOK, local, disk
<1>7. QED BY <1>1, <1>2, <1>3, <1>4, <1>5, <1>6 DEF AdoptResidue

LEMMA DocumentType == ASSUME TypeOK, NEW w \in Ops, Document(w) PROVE TypeOK'
<1> USE OpsAssumption DEF Phases, Failures
<1>1. CASE WriteManifest(w)
  <2>1. [op |-> w, case |-> CaseOf[w], status |-> StatusOf(w), artifacts |-> report[w]]
          \in Manifest
    BY DEF Manifest, StatusOf, TypeOK, Verdicts
  <2>2. QED BY <1>1, <2>1 DEF WriteManifest, Goto, TypeOK, local
<1>2. CASE WriteManifestFails(w)
  BY <1>2 DEF WriteManifestFails, GiveUp, Gone, Goto, TypeOK, disk, Exits
<1>3. CASE WriteHashList(w)
  BY <1>3 DEF WriteHashList, ExitOf, Gone, Goto, TypeOK, Exits
<1>4. CASE WriteHashListFails(w)
  BY <1>4 DEF WriteHashListFails, GiveUp, Gone, Goto, TypeOK, Exits
<1>5. QED BY <1>1, <1>2, <1>3, <1>4 DEF Document

LEMMA CutType ==
    ASSUME NEW f \in File \cup {None}, NEW k \in Nat PROVE Cut(f, k) \in File \cup {None}
BY NoneAssumption DEF Cut, File

LEMMA EnvironmentType ==
    ASSUME TypeOK, NEW w \in Ops, Environment(w) PROVE TypeOK'
<1> USE OpsAssumption DEF Phases
<1>1. CASE Interrupt(w) BY <1>1 DEF Interrupt, TypeOK, disk
<1>2. CASE Crash(w) BY <1>2 DEF Crash, Goto, Gone, TypeOK, disk
<1>3. QED BY <1>1, <1>2 DEF Environment

LEMMA PowerLossType == ASSUME TypeOK, PowerLoss PROVE TypeOK'
<1>1. PICK k \in 0 .. MaxChunks :
        final' = CutFiles(final, k) /\ partial' = CutFiles(partial, k)
  BY DEF PowerLoss
<1>2. k \in Nat BY BoundAssumption
<1>3. final' \in [Names -> File \cup {None}] /\ partial' \in [Names -> File \cup {None}]
  BY <1>1, <1>2, CutType DEF CutFiles, TypeOK
<1>4. QED BY <1>3 DEF PowerLoss, Gone, TypeOK, Phases

LEMMA TypeStep == TypeOK /\ Owned /\ [Next]_vars => TypeOK'
<1> SUFFICES ASSUME TypeOK, Owned, [Next]_vars PROVE TypeOK'
  OBVIOUS
<1>1. CASE UNCHANGED vars BY <1>1 DEF vars, local, disk, TypeOK
<1>2. CASE PowerLoss BY <1>2, PowerLossType
<1>3. ASSUME NEW w \in Ops,
             Open(w) \/ Transfer(w) \/ Finish(w) \/ AdoptResidue(w) \/ Document(w)
               \/ Environment(w)
      PROVE  TypeOK'
  BY <1>3, OpenType, TransferType, FinishType, AdoptType, DocumentType, EnvironmentType
<1>4. QED BY <1>1, <1>2, <1>3 DEF Next

-----------------------------------------------------------------------------
(* The ownership argument.  Most steps leave files, counts and verdicts    *)
(* alone and move one command to a phase that claims no more than the one  *)
(* before it.                                                              *)
Claims == <<hashed, verdict, final, partial>>

LEMMA QuietStep ==
    ASSUME Inv, TypeOK', UNCHANGED Claims,
           \A v \in Ops : \/ pc'[v] = pc[v]
                          \/ pc'[v] \notin Before \cup Writing
                          \/ pc[v] \in Before /\ pc'[v] \in Before
    PROVE  Inv'
<1> USE OpsAssumption DEF Claims
<1>1. Owned' BY DEF Inv, Owned, Held, Writing, Before
<1>2. NameFree' BY DEF Inv, NameFree, Writing, Before
<1>3. Measured' BY DEF Inv, Measured, Held, Writing, Before
<1>4. ReadyToPublish' BY DEF Inv, ReadyToPublish, Held, Writing, Before
<1>5. Published'
  <2>1. \A n \in Names : final[n] # None => final[n].by \in Ops BY DEF Inv, TypeOK, File
  <2>2. QED BY <2>1 DEF Inv, Published, Before, Writing
<1>6. QED BY <1>1, <1>2, <1>3, <1>4, <1>5 DEF Inv

(* A step of w that leaves the verdicts of the others, and changes at most *)
(* the .partial file that w itself holds.                                  *)
LEMMA HolderStep ==
    ASSUME Inv, TypeOK', NEW w \in Ops, pc[w] \in Writing,
           UNCHANGED final,
           \A v \in Ops \ {w} : pc'[v] = pc[v] /\ hashed'[v] = hashed[v] /\ verdict'[v] = verdict[v],
           \A n \in Names \ {NameOf[w]} : partial'[n] = partial[n],
           pc'[w] \notin Before,
           pc'[w] \in Writing =>
             /\ Held(w)' \in File /\ Held(w)'.by = w
             /\ pc'[w] = "rename" => final[NameOf[w]] = None
             /\ pc'[w] = "stream" \/ (pc'[w] = "flush" /\ verdict'[w] # "relay_error")
                  => Held(w)'.len <= hashed'[w]
             /\ pc'[w] \in {"recheck", "rename"} =>
                  /\ verdict'[w] \in CompleteVerdicts
                  /\ Held(w)'.len = hashed'[w]
                  /\ Held(w)'.synced
    PROVE  Inv'
<1> USE OpsAssumption
<1>1. \A v \in Ops : v # w /\ pc[v] \in Writing => NameOf[v] # NameOf[w]
  BY DEF Inv, Owned, Held
<1>2. \A v \in Ops : v # w /\ pc[v] \in Writing => Held(v)' = Held(v)
  BY <1>1 DEF Held
<1>3. \A n \in Names : final[n] # None => final[n].by \in Ops /\ final[n].by # w
  BY DEF Inv, Published, TypeOK, File
<1>4. Owned' BY <1>2 DEF Inv, Owned
<1>5. NameFree' BY DEF Inv, NameFree, Writing
<1>6. Measured' BY <1>2 DEF Inv, Measured, Writing
<1>7. ReadyToPublish' BY <1>2 DEF Inv, ReadyToPublish, Writing
<1>8. Published' BY <1>3 DEF Inv, Published
<1>9. QED BY <1>4, <1>5, <1>6, <1>7, <1>8 DEF Inv

LEMMA OpenStep == ASSUME Inv, TypeOK', NEW w \in Ops, Open(w) PROVE Inv'
<1> USE OpsAssumption DEF Goto, local, disk, Claims, Before, Writing
<1>0. pc \in [Ops -> Phases] BY DEF Inv, TypeOK
<1>1. CASE Start(w) BY <1>0, <1>1, QuietStep DEF Start
<1>2. CASE StartRefused(w) BY <1>0, <1>2, QuietStep DEF StartRefused, GiveUp
<1>3. CASE CheckFinal(w) BY <1>0, <1>3, QuietStep DEF CheckFinal
<1>4. CASE FinalTaken(w) BY <1>0, <1>4, QuietStep DEF FinalTaken, Fail
<1>5. CASE Reserve(w)
  <2>1. partial[NameOf[w]] = None /\ Held(w)' = [by |-> w, len |-> 0, synced |-> FALSE, good |-> TRUE]
    BY <1>5 DEF Reserve, Held, Inv, TypeOK
  <2>2. \A v \in Ops : v # w /\ pc[v] \in Writing => NameOf[v] # NameOf[w]
    BY <2>1, NoneAssumption DEF Inv, Owned, Held
  <2>3. \A v \in Ops : v # w /\ pc[v] \in Writing => Held(v)' = Held(v)
    BY <2>2, <1>5 DEF Reserve, Held, Inv, TypeOK
  <2>4. \A n \in Names : final[n] # None => final[n].by \in Ops /\ final[n].by # w
    BY <1>5 DEF Reserve, Inv, Published, TypeOK, File
  <2>5. pc'[w] = "stream" /\ \A v \in Ops : v # w => pc'[v] = pc[v]
    BY <1>0, <1>5 DEF Reserve
  <2>6. Owned'
    <3>1. Held(w)' \in File /\ Held(w)'.by = w BY <2>1 DEF File
    <3>2. QED BY <2>3, <2>5, <3>1 DEF Inv, Owned
  <2>7. NameFree' BY <2>5, <1>5 DEF Reserve, Inv, NameFree
  <2>8. hashed[w] \in Nat BY DEF Inv, TypeOK
  <2>9. Measured'
    <3>1. Held(w)'.len <= hashed'[w] BY <2>1, <2>8, <1>5 DEF Reserve, local
    <3>2. QED BY <3>1, <2>3, <2>5, <1>5 DEF Reserve, Inv, Measured
  <2>10. ReadyToPublish' BY <2>3, <2>5, <1>5 DEF Reserve, Inv, ReadyToPublish
  <2>11. Published' BY <2>4, <2>5, <1>5 DEF Reserve, Inv, Published
  <2>12. QED BY <2>6, <2>7, <2>9, <2>10, <2>11 DEF Inv
<1>6. CASE PartialTaken(w) BY <1>0, <1>6, QuietStep DEF PartialTaken, Fail
<1>7. QED BY <1>1, <1>2, <1>3, <1>4, <1>5, <1>6 DEF Open

LEMMA TransferStep == ASSUME Inv, TypeOK', NEW w \in Ops, Transfer(w) PROVE Inv'
<1> USE OpsAssumption, BoundAssumption DEF Goto, disk, Before, Writing, Held
<1>0. /\ pc \in [Ops -> Phases] /\ hashed \in [Ops -> Nat] /\ verdict \in [Ops -> Verdicts]
      /\ partial \in [Names -> File \cup {None}]
  BY DEF Inv, TypeOK
<1>00. pc[w] = "stream" /\ Held(w) \in File /\ Held(w).by = w /\ Held(w).len <= hashed[w]
  BY DEF Transfer, WriteChunk, WriteFails, EndStream, Inv, Owned, Measured
<1>1. CASE WriteChunk(w)
  <2>1. PICK n \in Held(w).len .. hashed[w] + 1 :
          partial' = [partial EXCEPT ![NameOf[w]] = [Held(w) EXCEPT !.len = n]]
    BY <1>1 DEF WriteChunk
  <2>2. Held(w)' = [Held(w) EXCEPT !.len = n] BY <1>0, <2>1
  <2>3. Held(w)' \in File /\ Held(w)'.by = w /\ Held(w)'.len <= hashed'[w]
    BY <1>0, <1>00, <1>1, <2>2 DEF WriteChunk, File
  <2>4. QED BY <1>0, <1>00, <1>1, <2>1, <2>3, HolderStep DEF WriteChunk
<1>2. CASE WriteFails(w)
  <2>1. PICK n \in Held(w).len .. hashed[w] + 1 :
          partial' = [partial EXCEPT ![NameOf[w]] = [Held(w) EXCEPT !.len = n]]
    BY <1>2 DEF WriteFails
  <2>2. Held(w)' = [Held(w) EXCEPT !.len = n] BY <1>0, <2>1
  <2>3. Held(w)' \in File /\ Held(w)'.by = w BY <1>0, <1>00, <2>2 DEF File
  <2>4. pc'[w] = "flush" /\ verdict'[w] = "relay_error"
    BY <1>0, <1>2 DEF WriteFails
  <2>5. QED BY <1>0, <1>00, <1>2, <2>1, <2>3, <2>4, HolderStep DEF WriteFails
<1>3. CASE EndStream(w) BY <1>0, <1>00, <1>3, HolderStep DEF EndStream
<1>4. QED BY <1>1, <1>2, <1>3 DEF Transfer

LEMMA FinishStep == ASSUME Inv, TypeOK', NEW w \in Ops, Finish(w) PROVE Inv'
<1> USE OpsAssumption DEF Goto, local, disk, Claims, Before, Writing, CompleteVerdicts
<1>0. /\ pc \in [Ops -> Phases] /\ hashed \in [Ops -> Nat] /\ verdict \in [Ops -> Verdicts]
      /\ partial \in [Names -> File \cup {None}] /\ final \in [Names -> File \cup {None}]
  BY DEF Inv, TypeOK
<1>1. pc[w] \in Writing => Held(w) \in File /\ Held(w).by = w BY DEF Inv, Owned
<1>2. CASE FlushComplete(w)
  <2>1. PICK g \in BOOLEAN : partial' = [partial EXCEPT ![NameOf[w]] = Flushed(w, g)]
    BY <1>2 DEF FlushComplete
  <2>2. Held(w)' = Flushed(w, g) BY <1>0, <2>1 DEF Held
  <2>3. Held(w).len <= hashed[w] BY <1>2 DEF FlushComplete, Inv, Measured
  <2>4. Held(w)' \in File /\ Held(w)'.by = w /\ Held(w)'.len = hashed[w] /\ Held(w)'.synced
    BY <1>0, <1>1, <1>2, <2>2, <2>3 DEF FlushComplete, Flushed, File
  <2>5. QED BY <1>0, <1>2, <2>1, <2>4, HolderStep DEF FlushComplete
<1>3. CASE FlushIncomplete(w) BY <1>0, <1>3, HolderStep DEF FlushIncomplete
<1>4. CASE FlushAfterRelayError(w) BY <1>0, <1>4, HolderStep DEF FlushAfterRelayError, Fail
<1>5. CASE FlushFails(w) BY <1>0, <1>5, HolderStep DEF FlushFails, Fail
<1>6. CASE Recheck(w)
  <2>1. Held(w)' = Held(w) BY <1>6 DEF Recheck, Held
  <2>2. QED BY <1>0, <1>1, <1>6, <2>1, HolderStep DEF Recheck, Inv, ReadyToPublish
<1>7. CASE Appeared(w) BY <1>0, <1>7, QuietStep DEF Appeared, Fail
<1>8. CASE Rename(w)
  <2>1. /\ Held(w) \in File /\ Held(w).by = w /\ Held(w).len = hashed[w] /\ Held(w).synced
        /\ verdict[w] \in CompleteVerdicts
    BY <1>1, <1>8 DEF Rename, Inv, ReadyToPublish
  <2>2. \A v \in Ops : v # w /\ pc[v] \in Writing => NameOf[v] # NameOf[w]
    BY <2>1, <1>8 DEF Rename, Inv, Owned, Held
  <2>3. \A v \in Ops : v # w /\ pc[v] \in Writing => Held(v)' = Held(v)
    BY <1>0, <2>2, <1>8 DEF Rename, Held
  <2>4. pc'[w] \notin Before \cup Writing /\ \A v \in Ops : v # w => pc'[v] = pc[v]
    BY <1>0, <1>8 DEF Rename
  <2>5. \A n \in Names : final'[n] = IF n = NameOf[w] THEN Held(w) ELSE final[n]
    BY <1>0, <1>8 DEF Rename
  <2>6. Owned' BY <2>3, <2>4 DEF Inv, Owned
  <2>7. NameFree' BY <2>2, <2>4, <2>5 DEF Inv, NameFree
  <2>8. Measured' BY <2>3, <2>4, <1>8 DEF Rename, Inv, Measured
  <2>9. ReadyToPublish' BY <2>3, <2>4, <1>8 DEF Rename, Inv, ReadyToPublish
  <2>10. Published'
    <3>1. \A n \in Names : final[n] # None => final[n].by \in Ops BY <1>0 DEF File
    <3>2. QED BY <2>1, <2>4, <2>5, <3>1, <1>8 DEF Rename, Inv, Published
  <2>11. QED BY <2>6, <2>7, <2>8, <2>9, <2>10 DEF Inv
<1>9. CASE RenameFails(w) BY <1>0, <1>9, QuietStep DEF RenameFails, Fail
<1>10. CASE Verified(w) BY <1>0, <1>10, QuietStep DEF Verified
<1>11. CASE NotVerified(w) BY <1>0, <1>11, QuietStep DEF NotVerified, Fail
<1>12. QED
  BY <1>2, <1>3, <1>4, <1>5, <1>6, <1>7, <1>8, <1>9, <1>10, <1>11 DEF Finish

LEMMA LaterStep ==
    ASSUME Inv, TypeOK', NEW w \in Ops, AdoptResidue(w) \/ Document(w) \/ Environment(w)
    PROVE  Inv'
<1> USE OpsAssumption DEF Goto, local, disk, Claims, Before, Writing
<1>0. pc \in [Ops -> Phases] BY DEF Inv, TypeOK
<1>1. CASE LoadRecorded(w) BY <1>0, <1>1, QuietStep DEF LoadRecorded
<1>2. CASE ListResidue(w) BY <1>0, <1>2, QuietStep DEF ListResidue
<1>3. CASE AdoptOne(w) BY <1>0, <1>3, QuietStep DEF AdoptOne
<1>4. CASE AdoptFails(w) BY <1>0, <1>4, QuietStep DEF AdoptFails, GiveUp
<1>9. CASE AdoptCancelled(w) BY <1>0, <1>9, QuietStep DEF AdoptCancelled, GiveUp
<1>5. CASE Adopted(w) BY <1>0, <1>5, QuietStep DEF Adopted
<1>6. CASE WriteManifest(w) BY <1>0, <1>6, QuietStep DEF WriteManifest
<1>7. CASE WriteManifestFails(w) BY <1>0, <1>7, QuietStep DEF WriteManifestFails, GiveUp
<1>8. CASE WriteHashList(w) BY <1>0, <1>8, QuietStep DEF WriteHashList
<1>10. CASE Interrupt(w) BY <1>0, <1>10, QuietStep DEF Interrupt
<1>11. CASE Crash(w) BY <1>0, <1>11, QuietStep DEF Crash
<1>12. CASE WriteHashListFails(w) BY <1>0, <1>12, QuietStep DEF WriteHashListFails, GiveUp
<1>13. QED
  BY <1>1, <1>2, <1>3, <1>4, <1>5, <1>6, <1>7, <1>8, <1>9, <1>10, <1>11, <1>12
  DEF AdoptResidue, Document, Environment

(* After a power loss nothing is being written, and what was synced, hence *)
(* every published file, is as it was.                                     *)
LEMMA PowerLossStep == ASSUME Inv, TypeOK', PowerLoss PROVE Inv' /\ UNCHANGED final
<1>0. pc \in [Ops -> Phases] /\ final \in [Names -> File \cup {None}] BY DEF Inv, TypeOK
<1>1. \A v \in Ops : pc'[v] \in {"start", "done", "crashed"} /\ (pc'[v] = "start" => pc[v] = "start")
  BY <1>0 DEF PowerLoss, Running, Ended, Phases
<1>2. UNCHANGED final
  <2>1. PICK k \in 0 .. MaxChunks : final' = CutFiles(final, k) BY DEF PowerLoss
  <2>2. \A n \in Names : Cut(final[n], k) = final[n] BY DEF Cut, Inv, Published
  <2>3. QED BY <1>0, <2>1, <2>2 DEF CutFiles
<1>3. Published'
  <2>1. \A n \in Names : final[n] # None => final[n].by \in Ops BY <1>0 DEF File
  <2>2. QED BY <1>1, <1>2, <2>1 DEF PowerLoss, Inv, Published, Before, Writing
<1>4. QED
  BY <1>1, <1>2, <1>3 DEF Inv, Owned, NameFree, Measured, ReadyToPublish, Writing

LEMMA InvInit == Init => Inv
BY InitType DEF Init, Inv, Owned, NameFree, Measured, ReadyToPublish, Published, Writing

LEMMA InvStep == Inv /\ [Next]_vars => Inv'
<1> SUFFICES ASSUME Inv, [Next]_vars PROVE Inv'
  OBVIOUS
<1>1. TypeOK' BY TypeStep DEF Inv
<1>2. CASE UNCHANGED vars BY <1>1, <1>2, QuietStep DEF vars, local, disk, Claims
<1>3. CASE PowerLoss BY <1>1, <1>3, PowerLossStep
<1>4. ASSUME NEW w \in Ops,
             Open(w) \/ Transfer(w) \/ Finish(w) \/ AdoptResidue(w) \/ Document(w)
               \/ Environment(w)
      PROVE  Inv'
  BY <1>1, <1>4, OpenStep, TransferStep, FinishStep, LaterStep
<1>5. QED BY <1>2, <1>3, <1>4 DEF Next

LEMMA Invariance == Spec => []Inv
BY InvInit, InvStep, PTL DEF Spec

(* Every variable of the store keeps its type.                             *)
THEOREM TypeCorrect == Spec => []TypeOK
<1>1. Inv => TypeOK BY DEF Inv
<1>2. QED BY <1>1, Invariance, PTL

(* What a verdict says of the source stays true: nothing is hashed once it *)
(* is given.                                                               *)
LEMMA WholeSourceStep == Inv /\ WholeSource /\ [Next]_vars => WholeSource'
<1> SUFFICES ASSUME Inv, WholeSource, [Next]_vars PROVE WholeSource'
  OBVIOUS
<1> USE DEF Goto, local, disk
<1>0. pc \in [Ops -> Phases] /\ hashed \in [Ops -> Nat] /\ verdict \in [Ops -> Verdicts]
  BY DEF Inv, TypeOK
<1>1. ASSUME UNCHANGED <<hashed, verdict>>,
             \A v \in Ops : pc'[v] \in Before \cup {"stream"} => pc[v] \in Before \cup {"stream"}
      PROVE  WholeSource'
  BY <1>1 DEF WholeSource
<1>2. CASE UNCHANGED vars BY <1>1, <1>2 DEF vars
<1>3. CASE PowerLoss BY <1>0, <1>1, <1>3 DEF PowerLoss, Running, Ended, Before
<1>4. ASSUME NEW w \in Ops, Transfer(w) PROVE WholeSource'
  <2>1. pc[w] = "stream" /\ verdict[w] = "none"
    BY <1>4 DEF Transfer, WriteChunk, WriteFails, EndStream, WholeSource
  <2>2. CASE WriteChunk(w) BY <1>0, <2>1, <2>2 DEF WriteChunk, WholeSource
  <2>3. CASE WriteFails(w) BY <1>0, <2>1, <2>3 DEF WriteFails, WholeSource, Before
  <2>4. CASE EndStream(w) BY <1>0, <2>1, <2>4 DEF EndStream, WholeSource, Before
  <2>5. QED BY <1>4, <2>2, <2>3, <2>4 DEF Transfer
<1>5. ASSUME NEW w \in Ops, Open(w) PROVE WholeSource'
  <2>1. CASE Reserve(w) BY <1>0, <1>1, <2>1 DEF Reserve, Before
  <2>2. CASE ~Reserve(w)
    BY <1>0, <1>1, <1>5, <2>2 DEF Open, Start, StartRefused, CheckFinal, FinalTaken,
       PartialTaken, Fail, GiveUp, Before
  <2>3. QED BY <2>1, <2>2
<1>6. ASSUME NEW w \in Ops, Finish(w) PROVE WholeSource'
  BY <1>0, <1>1, <1>6 DEF Finish, FlushComplete, FlushIncomplete, FlushAfterRelayError, FlushFails,
     Recheck, Appeared, Rename, RenameFails, Verified, NotVerified, Fail, Before
<1>7. ASSUME NEW w \in Ops, AdoptResidue(w) \/ Document(w) \/ Environment(w) PROVE WholeSource'
  BY <1>0, <1>1, <1>7 DEF AdoptResidue, Document, Environment, LoadRecorded, ListResidue, AdoptOne,
     AdoptFails, AdoptCancelled, Adopted, WriteManifest, WriteManifestFails, WriteHashList,
     WriteHashListFails,
     Interrupt, Crash, GiveUp, Before
<1>8. QED BY <1>2, <1>3, <1>4, <1>5, <1>6, <1>7 DEF Next

(* A file under its final name holds all that its writer hashed, of a      *)
(* stream that ended as complete, and all of its source if the stream was  *)
(* "completed", crashes and power losses included.                         *)
THEOREM PublishedIsWhole == Spec => []FinalIsWhole
<1>1. Inv /\ WholeSource => FinalIsWhole
  <2> SUFFICES ASSUME Inv, WholeSource, NEW n \in Names, final[n] # None
               PROVE  /\ NameOf[final[n].by] = n
                      /\ verdict[final[n].by] \in CompleteVerdicts
                      /\ final[n].len = hashed[final[n].by]
                      /\ verdict[final[n].by] = "completed" => final[n].len = SizeOf[final[n].by]
                      /\ verdict[final[n].by] = "completed_with_errors" => final[n].len > 0
    BY DEF FinalIsWhole
  <2>1. final[n].by \in Ops BY DEF Inv, TypeOK, File
  <2>2. QED BY <2>1 DEF Inv, Published, WholeSource
<1>2. Init => WholeSource BY DEF Init, WholeSource
<1>3. Inv /\ WholeSource /\ [Next]_vars => WholeSource' BY WholeSourceStep
<1>4. QED BY <1>1, <1>2, <1>3, Invariance, PTL DEF Spec

-----------------------------------------------------------------------------
(* What no step changes: a published file, and a .partial file that is     *)
(* synced and that no command is writing.                                  *)
LEMMA FinalKept ==
    ASSUME Inv, Inv', Next, NEW n \in Names, final[n] # None PROVE final'[n] = final[n]
<1>1. CASE PowerLoss BY <1>1, PowerLossStep DEF Inv
<1>2. ASSUME NEW w \in Ops, Finish(w) PROVE final'[n] = final[n]
  <2>1. CASE Rename(w)
    <3>1. final[NameOf[w]] = None BY <2>1 DEF Rename, Inv, NameFree
    <3>2. QED BY <2>1, <3>1 DEF Rename, Inv, TypeOK
  <2>2. CASE ~Rename(w)
    BY <1>2, <2>2 DEF Finish, FlushComplete, FlushIncomplete, FlushAfterRelayError, FlushFails,
                      Recheck, Appeared, RenameFails, Verified, NotVerified, disk
  <2>3. QED BY <2>1, <2>2
<1>3. ASSUME NEW w \in Ops, Open(w) \/ Transfer(w) PROVE final'[n] = final[n]
  BY <1>3 DEF Open, Transfer, Start, StartRefused, CheckFinal, FinalTaken, Reserve,
              PartialTaken, WriteChunk, WriteFails, EndStream, disk
<1>4. ASSUME NEW w \in Ops, AdoptResidue(w) \/ Document(w) \/ Environment(w)
      PROVE  final'[n] = final[n]
  BY <1>4 DEF AdoptResidue, Document, Environment, LoadRecorded, ListResidue, AdoptOne,
              AdoptFails, AdoptCancelled, Adopted, WriteManifest, WriteManifestFails, WriteHashList,
              WriteHashListFails, Interrupt, Crash, disk
<1>5. QED BY <1>1, <1>2, <1>3, <1>4 DEF Next

(* No step of any command, and no fault, changes a published file.         *)
THEOREM NeverOverwritten == Spec => NoClobber
<1>1. Inv /\ Inv' /\ [Next]_vars => [\A n \in Names : final[n] # None => final'[n] = final[n]]_vars
  BY FinalKept DEF vars
<1>2. QED BY <1>1, Invariance, PTL DEF Spec, NoClobber

(* Every step that touches a .partial file is one of the command that holds *)
(* it, and either publishes it or leaves it with no less in it.            *)
Extends(f, g) == g # None /\ g.by = f.by /\ g.len >= f.len

LEMMA HolderTouches ==
    ASSUME Inv, NEW w \in Ops, Transfer(w) \/ Finish(w), NEW n \in Names, partial[n] # None
    PROVE  \/ partial'[n] = partial[n]
           \/ /\ pc[w] \in Writing /\ n = NameOf[w]
              /\ \/ partial'[n] = None /\ final'[n] = partial[n]
                 \/ Extends(partial[n], partial'[n])
<1> USE OpsAssumption, BoundAssumption DEF Writing
<1>0. /\ hashed \in [Ops -> Nat] /\ final \in [Names -> File \cup {None}]
      /\ partial \in [Names -> File \cup {None}]
  BY DEF Inv, TypeOK
<1>1. pc[w] \in Writing => Held(w) \in File /\ Held(w).by = w BY DEF Inv, Owned
<1>2. ASSUME pc[w] \in Writing, NEW k \in Nat, k >= Held(w).len, 
             partial' = [partial EXCEPT ![NameOf[w]] = [Held(w) EXCEPT !.len = k]]
      PROVE  partial'[n] = partial[n] \/ (n = NameOf[w] /\ Extends(partial[n], partial'[n]))
  <2>1. [Held(w) EXCEPT !.len = k] \in File /\ [Held(w) EXCEPT !.len = k].by = w
        /\ [Held(w) EXCEPT !.len = k].len = k
    BY <1>1, <1>2 DEF File
  <2>2. [Held(w) EXCEPT !.len = k] # None BY <2>1, NoneAssumption
  <2>3. partial'[NameOf[w]] = [Held(w) EXCEPT !.len = k] BY <1>0, <1>2
  <2>4. n # NameOf[w] => partial'[n] = partial[n] BY <1>0, <1>2
  <2>5. QED BY <1>1, <1>2, <2>1, <2>2, <2>3, <2>4 DEF Held, Extends
<1>3. ASSUME pc[w] \in Writing, NEW g \in BOOLEAN,
             partial' = [partial EXCEPT ![NameOf[w]] = Flushed(w, g)]
      PROVE  partial'[n] = partial[n] \/ (n = NameOf[w] /\ Extends(partial[n], partial'[n]))
  <2>1. Flushed(w, g) \in File /\ Flushed(w, g).by = w /\ Flushed(w, g).len >= Held(w).len
    BY <1>0, <1>1, <1>3 DEF Flushed, File
  <2>2. Flushed(w, g) # None BY <2>1, NoneAssumption
  <2>3. partial'[NameOf[w]] = Flushed(w, g) BY <1>0, <1>3
  <2>4. n # NameOf[w] => partial'[n] = partial[n] BY <1>0, <1>3
  <2>5. QED BY <1>1, <1>3, <2>1, <2>2, <2>3, <2>4 DEF Held, Extends
<1>4. CASE WriteChunk(w) \/ WriteFails(w)
  <2>1. PICK k \in Held(w).len .. hashed[w] + 1 :
          partial' = [partial EXCEPT ![NameOf[w]] = [Held(w) EXCEPT !.len = k]]
    BY <1>4 DEF WriteChunk, WriteFails
  <2>2. pc[w] \in Writing BY <1>4 DEF WriteChunk, WriteFails
  <2>3. k \in Nat /\ k >= Held(w).len BY <1>0, <1>1, <2>2 DEF File
  <2>4. QED BY <1>2, <2>1, <2>2, <2>3
<1>5. CASE FlushFails(w)
  <2>1. PICK k \in Held(w).len .. Flushed(w, TRUE).len :
          partial' = [partial EXCEPT ![NameOf[w]] = [Held(w) EXCEPT !.len = k]]
    BY <1>5 DEF FlushFails
  <2>2. pc[w] \in Writing BY <1>5 DEF FlushFails
  <2>3. k \in Nat /\ k >= Held(w).len BY <1>0, <1>1, <2>2 DEF File, Flushed
  <2>4. QED BY <1>2, <2>1, <2>2, <2>3
<1>6. CASE FlushComplete(w) \/ FlushIncomplete(w) \/ FlushAfterRelayError(w)
  <2>1. \E g \in BOOLEAN : partial' = [partial EXCEPT ![NameOf[w]] = Flushed(w, g)]
    BY <1>6 DEF FlushComplete, FlushIncomplete, FlushAfterRelayError
  <2>2. pc[w] \in Writing BY <1>6 DEF FlushComplete, FlushIncomplete, FlushAfterRelayError
  <2>3. QED BY <1>3, <2>1, <2>2
<1>7. CASE Rename(w) BY <1>0, <1>7 DEF Rename, Held
<1>8. CASE EndStream(w) \/ Recheck(w) \/ Appeared(w) \/ RenameFails(w) \/ Verified(w) \/ NotVerified(w)
  BY <1>8 DEF EndStream, Recheck, Appeared, RenameFails, Verified, NotVerified, disk
<1>9. QED BY <1>4, <1>5, <1>6, <1>7, <1>8 DEF Transfer, Finish

LEMMA OthersTouchNothing ==
    ASSUME Inv, NEW w \in Ops, Open(w) \/ AdoptResidue(w) \/ Document(w) \/ Environment(w),
           NEW n \in Names, partial[n] # None
    PROVE  partial'[n] = partial[n]
<1>1. CASE Reserve(w) BY <1>1, OpsAssumption DEF Reserve, Inv, TypeOK
<1>2. CASE ~Reserve(w)
  BY <1>2 DEF Open, AdoptResidue, Document, Environment, Start, StartRefused, CheckFinal,
              FinalTaken, PartialTaken, LoadRecorded, ListResidue, AdoptOne, AdoptFails,
              AdoptCancelled, Adopted,
              WriteManifest, WriteManifestFails, WriteHashList, WriteHashListFails, Interrupt,
              Crash, disk
<1>3. QED BY <1>1, <1>2

LEMMA PowerCuts ==
    ASSUME Inv, PowerLoss, NEW n \in Names, partial[n] # None
    PROVE  /\ partial'[n] # None /\ partial'[n].by = partial[n].by
           /\ partial[n].synced => partial'[n] = partial[n]
           /\ MachineDown
<1>1. PICK k \in 0 .. MaxChunks : partial' = CutFiles(partial, k) BY DEF PowerLoss
<1>2. partial'[n] = Cut(partial[n], k) BY <1>1 DEF CutFiles
<1>3. partial[n] \in File BY DEF Inv, TypeOK
<1>4. [partial[n] EXCEPT !.len = k] \in File /\ [partial[n] EXCEPT !.len = k].by = partial[n].by
  BY <1>3, BoundAssumption DEF File
<1>5. MachineDown BY DEF MachineDown, PowerLoss, Inv, TypeOK
<1>6. QED BY <1>2, <1>4, <1>5, NoneAssumption DEF Cut

LEMMA NothingLost ==
    ASSUME Inv, Next, NEW n \in Names, partial[n] # None
    PROVE  \/ partial'[n] = None /\ final'[n] = partial[n]
           \/ /\ partial'[n] # None /\ partial'[n].by = partial[n].by
              /\ partial'[n].len < partial[n].len => ~partial[n].synced /\ MachineDown
<1>0. partial[n] \in File BY DEF Inv, TypeOK
<1>1. CASE partial'[n] = partial[n] BY <1>0, <1>1 DEF File
<1>2. CASE PowerLoss BY <1>0, <1>2, PowerCuts DEF File
<1>3. CASE Extends(partial[n], partial'[n])
  <2>1. partial'[n] \in File \cup {None} BY InvStep DEF Inv, TypeOK
  <2>2. partial'[n].len \in Nat BY <2>1, <1>3 DEF Extends, File
  <2>3. QED BY <1>0, <1>3, <2>2 DEF Extends, File
<1>4. QED BY <1>1, <1>2, <1>3, HolderTouches, OthersTouchNothing DEF Next

(* Nothing in the store deletes a file; a .partial name goes only by taking *)
(* its final name with all of its content, and the file shrinks only in a  *)
(* power loss.                                                             *)
THEOREM NeverDeleted == Spec => NothingDeleted
<1>1. Inv /\ [Next]_vars =>
        [\A n \in Names : partial[n] # None =>
           \/ partial'[n] = None /\ final'[n] = partial[n]
           \/ /\ partial'[n] # None /\ partial'[n].by = partial[n].by
              /\ partial'[n].len < partial[n].len => ~partial[n].synced /\ MachineDown]_vars
  BY NothingLost DEF vars
<1>2. QED BY <1>1, Invariance, PTL DEF Spec, NothingDeleted

-----------------------------------------------------------------------------
(* What is recorded.  Kept: the file a record speaks of is no longer       *)
(* written, is on stable storage, and is the recorded one.  The record of  *)
(* a command is a function of its verdict and of what it hashed (OwnRecord),*)
(* in memory until the manifest is written (ReportKept) and on disk from   *)
(* then on (ManifestKept).                                                 *)
Reporting == {"verify", "manifest", "hashlist"}
Stopped == {"cancelled", "failed"}
OwnRecord(w) ==
    IF verdict[w] \in CompleteVerdicts
      THEN [path |-> FinalPath(NameOf[w]), digest |-> TransferDigest(w),
            complete |-> TRUE, origin |-> "writer"]
      ELSE [path |-> PartialPath(NameOf[w]), digest |-> TransferDigest(w),
            complete |-> FALSE, origin |-> "writer"]

Resting(f) == f # None /\ pc[f.by] \notin Before \cup Writing
Settled(f) == Resting(f) /\ f.synced
Kept(r) ==
    /\ Settled(At(r.path))
    /\ At(r.path).by = r.digest.by /\ At(r.path).len = r.digest.len

FatalAfterError == \A w \in Ops : pc[w] \in {"residue", "list", "adopt"} => fatal[w] # "none"
NotFatalYet == \A w \in Ops : pc[w] \in Before \cup Writing \cup {"verify"} => fatal[w] = "none"
(* An exit that speaks of the transfer itself, not of what failed after it. *)
Plain(w) == exit[w] \in {"ok", "failed"} \/ (exit[w] = "interrupted" /\ fatal[w] = "none")
Exited ==
    \A w \in Ops :
        /\ exit[w] # "none" => pc[w] = "done"
        /\ exit[w] \in {"ok", "failed"} => fatal[w] = "none"
        /\ exit[w] = "ok" => verdict[w] \in CompleteVerdicts
        /\ exit[w] = "failed" => verdict[w] = "failed"
        /\ exit[w] = "interrupted" /\ fatal[w] = "none" => verdict[w] = "cancelled"
Reported ==
    \A w \in Ops : pc[w] \in Reporting /\ fatal[w] = "none" =>
        /\ OwnRecord(w) \in report[w]
        /\ verdict[w] \in CompleteVerdicts \cup Stopped
        /\ pc[w] = "verify" => verdict[w] \in CompleteVerdicts
ReportKept ==
    \A w \in Ops : \A r \in report[w] : r.origin = "writer" =>
        /\ pc[w] \in Reporting /\ fatal[w] = "none"
        /\ r = OwnRecord(w) /\ Kept(r)
        /\ r.complete /\ w \in PostVerify /\ pc[w] # "verify" => TrueOfDisk(r)
ManifestKept ==
    \A m \in Existing : \A r \in manifests[m].artifacts : r.origin = "writer" =>
        Kept(r) /\ (r.complete /\ manifests[m].op \in PostVerify => TrueOfDisk(r))

RecordsInv ==
    FatalAfterError /\ NotFatalYet /\ Exited /\ Reported /\ ReportKept /\ ManifestKept

(* The manifest of a command is its own, if no other has the same name.    *)
OwnManifest(w) ==
    /\ manifests[ManifestOf[w]] # None
    /\ manifests[ManifestOf[w]].op = w
    /\ manifests[ManifestOf[w]].status = verdict[w]
    /\ OwnRecord(w) \in manifests[ManifestOf[w]].artifacts
OnRecord ==
    \A w \in Ops :
        (pc[w] = "hashlist" /\ fatal[w] = "none") \/ Plain(w) => OwnManifest(w)

LEMMA PhasesForward ==
    ASSUME Inv, Next, NEW v \in Ops, pc[v] \notin Before \cup Writing
    PROVE  pc'[v] \notin Before \cup Writing
<1> USE DEF Before, Writing, Goto, local, disk
<1>0. pc \in [Ops -> Phases] BY DEF Inv, TypeOK
<1>1. CASE PowerLoss BY <1>0, <1>1 DEF PowerLoss, Running, Ended, Phases
<1>2. ASSUME NEW w \in Ops, Open(w) \/ Transfer(w) PROVE pc'[v] \notin Before \cup Writing
  BY <1>0, <1>2 DEF Open, Transfer, Start, StartRefused, CheckFinal, FinalTaken, Reserve,
              PartialTaken, WriteChunk, WriteFails, EndStream, Fail, GiveUp
<1>3. ASSUME NEW w \in Ops, Finish(w) PROVE pc'[v] \notin Before \cup Writing
  BY <1>0, <1>3 DEF Finish, FlushComplete, FlushIncomplete, FlushAfterRelayError, FlushFails,
              Recheck, Appeared, Rename, RenameFails, Verified, NotVerified, Fail
<1>4. ASSUME NEW w \in Ops, AdoptResidue(w) \/ Document(w) \/ Environment(w)
      PROVE  pc'[v] \notin Before \cup Writing
  BY <1>0, <1>4 DEF AdoptResidue, Document, Environment, LoadRecorded, ListResidue, AdoptOne,
              AdoptFails, AdoptCancelled, Adopted, WriteManifest, WriteManifestFails, WriteHashList,
              WriteHashListFails, Interrupt, Crash, GiveUp
<1>5. QED BY <1>1, <1>2, <1>3, <1>4 DEF Next

LEMMA RestingStays ==
    ASSUME Inv, Inv', Next, NEW p \in Paths, Resting(At(p)), At(p).synced \/ ~PowerLoss
    PROVE  At(p)' = At(p) /\ Resting(At(p))'
<1>1. p.name \in Names BY DEF Paths
<1>2. At(p) \in File /\ At(p).by \in Ops BY <1>1 DEF At, Resting, Inv, TypeOK, File
<1>3. At(p)' = At(p)
  <2>1. CASE p.kind = "final" BY <1>1, <2>1, FinalKept DEF At, Resting
  <2>2. CASE p.kind # "final"
    <3>1. partial[p.name] = At(p) /\ partial[p.name] # None BY <2>2 DEF At, Resting
    <3>2. ASSUME NEW w \in Ops, Transfer(w) \/ Finish(w) PROVE partial'[p.name] = partial[p.name]
      <4>1. \/ partial'[p.name] = partial[p.name]
            \/ pc[w] \in Writing /\ p.name = NameOf[w]
        BY <1>1, <3>1, <3>2, HolderTouches
      <4>2. pc[w] \in Writing /\ p.name = NameOf[w] => pc[At(p).by] \in Writing
        BY <3>1 DEF Inv, Owned, Held
      <4>3. QED BY <4>1, <4>2 DEF Resting
    <3>3. ASSUME PowerLoss PROVE partial'[p.name] = partial[p.name]
      BY <1>1, <3>1, <3>3, PowerCuts DEF Resting
    <3>4. partial'[p.name] = partial[p.name]
      <4>1. ASSUME NEW w \in Ops,
                   Open(w) \/ AdoptResidue(w) \/ Document(w) \/ Environment(w)
            PROVE  partial'[p.name] = partial[p.name]
        BY <1>1, <3>1, <4>1, OthersTouchNothing
      <4>2. QED BY <3>2, <3>3, <4>1 DEF Next
    <3>5. QED BY <2>2, <3>1, <3>4 DEF At
  <2>3. QED BY <2>1, <2>2
<1>4. pc'[At(p).by] \notin Before \cup Writing BY <1>2, PhasesForward DEF Resting
<1>5. QED BY <1>3, <1>4 DEF Resting

LEMMA KeptStays ==
    ASSUME Inv, Inv', Next, NEW r \in Records, Kept(r)
    PROVE  Kept(r)' /\ (TrueOfDisk(r) => TrueOfDisk(r)')
<1>1. r.path \in Paths BY DEF Records
<1>2. At(r.path)' = At(r.path) /\ Settled(At(r.path))' BY <1>1, RestingStays DEF Kept, Settled
<1>3. QED BY <1>2 DEF Kept, TrueOfDisk

(* The records in manifests that stay as they are.                         *)
LEMMA ManifestsStay ==
    ASSUME Inv, Inv', Next, ManifestKept, UNCHANGED manifests PROVE ManifestKept'
<1> SUFFICES ASSUME NEW m \in Existing, NEW r \in manifests[m].artifacts, r.origin = "writer"
             PROVE  Kept(r)' /\ (r.complete /\ manifests[m].op \in PostVerify => TrueOfDisk(r)')
  BY DEF ManifestKept, Existing
<1>1. r \in Records BY DEF Existing, Inv, TypeOK, Manifest
<1>2. QED BY <1>1, KeptStays DEF ManifestKept

(* Nothing a command knows or says changes.                                *)
Same(v) == /\ pc'[v] = pc[v] /\ fatal'[v] = fatal[v] /\ verdict'[v] = verdict[v]
           /\ hashed'[v] = hashed[v] /\ report'[v] = report[v] /\ exit'[v] = exit[v]

LEMMA SameRecord ==
    ASSUME NEW w \in Ops, verdict'[w] = verdict[w], hashed'[w] = hashed[w]
    PROVE  OwnRecord(w)' = OwnRecord(w)
BY DEF OwnRecord, TransferDigest

(* A step after which w has no record of its own in memory, or none yet.   *)
LEMMA RecordsQuiet ==
    ASSUME Inv, Inv', Next, RecordsInv, NEW W \in SUBSET Ops, UNCHANGED manifests,
           \A v \in Ops \ W : Same(v),
           \A w \in W :
              /\ \A r \in report'[w] : r.origin # "writer"
              /\ pc'[w] \in Reporting \cup {"residue", "list", "adopt"} => fatal'[w] # "none"
              /\ pc'[w] \in Before \cup Writing \cup {"verify"} => fatal'[w] = "none"
              /\ exit'[w] # "none" => pc'[w] = "done"
              /\ \/ exit'[w] \in {"none", "error"}
                 \/ exit'[w] = "interrupted" /\ fatal'[w] # "none"
                 \/ UNCHANGED <<exit[w], fatal[w], verdict[w], hashed[w]>>
    PROVE  RecordsInv' /\ (OnRecord => OnRecord')
<1>1. FatalAfterError' BY DEF RecordsInv, FatalAfterError, Same
<1>2. NotFatalYet' BY DEF RecordsInv, NotFatalYet, Same
<1>3. Exited'
  <2> SUFFICES ASSUME NEW v \in Ops
               PROVE  /\ exit'[v] # "none" => pc'[v] = "done"
                      /\ exit'[v] \in {"ok", "failed"} => fatal'[v] = "none"
                      /\ exit'[v] = "ok" => verdict'[v] \in CompleteVerdicts
                      /\ exit'[v] = "failed" => verdict'[v] = "failed"
                      /\ exit'[v] = "interrupted" /\ fatal'[v] = "none" =>
                           verdict'[v] = "cancelled"
    BY DEF Exited
  <2>1. CASE v \in W BY <2>1 DEF RecordsInv, Exited
  <2>2. CASE v \notin W BY <2>2 DEF RecordsInv, Exited, Same
  <2>3. QED BY <2>1, <2>2
<1>4. Reported'
  <2> SUFFICES ASSUME NEW v \in Ops, pc'[v] \in Reporting, fatal'[v] = "none"
               PROVE  /\ OwnRecord(v)' \in report'[v]
                      /\ verdict'[v] \in CompleteVerdicts \cup Stopped
                      /\ pc'[v] = "verify" => verdict'[v] \in CompleteVerdicts
    BY DEF Reported
  <2>1. v \notin W OBVIOUS
  <2>2. OwnRecord(v)' = OwnRecord(v) BY <2>1, SameRecord DEF Same
  <2>3. QED BY <2>1, <2>2 DEF RecordsInv, Reported, Same
<1>5. ReportKept'
  <2> SUFFICES ASSUME NEW v \in Ops, NEW r \in report'[v], r.origin = "writer"
               PROVE  /\ pc'[v] \in Reporting /\ fatal'[v] = "none"
                      /\ r = OwnRecord(v)' /\ Kept(r)'
                      /\ r.complete /\ v \in PostVerify /\ pc'[v] # "verify" => TrueOfDisk(r)'
    BY DEF ReportKept
  <2>1. v \notin W OBVIOUS
  <2>2. OwnRecord(v)' = OwnRecord(v) BY <2>1, SameRecord DEF Same
  <2>3. r \in report[v] /\ r \in Records BY <2>1 DEF Same, Inv, TypeOK
  <2>4. QED BY <2>1, <2>2, <2>3, KeptStays DEF RecordsInv, ReportKept, Same
<1>6. ManifestKept' BY ManifestsStay DEF RecordsInv
<1>7. OnRecord => OnRecord'
  <2> SUFFICES ASSUME OnRecord, NEW v \in Ops,
                      (pc'[v] = "hashlist" /\ fatal'[v] = "none") \/ Plain(v)'
               PROVE  OwnManifest(v)'
    BY DEF OnRecord
  <2>1. verdict'[v] = verdict[v] /\ hashed'[v] = hashed[v] BY DEF Same, Plain, Reporting
  <2>2. OwnRecord(v)' = OwnRecord(v) BY <2>1, SameRecord
  <2>3. OwnManifest(v) BY DEF OnRecord, Same, Plain, Reporting
  <2>4. QED BY <2>1, <2>2, <2>3 DEF OwnManifest
<1>8. QED BY <1>1, <1>2, <1>3, <1>4, <1>5, <1>6, <1>7 DEF RecordsInv

LEMMA RecordsQuietOne ==
    ASSUME Inv, Inv', Next, RecordsInv, NEW w \in Ops, UNCHANGED manifests,
           \A v \in Ops : v # w => Same(v),
           \A r \in report'[w] : r.origin # "writer",
           pc'[w] \in Reporting \cup {"residue", "list", "adopt"} => fatal'[w] # "none",
           pc'[w] \in Before \cup Writing \cup {"verify"} => fatal'[w] = "none",
           \/ exit'[w] \in {"none", "error"}
           \/ exit'[w] = "interrupted" /\ fatal'[w] # "none",
           exit'[w] # "none" => pc'[w] = "done"
    PROVE  RecordsInv' /\ (OnRecord => OnRecord')
<1> DEFINE W == {w}
<1>1. W \in SUBSET Ops /\ (\A v \in Ops \ W : Same(v)) /\ \A v \in W : v = w
  OBVIOUS
<1> HIDE DEF W
<1>2. QED BY <1>1, RecordsQuiet

LEMMA RecordsOpen ==
    ASSUME Inv, Inv', Next, RecordsInv, NEW w \in Ops, Open(w) \/ Transfer(w)
    PROVE  RecordsInv' /\ (OnRecord => OnRecord')
<1> USE DEF Goto, local, disk, Before, Writing, Reporting, Same
<1>0. /\ pc \in [Ops -> Phases] /\ fatal \in [Ops -> Failures] /\ verdict \in [Ops -> Verdicts]
      /\ hashed \in [Ops -> Nat] /\ report \in [Ops -> SUBSET Records] /\ exit \in [Ops -> Exits]
  BY DEF Inv, TypeOK
<1>1. /\ pc[w] \in Before \cup {"stream"} => fatal[w] = "none" /\ \A r \in report[w] : r.origin # "writer"
      /\ pc[w] # "done" => exit[w] = "none"
  BY DEF RecordsInv, NotFatalYet, ReportKept, Exited
<1>2. CASE Start(w) BY <1>0, <1>1, <1>2, RecordsQuietOne DEF Start
<1>3. CASE StartRefused(w) BY <1>0, <1>1, <1>3, RecordsQuietOne DEF StartRefused, GiveUp, Gone
<1>4. CASE CheckFinal(w) BY <1>0, <1>1, <1>4, RecordsQuietOne DEF CheckFinal
<1>5. CASE FinalTaken(w) BY <1>0, <1>1, <1>5, RecordsQuietOne DEF FinalTaken, Fail
<1>6. CASE Reserve(w) BY <1>0, <1>1, <1>6, RecordsQuietOne DEF Reserve
<1>7. CASE PartialTaken(w) BY <1>0, <1>1, <1>7, RecordsQuietOne DEF PartialTaken, Fail
<1>8. CASE WriteChunk(w) BY <1>0, <1>1, <1>8, RecordsQuietOne DEF WriteChunk
<1>9. CASE WriteFails(w) BY <1>0, <1>1, <1>9, RecordsQuietOne DEF WriteFails
<1>10. CASE EndStream(w) BY <1>0, <1>1, <1>10, RecordsQuietOne DEF EndStream
<1>11. QED
  BY <1>2, <1>3, <1>4, <1>5, <1>6, <1>7, <1>8, <1>9, <1>10 DEF Open, Transfer

(* A step after which w has a record of its own in memory.                 *)
LEMMA RecordsOwn ==
    ASSUME Inv, Inv', Next, RecordsInv, NEW w \in Ops, UNCHANGED manifests,
           \A v \in Ops : v # w => Same(v),
           pc'[w] \in {"verify", "manifest"}, fatal'[w] = "none", exit'[w] = "none",
           verdict'[w] \in CompleteVerdicts \cup Stopped,
           pc'[w] = "verify" => verdict'[w] \in CompleteVerdicts,
           NEW r \in report'[w], \A q \in report'[w] : q.origin # "writer" \/ q = r,
           r = OwnRecord(w)', Kept(r)',
           r.complete /\ w \in PostVerify /\ pc'[w] # "verify" => TrueOfDisk(r)'
    PROVE  RecordsInv' /\ (OnRecord => OnRecord')
<1>1. FatalAfterError' BY DEF RecordsInv, FatalAfterError, Same
<1>2. NotFatalYet' BY DEF RecordsInv, NotFatalYet, Same
<1>3. Exited'
  <2> SUFFICES ASSUME NEW v \in Ops, v # w
               PROVE  /\ exit'[v] # "none" => pc'[v] = "done"
                      /\ exit'[v] \in {"ok", "failed"} => fatal'[v] = "none"
                      /\ exit'[v] = "ok" => verdict'[v] \in CompleteVerdicts
                      /\ exit'[v] = "failed" => verdict'[v] = "failed"
                      /\ exit'[v] = "interrupted" /\ fatal'[v] = "none" =>
                           verdict'[v] = "cancelled"
    BY DEF Exited
  <2>1. QED BY DEF RecordsInv, Exited, Same
<1>4. Reported'
  <2> SUFFICES ASSUME NEW v \in Ops, v # w, pc'[v] \in Reporting, fatal'[v] = "none"
               PROVE  /\ OwnRecord(v)' \in report'[v]
                      /\ verdict'[v] \in CompleteVerdicts \cup Stopped
                      /\ pc'[v] = "verify" => verdict'[v] \in CompleteVerdicts
    BY DEF Reported
  <2>1. OwnRecord(v)' = OwnRecord(v) BY SameRecord DEF Same
  <2>2. QED BY <2>1 DEF RecordsInv, Reported, Same
<1>5. ReportKept'
  <2> SUFFICES ASSUME NEW v \in Ops, NEW q \in report'[v], q.origin = "writer"
               PROVE  /\ pc'[v] \in Reporting /\ fatal'[v] = "none"
                      /\ q = OwnRecord(v)' /\ Kept(q)'
                      /\ q.complete /\ v \in PostVerify /\ pc'[v] # "verify" => TrueOfDisk(q)'
    BY DEF ReportKept
  <2>1. CASE v = w
    <3>1. q = r BY <2>1
    <3>2. QED BY <2>1, <3>1 DEF Reporting
  <2>2. CASE v # w
    <3>1. OwnRecord(v)' = OwnRecord(v) BY <2>2, SameRecord DEF Same
    <3>2. q \in report[v] /\ q \in Records BY <2>2 DEF Same, Inv, TypeOK
    <3>3. QED BY <2>2, <3>1, <3>2, KeptStays DEF RecordsInv, ReportKept, Same
  <2>3. QED BY <2>1, <2>2
<1>6. ManifestKept' BY ManifestsStay DEF RecordsInv
<1>7. OnRecord => OnRecord'
  <2> SUFFICES ASSUME OnRecord, NEW v \in Ops,
                      (pc'[v] = "hashlist" /\ fatal'[v] = "none") \/ Plain(v)'
               PROVE  OwnManifest(v)'
    BY DEF OnRecord
  <2>1. v # w BY DEF Plain
  <2>2. OwnRecord(v)' = OwnRecord(v) BY <2>1, SameRecord DEF Same
  <2>3. OwnManifest(v) BY <2>1 DEF OnRecord, Same, Plain
  <2>4. QED BY <2>1, <2>2, <2>3 DEF OwnManifest, Same
<1>8. QED BY <1>1, <1>2, <1>3, <1>4, <1>5, <1>6, <1>7 DEF RecordsInv

LEMMA RecordsFinish ==
    ASSUME Inv, Inv', Next, RecordsInv, NEW w \in Ops, Finish(w)
    PROVE  RecordsInv' /\ (OnRecord => OnRecord')
<1> USE OpsAssumption DEF Goto, local, disk, Before, Writing, Reporting, Same
<1>0. /\ pc \in [Ops -> Phases] /\ fatal \in [Ops -> Failures] /\ verdict \in [Ops -> Verdicts]
      /\ hashed \in [Ops -> Nat] /\ report \in [Ops -> SUBSET Records] /\ exit \in [Ops -> Exits]
      /\ final \in [Names -> File \cup {None}] /\ partial \in [Names -> File \cup {None}]
  BY DEF Inv, TypeOK
<1>1. /\ pc[w] \in Writing \cup {"verify"} => fatal[w] = "none"
      /\ pc[w] \in Writing => \A r \in report[w] : r.origin # "writer"
      /\ pc[w] # "done" => exit[w] = "none"
  BY DEF RecordsInv, NotFatalYet, ReportKept, Exited
<1>2. pc[w] \in Writing => Held(w) \in File /\ Held(w).by = w BY DEF Inv, Owned
<1>3. CASE FlushComplete(w) BY <1>0, <1>1, <1>3, RecordsQuietOne DEF FlushComplete
<1>4. CASE FlushIncomplete(w)
  <2>0. PICK r : r = [path |-> PartialPath(NameOf[w]), digest |-> TransferDigest(w),
                      complete |-> FALSE, origin |-> "writer"]
    OBVIOUS
  <2>1. verdict[w] \in Stopped /\ verdict[w] \notin CompleteVerdicts
    BY <1>4 DEF FlushIncomplete, Stopped, CompleteVerdicts
  <2>2. verdict'[w] = verdict[w] /\ hashed'[w] = hashed[w] BY <1>4 DEF FlushIncomplete
  <2>3. r = OwnRecord(w)' BY <2>0, <2>1, <2>2, SameRecord DEF OwnRecord
  <2>4. Held(w).len <= hashed[w] BY <1>4 DEF FlushIncomplete, Inv, Measured
  <2>5. Flushed(w, TRUE) \in File /\ Flushed(w, TRUE).by = w /\ Flushed(w, TRUE).synced
        /\ Flushed(w, TRUE).len = hashed[w]
    BY <1>0, <1>2, <1>4, <2>4 DEF FlushIncomplete, Flushed, File
  <2>6. At(r.path)' = Flushed(w, TRUE) BY <1>0, <1>4, <2>0 DEF FlushIncomplete, At, PartialPath
  <2>7. pc'[w] = "manifest" BY <1>0, <1>4 DEF FlushIncomplete
  <2>8. Kept(r)'
    BY <2>0, <2>5, <2>6, <2>7, NoneAssumption DEF Kept, Settled, Resting, TransferDigest
  <2>9. report'[w] = {r} /\ ~r.complete BY <1>0, <1>4, <2>0 DEF FlushIncomplete
  <2>10. QED
    BY <1>0, <1>1, <1>4, <2>1, <2>2, <2>3, <2>7, <2>8, <2>9, RecordsOwn DEF FlushIncomplete
<1>5. CASE FlushAfterRelayError(w)
  BY <1>0, <1>1, <1>5, RecordsQuietOne DEF FlushAfterRelayError, Fail
<1>6. CASE FlushFails(w) BY <1>0, <1>1, <1>6, RecordsQuietOne DEF FlushFails, Fail
<1>7. CASE Recheck(w) BY <1>0, <1>1, <1>7, RecordsQuietOne DEF Recheck
<1>8. CASE Appeared(w) BY <1>0, <1>1, <1>8, RecordsQuietOne DEF Appeared, Fail
<1>9. CASE Rename(w)
  <2>0. PICK r : r = [path |-> FinalPath(NameOf[w]), digest |-> TransferDigest(w),
                      complete |-> TRUE, origin |-> "writer"]
    OBVIOUS
  <2>1. verdict[w] \in CompleteVerdicts /\ Held(w).len = hashed[w] /\ Held(w).synced
    BY <1>9 DEF Rename, Inv, ReadyToPublish
  <2>2. verdict'[w] = verdict[w] /\ hashed'[w] = hashed[w] BY <1>9 DEF Rename
  <2>3. r = OwnRecord(w)' BY <2>0, <2>1, <2>2, SameRecord DEF OwnRecord
  <2>4. Held(w) \in File /\ Held(w).by = w BY <1>2, <1>9 DEF Rename
  <2>5. At(r.path)' = Held(w) BY <1>0, <1>9, <2>0 DEF Rename, At, FinalPath
  <2>6. pc'[w] = IF w \in PostVerify THEN "verify" ELSE "manifest" BY <1>0, <1>9 DEF Rename
  <2>7. Kept(r)'
    BY <2>0, <2>1, <2>4, <2>5, <2>6, NoneAssumption DEF Kept, Settled, Resting, TransferDigest
  <2>8. report'[w] = {r} BY <1>0, <1>9, <2>0 DEF Rename
  <2>9. QED
    BY <1>0, <1>1, <1>9, <2>1, <2>2, <2>3, <2>6, <2>7, <2>8, RecordsOwn DEF Rename
<1>10. CASE RenameFails(w) BY <1>0, <1>1, <1>10, RecordsQuietOne DEF RenameFails, Fail
<1>11. CASE Verified(w)
  <2>0. PICK r : r = OwnRecord(w) OBVIOUS
  <2>1. pc[w] = "verify" /\ pc'[w] = "manifest" BY <1>0, <1>11 DEF Verified
  <2>2. r \in report[w] /\ verdict[w] \in CompleteVerdicts
    BY <1>1, <2>0, <2>1 DEF RecordsInv, Reported
  <2>3. r.origin = "writer" BY <2>0 DEF OwnRecord
  <2>4. \A q \in report[w] : q.origin # "writer" \/ q = r BY <2>0 DEF RecordsInv, ReportKept
  <2>5. r \in Records /\ Kept(r) BY <1>0, <2>2, <2>3 DEF RecordsInv, ReportKept
  <2>6. r.path = FinalPath(NameOf[w]) /\ r.digest = TransferDigest(w) BY <2>0, <2>2 DEF OwnRecord
  <2>7. At(r.path) = final[NameOf[w]] BY <2>6 DEF At, FinalPath
  <2>8. TrueOfDisk(r)
    BY <2>5, <2>6, <2>7, <1>11 DEF Verified, Matches, TrueOfDisk, Kept, Settled, Resting
  <2>9. Kept(r)' /\ TrueOfDisk(r)' BY <2>5, <2>8, KeptStays
  <2>10. r = OwnRecord(w)' BY <2>0, <1>11, SameRecord DEF Verified
  <2>11. QED
    BY <1>0, <1>1, <1>11, <2>1, <2>2, <2>4, <2>9, <2>10, RecordsOwn DEF Verified
<1>12. CASE NotVerified(w) BY <1>0, <1>1, <1>12, RecordsQuietOne DEF NotVerified, Fail
<1>13. QED
  BY <1>3, <1>4, <1>5, <1>6, <1>7, <1>8, <1>9, <1>10, <1>11, <1>12 DEF Finish

LEMMA RecordsWritten ==
    ASSUME Inv, Inv', Next, RecordsInv, NEW w \in Ops, WriteManifest(w)
    PROVE  RecordsInv' /\ (DistinctManifests /\ OnRecord => OnRecord')
<1> USE OpsAssumption DEF Goto, local, disk, Before, Writing, Reporting, Same
<1>0. /\ pc \in [Ops -> Phases] /\ report \in [Ops -> SUBSET Records]
      /\ manifests \in [ManifestNames -> Manifest \cup {None}]
  BY DEF Inv, TypeOK
<1> DEFINE M == [op |-> w, case |-> CaseOf[w], status |-> StatusOf(w), artifacts |-> report[w]]
<1>1. pc[w] = "manifest" /\ pc'[w] = "hashlist" /\ \A v \in Ops : v # w => pc'[v] = pc[v]
  BY <1>0 DEF WriteManifest
<1>2. UNCHANGED <<fatal, verdict, hashed, report, exit>> BY DEF WriteManifest
<1>3. manifests'[ManifestOf[w]] = M /\ M # None
  <2>1. M \in Manifest BY DEF Inv, TypeOK, Manifest, StatusOf, Verdicts
  <2>2. QED BY <1>0, <2>1, NoManifestAssumption DEF WriteManifest
<1>4. \A m \in ManifestNames : m # ManifestOf[w] => manifests'[m] = manifests[m]
  BY <1>0 DEF WriteManifest
<1>5. FatalAfterError' BY <1>1, <1>2 DEF RecordsInv, FatalAfterError
<1>6. NotFatalYet' BY <1>1, <1>2 DEF RecordsInv, NotFatalYet
<1>7. Exited' BY <1>1, <1>2 DEF RecordsInv, Exited
<1>8. \A v \in Ops : OwnRecord(v)' = OwnRecord(v) BY <1>2, SameRecord
<1>9. Reported' BY <1>1, <1>2, <1>8 DEF RecordsInv, Reported
<1>10. ReportKept'
  <2> SUFFICES ASSUME NEW v \in Ops, NEW q \in report[v], q.origin = "writer"
               PROVE  /\ pc'[v] \in Reporting /\ fatal[v] = "none"
                      /\ q = OwnRecord(v) /\ Kept(q)'
                      /\ q.complete /\ v \in PostVerify /\ pc'[v] # "verify" => TrueOfDisk(q)'
    BY <1>2, <1>8 DEF ReportKept
  <2>1. q \in Records BY <1>0
  <2>2. QED BY <1>1, <2>1, KeptStays DEF RecordsInv, ReportKept
<1>11. ManifestKept'
  <2> SUFFICES ASSUME NEW m \in ManifestNames, manifests'[m] # None,
                      NEW r \in manifests'[m].artifacts, r.origin = "writer"
               PROVE  Kept(r)' /\ (r.complete /\ manifests'[m].op \in PostVerify => TrueOfDisk(r)')
    BY DEF ManifestKept, Existing
  <2>1. CASE m = ManifestOf[w]
    <3>1. r \in report[w] /\ manifests'[m].op = w BY <1>3, <2>1
    <3>2. r \in Records BY <1>0, <3>1
    <3>3. QED BY <1>1, <3>1, <3>2, KeptStays DEF RecordsInv, ReportKept
  <2>2. CASE m # ManifestOf[w]
    <3>1. manifests'[m] = manifests[m] BY <1>4, <2>2
    <3>2. r \in Records BY <1>0, <3>1 DEF Manifest
    <3>3. QED BY <3>1, <3>2, KeptStays DEF RecordsInv, ManifestKept, Existing
  <2>3. QED BY <2>1, <2>2
<1>12. DistinctManifests /\ OnRecord => OnRecord'
  <2> SUFFICES ASSUME DistinctManifests, OnRecord, NEW v \in Ops,
                      (pc'[v] = "hashlist" /\ fatal[v] = "none") \/ Plain(v)
               PROVE  OwnManifest(v)'
    BY <1>2 DEF OnRecord, Plain
  <2>1. CASE v = w
    <3>1. fatal[w] = "none" BY <1>1, <2>1 DEF RecordsInv, Exited, Plain
    <3>2. OwnRecord(w) \in report[w] BY <1>1, <3>1 DEF RecordsInv, Reported
    <3>3. StatusOf(w) = verdict[w] BY <3>1 DEF StatusOf
    <3>4. QED BY <1>2, <1>3, <1>8, <2>1, <3>2, <3>3 DEF OwnManifest
  <2>2. CASE v # w
    <3>1. ManifestOf[v] # ManifestOf[w] BY <2>2 DEF DistinctManifests
    <3>2. manifests'[ManifestOf[v]] = manifests[ManifestOf[v]] BY <1>4, <3>1
    <3>3. OwnManifest(v) BY <1>1, <2>2 DEF OnRecord
    <3>4. QED BY <1>2, <1>8, <3>2, <3>3 DEF OwnManifest
  <2>3. QED BY <2>1, <2>2
<1>13. QED BY <1>5, <1>6, <1>7, <1>9, <1>10, <1>11, <1>12 DEF RecordsInv

LEMMA RecordsExit ==
    ASSUME Inv, Inv', Next, RecordsInv, NEW w \in Ops, WriteHashList(w)
    PROVE  RecordsInv' /\ (OnRecord => OnRecord')
<1> USE OpsAssumption DEF Goto, Before, Writing, Reporting
<1>0. /\ pc \in [Ops -> Phases] /\ report \in [Ops -> SUBSET Records] /\ exit \in [Ops -> Exits]
      /\ fatal \in [Ops -> Failures]
  BY DEF Inv, TypeOK
<1>1. pc[w] = "hashlist" /\ pc'[w] = "done" /\ exit'[w] = ExitOf(w) /\ report'[w] = {}
  BY <1>0 DEF WriteHashList, Gone
<1>2. UNCHANGED <<fatal, verdict, hashed, manifests>> BY DEF WriteHashList
<1>3. \A v \in Ops : v # w => pc'[v] = pc[v] /\ exit'[v] = exit[v] /\ report'[v] = report[v]
  BY <1>0 DEF WriteHashList, Gone
<1>4. \A v \in Ops : OwnRecord(v)' = OwnRecord(v) BY <1>2, SameRecord
<1>5. FatalAfterError' BY <1>1, <1>2, <1>3 DEF RecordsInv, FatalAfterError
<1>6. NotFatalYet' BY <1>1, <1>2, <1>3 DEF RecordsInv, NotFatalYet
<1>7. fatal[w] = "none" => verdict[w] \in CompleteVerdicts \cup Stopped
  BY <1>1 DEF RecordsInv, Reported
<1>8. Exited'
  <2>1. /\ exit'[w] \in {"ok", "failed"} => fatal[w] = "none"
        /\ exit'[w] = "ok" => verdict[w] \in CompleteVerdicts
        /\ exit'[w] = "failed" => verdict[w] = "failed"
        /\ exit'[w] = "interrupted" /\ fatal[w] = "none" => verdict[w] = "cancelled"
    BY <1>0, <1>1, <1>7 DEF ExitOf, Stopped, CompleteVerdicts, Failures
  <2>2. QED BY <1>1, <1>2, <1>3, <2>1 DEF RecordsInv, Exited
<1>9. Reported' BY <1>1, <1>2, <1>3, <1>4 DEF RecordsInv, Reported
<1>10. ReportKept'
  <2> SUFFICES ASSUME NEW v \in Ops, v # w, NEW q \in report[v], q.origin = "writer"
               PROVE  /\ pc[v] \in Reporting /\ fatal[v] = "none"
                      /\ q = OwnRecord(v) /\ Kept(q)'
                      /\ q.complete /\ v \in PostVerify /\ pc[v] # "verify" => TrueOfDisk(q)'
    BY <1>1, <1>2, <1>3, <1>4 DEF ReportKept
  <2>1. q \in Records BY <1>0
  <2>2. QED BY <2>1, KeptStays DEF RecordsInv, ReportKept
<1>11. ManifestKept' BY <1>2, ManifestsStay DEF RecordsInv
<1>12. OnRecord => OnRecord'
  <2> SUFFICES ASSUME OnRecord, NEW v \in Ops,
                      (pc'[v] = "hashlist" /\ fatal[v] = "none") \/ Plain(v)'
               PROVE  OwnManifest(v)'
    BY <1>2 DEF OnRecord, Plain
  <2>1. v = w => fatal[w] = "none" BY <1>0, <1>1, <1>2 DEF ExitOf, Plain, Failures
  <2>2. CASE v = w
    <3>1. pc[w] = "hashlist" /\ fatal[w] = "none" BY <1>1, <2>1, <2>2
    <3>2. QED BY <1>2, <1>4, <2>2, <3>1 DEF OnRecord, OwnManifest
  <2>3. CASE v # w
    <3>1. pc'[v] = pc[v] /\ exit'[v] = exit[v] /\ fatal'[v] = fatal[v] BY <1>2, <1>3, <2>3
    <3>2. OwnManifest(v) BY <1>2, <3>1 DEF OnRecord, Plain
    <3>3. QED BY <1>2, <1>4, <3>2 DEF OwnManifest
  <2>4. QED BY <2>2, <2>3
<1>13. QED BY <1>5, <1>6, <1>8, <1>9, <1>10, <1>11, <1>12 DEF RecordsInv

LEMMA RecordsLater ==
    ASSUME Inv, Inv', Next, RecordsInv, NEW w \in Ops,
           AdoptResidue(w) \/ Document(w) \/ Environment(w)
    PROVE  RecordsInv' /\ (DistinctManifests /\ OnRecord => OnRecord')
<1> USE OpsAssumption DEF Goto, local, disk, Before, Writing, Reporting, Same
<1>0. /\ pc \in [Ops -> Phases] /\ fatal \in [Ops -> Failures] /\ verdict \in [Ops -> Verdicts]
      /\ hashed \in [Ops -> Nat] /\ report \in [Ops -> SUBSET Records] /\ exit \in [Ops -> Exits]
  BY DEF Inv, TypeOK
<1>1. /\ pc[w] \in {"residue", "list", "adopt"} =>
           fatal[w] # "none" /\ \A r \in report[w] : r.origin # "writer"
      /\ pc[w] # "done" => exit[w] = "none"
  BY DEF RecordsInv, FatalAfterError, ReportKept, Exited
<1>2. CASE LoadRecorded(w) BY <1>0, <1>1, <1>2, RecordsQuietOne DEF LoadRecorded
<1>3. CASE ListResidue(w) BY <1>0, <1>1, <1>3, RecordsQuietOne DEF ListResidue
<1>4. CASE AdoptOne(w)
  <2>1. \A r \in report'[w] : r.origin # "writer"
    <3>1. pc[w] = "adopt" /\ \A r \in report[w] : r.origin # "writer"
      BY <1>1, <1>4 DEF AdoptOne
    <3>2. TypeOK BY DEF Inv
    <3>3. PICK p \in Todo(w) : /\ AdoptRecord(p).origin # "writer"
                              /\ report'[w] = report[w] \cup {AdoptRecord(p)}
      BY <1>4, <3>2, AdoptsOne
    <3>4. QED BY <3>1, <3>3
  <2>2. /\ \A v \in Ops : v # w => report'[v] = report[v]
        /\ UNCHANGED <<pc, fatal, verdict, hashed, exit, manifests>>
    BY <1>0, <1>4 DEF AdoptOne
  <2>3. pc[w] = "adopt" BY <1>4 DEF AdoptOne
  <2>4. UNCHANGED manifests /\ (\A v \in Ops : v # w => Same(v)) BY <2>2
  <2>5. pc'[w] = "adopt" /\ fatal'[w] # "none" /\ exit'[w] = "none" BY <1>1, <2>2, <2>3
  <2>6. QED BY <2>1, <2>4, <2>5, RecordsQuietOne
<1>5. CASE AdoptFails(w) BY <1>0, <1>1, <1>5, RecordsQuietOne DEF AdoptFails, GiveUp, Gone
<1>6. CASE Adopted(w) BY <1>0, <1>1, <1>6, RecordsQuietOne DEF Adopted
<1>14. CASE AdoptCancelled(w)
  BY <1>0, <1>1, <1>14, RecordsQuietOne DEF AdoptCancelled, GiveUp, Gone
<1>7. CASE WriteManifest(w) BY <1>7, RecordsWritten
<1>8. CASE WriteManifestFails(w)
  BY <1>0, <1>1, <1>8, RecordsQuietOne DEF WriteManifestFails, GiveUp, Gone
<1>9. CASE WriteHashList(w) BY <1>9, RecordsExit
<1>10. CASE WriteHashListFails(w)
  BY <1>0, <1>1, <1>10, RecordsQuietOne DEF WriteHashListFails, GiveUp, Gone
<1>11. CASE Interrupt(w)
  <2> DEFINE W == {}
  <2>1. W \in SUBSET Ops /\ (\A v \in Ops \ W : Same(v)) /\ \A v \in W : FALSE
    BY <1>11 DEF Interrupt
  <2> HIDE DEF W
  <2>2. QED BY <1>11, <2>1, RecordsQuiet DEF Interrupt
<1>12. CASE Crash(w)
  BY <1>0, <1>1, <1>12, RecordsQuietOne DEF Crash, Gone, Running, Ended
<1>13. QED
  BY <1>2, <1>3, <1>4, <1>5, <1>6, <1>7, <1>8, <1>9, <1>10, <1>11, <1>12, <1>14
  DEF AdoptResidue, Document, Environment

LEMMA RecordsPower ==
    ASSUME Inv, Inv', Next, RecordsInv, PowerLoss
    PROVE  RecordsInv' /\ (OnRecord => OnRecord')
<1>1. pc \in [Ops -> Phases] BY DEF Inv, TypeOK
<1>2. \A v \in Ops : pc'[v] \in {"start", "done", "crashed"}
                     /\ (pc[v] \in {"start", "done"} => pc'[v] = pc[v])
                     /\ (pc'[v] = "start" => pc[v] = "start")
  BY <1>1 DEF PowerLoss, Running, Ended, Phases
<1>3. \A v \in Ops : report'[v] = {} BY DEF PowerLoss, Gone
<1>4. UNCHANGED <<hashed, verdict, fatal, exit, manifests>> BY DEF PowerLoss
<1>5. \A v \in Ops : exit[v] # "none" => pc[v] = "done" BY DEF RecordsInv, Exited
<1>6. \A v \in Ops : pc[v] = "start" => fatal[v] = "none" BY DEF RecordsInv, NotFatalYet, Before
<1>7. QED
  BY <1>2, <1>3, <1>4, <1>5, <1>6, RecordsQuiet, Ops \in SUBSET Ops
  DEF Before, Writing, Reporting

LEMMA RecordsInit == Init => RecordsInv /\ OnRecord
BY DEF Init, RecordsInv, FatalAfterError, NotFatalYet, Exited, Reported, ReportKept,
       ManifestKept, OnRecord, Plain, Existing, Reporting

LEMMA RecordsStep ==
    Inv /\ RecordsInv /\ [Next]_vars => RecordsInv' /\ (DistinctManifests /\ OnRecord => OnRecord')
<1> SUFFICES ASSUME Inv, RecordsInv, [Next]_vars
             PROVE  RecordsInv' /\ (DistinctManifests /\ OnRecord => OnRecord')
  OBVIOUS
<1>1. Inv' BY InvStep
<1>2. CASE UNCHANGED vars
  BY <1>2 DEF vars, local, disk, RecordsInv, FatalAfterError, NotFatalYet, Exited, Reported,
              ReportKept, ManifestKept, OnRecord, Plain, OwnManifest, Existing, Kept, Settled, Resting,
              TrueOfDisk, At, OwnRecord, TransferDigest
<1>3. CASE Next
  <2>1. CASE PowerLoss BY <1>1, <1>3, <2>1, RecordsPower
  <2>2. ASSUME NEW w \in Ops,
               Open(w) \/ Transfer(w) \/ Finish(w) \/ AdoptResidue(w) \/ Document(w)
                 \/ Environment(w)
        PROVE  RecordsInv' /\ (DistinctManifests /\ OnRecord => OnRecord')
    BY <1>1, <1>3, <2>2, RecordsOpen, RecordsFinish, RecordsLater
  <2>3. QED BY <1>3, <2>1, <2>2 DEF Next
<1>4. QED BY <1>2, <1>3

LEMMA RecordsInvariance == Spec => []RecordsInv
<1>1. Inv /\ RecordsInv /\ [Next]_vars => RecordsInv' BY RecordsStep
<1>2. QED BY <1>1, RecordsInit, Invariance, PTL DEF Spec

(* What a command recorded of its own transfer is what is on disk, whatever *)
(* ran at the same time and wherever it was killed.                        *)
THEOREM RecordsDescribeTheDisk == Spec => []WriterRecordsTrue
<1>1. RecordsInv => WriterRecordsTrue
  BY DEF RecordsInv, ManifestKept, WriterRecordsTrue, Kept, Settled, Resting
<1>2. QED BY <1>1, RecordsInvariance, PTL

-----------------------------------------------------------------------------
(* Every record.  A step changes what one command says, and manifests only *)
(* by adding that command's own; a record enters a report as the command's *)
(* own (ReportKept) or by adoption (Holds), and either way what it says of *)
(* its file is kept by every later step.                                   *)
StepOf(w) ==
    \/ Open(w) \/ Transfer(w) \/ Finish(w) \/ AdoptResidue(w) \/ Document(w) \/ Environment(w)

Begun == \A n \in Names : partial[n] # None => pc[partial[n].by] \notin Before
Written ==
    \A m \in Existing :
        /\ ManifestOf[manifests[m].op] = m
        /\ pc[manifests[m].op] \in {"hashlist", "done", "crashed"}

(* What stays true of an adopted record.                                   *)
StillThere(r) ==
    \E p \in {r.path, FinalPath(r.path.name)} : At(p) # None /\ At(p).by = r.digest.by
Holds(r) ==
    /\ r.path.kind = "final" => r.origin = "settled"
    /\ r.origin = "settled" => Settled(At(r.path)) /\ TrueOfDisk(r)
    /\ r.origin = "unsynced" =>
         /\ Resting(At(r.path))
         /\ At(r.path).by = r.digest.by /\ At(r.path).len <= r.digest.len
         /\ "power" \notin Faults => TrueOfDisk(r)
    /\ r.origin = "moving" => StillThere(r)
AllHold ==
    /\ \A w \in Ops : \A r \in report[w] : r.origin # "writer" => Holds(r)
    /\ \A m \in Existing : \A r \in manifests[m].artifacts : r.origin # "writer" => Holds(r)

LEMMA StepsOfOne == Next <=> PowerLoss \/ \E w \in Ops : StepOf(w)
BY DEF Next, StepOf

LEMMA OthersSame ==
    ASSUME Inv, NEW w \in Ops, StepOf(w), NEW v \in Ops, v # w
    PROVE  Same(v) /\ listed'[v] = listed[v] /\ recorded'[v] = recorded[v]
<1> USE DEF Goto, local, disk, Same
<1>0. /\ pc \in [Ops -> Phases] /\ fatal \in [Ops -> Failures] /\ verdict \in [Ops -> Verdicts]
      /\ hashed \in [Ops -> Nat] /\ report \in [Ops -> SUBSET Records] /\ exit \in [Ops -> Exits]
      /\ listed \in [Ops -> SUBSET Paths] /\ recorded \in [Ops -> SUBSET Paths]
  BY DEF Inv, TypeOK
<1>1. CASE Open(w)
  BY <1>0, <1>1 DEF Open, Start, StartRefused, CheckFinal, FinalTaken, Reserve, PartialTaken,
                    Fail, GiveUp, Gone
<1>2. CASE Transfer(w) BY <1>0, <1>2 DEF Transfer, WriteChunk, WriteFails, EndStream
<1>3. CASE Finish(w)
  BY <1>0, <1>3 DEF Finish, FlushComplete, FlushIncomplete, FlushAfterRelayError, FlushFails,
                    Recheck, Appeared, Rename, RenameFails, Verified, NotVerified, Fail
<1>4. CASE AdoptResidue(w)
  BY <1>0, <1>4 DEF AdoptResidue, LoadRecorded, ListResidue, AdoptOne, AdoptFails,
     AdoptCancelled, Adopted,
                    GiveUp, Gone
<1>5. CASE Document(w)
  BY <1>0, <1>5 DEF Document, WriteManifest, WriteManifestFails, WriteHashList,
                    WriteHashListFails, GiveUp, Gone
<1>6. CASE Environment(w) BY <1>0, <1>6 DEF Environment, Interrupt, Crash, Gone
<1>7. QED BY <1>1, <1>2, <1>3, <1>4, <1>5, <1>6 DEF StepOf

LEMMA ManifestsOnce ==
    ASSUME NEW w \in Ops, StepOf(w), ~WriteManifest(w) PROVE UNCHANGED manifests
BY DEF StepOf, Open, Transfer, Finish, AdoptResidue, Document, Environment, Start, StartRefused,
       CheckFinal, FinalTaken, Reserve, PartialTaken, WriteChunk, WriteFails, EndStream,
       FlushComplete, FlushIncomplete, FlushAfterRelayError, FlushFails, Recheck, Appeared,
       Rename, RenameFails, Verified, NotVerified, LoadRecorded, ListResidue, AdoptOne,
       AdoptFails, AdoptCancelled, Adopted, WriteManifestFails, WriteHashList, WriteHashListFails,
       Interrupt, Crash, disk

LEMMA ManifestAdded ==
    ASSUME Inv, NEW w \in Ops, WriteManifest(w)
    PROVE  /\ manifests'[ManifestOf[w]] # None /\ manifests'[ManifestOf[w]].op = w
           /\ manifests'[ManifestOf[w]].case = CaseOf[w]
           /\ manifests'[ManifestOf[w]].status = StatusOf(w)
           /\ manifests'[ManifestOf[w]].artifacts = report[w]
           /\ \A m \in ManifestNames : m # ManifestOf[w] => manifests'[m] = manifests[m]
<1> DEFINE M == [op |-> w, case |-> CaseOf[w], status |-> StatusOf(w), artifacts |-> report[w]]
<1>1. M \in Manifest BY OpsAssumption DEF Inv, TypeOK, Manifest, StatusOf, Verdicts
<1>2. QED BY <1>1, NoManifestAssumption, OpsAssumption DEF WriteManifest, Inv, TypeOK

(* Only create_new makes a .partial file, and only for its own command.    *)
LEMMA OnlyReserved ==
    ASSUME Inv, NEW w \in Ops, StepOf(w), ~Reserve(w), NEW n \in Names, partial[n] = None
    PROVE  partial'[n] = None
<1>0. partial \in [Names -> File \cup {None}] BY DEF Inv, TypeOK
<1>1. CASE Transfer(w) \/ Finish(w)
  <2>1. pc[w] \in Writing => Held(w) # None BY NoneAssumption DEF Inv, Owned
  <2>2. pc[w] \in Writing => n # NameOf[w] BY <2>1 DEF Held
  <2>3. QED
    BY <1>0, <1>1, <2>2 DEF Transfer, Finish, WriteChunk, WriteFails, EndStream, FlushComplete,
       FlushIncomplete, FlushAfterRelayError, FlushFails, Recheck, Appeared, Rename, RenameFails,
       Verified, NotVerified, Writing, disk
<1>2. CASE Open(w) \/ AdoptResidue(w) \/ Document(w) \/ Environment(w)
  BY <1>2 DEF Open, AdoptResidue, Document, Environment, Start, StartRefused, CheckFinal,
              FinalTaken, PartialTaken, LoadRecorded, ListResidue, AdoptOne, AdoptFails,
              AdoptCancelled, Adopted,
              WriteManifest, WriteManifestFails, WriteHashList, WriteHashListFails, Interrupt,
              Crash, disk
<1>3. QED BY <1>1, <1>2 DEF StepOf

LEMMA BegunStep == ASSUME Inv, Inv', Begun, [Next]_vars PROVE Begun'
<1>1. CASE UNCHANGED vars BY <1>1 DEF vars, disk, Begun
<1>2. CASE PowerLoss
  <2> SUFFICES ASSUME NEW n \in Names, partial'[n] # None PROVE pc'[partial'[n].by] \notin Before
    BY DEF Begun
  <2>1. partial[n] # None
    <3>1. PICK k \in 0 .. MaxChunks : partial' = CutFiles(partial, k) BY <1>2 DEF PowerLoss
    <3>2. QED BY <3>1 DEF CutFiles, Cut
  <2>2. partial'[n].by = partial[n].by BY <1>2, <2>1, PowerCuts
  <2>3. partial[n].by \in Ops BY <2>1 DEF Inv, TypeOK, File
  <2>4. pc[partial[n].by] \notin Before BY <2>1 DEF Begun
  <2>5. QED BY <1>2, <2>2, <2>3, <2>4 DEF PowerLoss, Inv, TypeOK, Before
<1>3. ASSUME NEW w \in Ops, StepOf(w) PROVE Begun'
  <2>0. pc \in [Ops -> Phases] BY DEF Inv, TypeOK
  <2>1. \A v \in Ops : pc[v] \notin Before => pc'[v] \notin Before
    <3> SUFFICES ASSUME NEW v \in Ops, pc[v] \notin Before PROVE pc'[v] \notin Before
      OBVIOUS
    <3>1. CASE v # w BY <1>3, <3>1, OthersSame DEF Same
    <3>2. CASE v = w /\ pc[w] \notin Writing
      BY <1>3, <3>2, PhasesForward, StepsOfOne
    <3>3. CASE v = w /\ pc[w] \in Writing
      <4>1. CASE Transfer(w) \/ Finish(w)
        BY <2>0, <3>3, <4>1 DEF Transfer, Finish, WriteChunk, WriteFails, EndStream, FlushComplete,
             FlushIncomplete, FlushAfterRelayError, FlushFails, Recheck, Appeared, Rename,
             RenameFails, Verified, NotVerified, Fail, Goto, Before, Writing
      <4>2. CASE Environment(w)
        BY <2>0, <3>3, <4>2 DEF Environment, Interrupt, Crash, Goto, Before, Writing
      <4>3. ~Open(w) /\ ~AdoptResidue(w) /\ ~Document(w)
        BY <3>3 DEF Open, AdoptResidue, Document, Start, StartRefused, CheckFinal, FinalTaken,
             Reserve, PartialTaken, LoadRecorded, ListResidue, AdoptOne, AdoptFails,
             AdoptCancelled, Adopted,
             WriteManifest, WriteManifestFails, WriteHashList, WriteHashListFails, Writing
      <4>4. QED BY <1>3, <4>1, <4>2, <4>3 DEF StepOf
    <3>4. QED BY <3>1, <3>2, <3>3
  <2> SUFFICES ASSUME NEW n \in Names, partial'[n] # None PROVE pc'[partial'[n].by] \notin Before
    BY DEF Begun
  <2>2. CASE partial[n] # None
    <3>1. partial[n].by \in Ops BY <2>2 DEF Inv, TypeOK, File
    <3>2. partial'[n].by = partial[n].by
      BY <1>3, <2>2, HolderTouches, OthersTouchNothing DEF StepOf, Extends
    <3>3. QED BY <2>1, <2>2, <3>1, <3>2 DEF Begun
  <2>3. CASE partial[n] = None
    <3>1. CASE Reserve(w)
      BY <2>0, <2>3, <3>1, OpsAssumption DEF Reserve, Goto, Before, Inv, TypeOK
    <3>2. CASE ~Reserve(w) BY <1>3, <2>3, <3>2, OnlyReserved
    <3>3. QED BY <3>1, <3>2
  <2>4. QED BY <2>2, <2>3
<1>4. QED BY <1>1, <1>2, <1>3, StepsOfOne

LEMMA WrittenStep == ASSUME Inv, Inv', Written, [Next]_vars PROVE Written'
<1> DEFINE Past == {"hashlist", "done", "crashed"}
<1>0. /\ pc \in [Ops -> Phases] /\ manifests \in [ManifestNames -> Manifest \cup {None}]
  BY DEF Inv, TypeOK
<1>1. \A m \in Existing : manifests[m].op \in Ops BY <1>0 DEF Existing, Manifest
<1>2. CASE UNCHANGED vars BY <1>2 DEF vars, disk, Written, Existing
<1>3. CASE PowerLoss
  <2>1. \A v \in Ops : pc[v] \in Past => pc'[v] \in Past BY <1>0, <1>3 DEF PowerLoss
  <2>2. UNCHANGED manifests BY <1>3 DEF PowerLoss
  <2>3. QED BY <1>1, <2>1, <2>2 DEF Written, Existing
<1>4. ASSUME NEW w \in Ops, StepOf(w) PROVE Written'
  <2>1. \A v \in Ops : pc[v] \in Past => pc'[v] \in Past
    <3>1. \A v \in Ops : v # w => pc'[v] = pc[v] BY <1>4, OthersSame DEF Same
    <3>2. pc[w] \in Past => Document(w) \/ Environment(w)
      BY <1>4 DEF StepOf, Open, Transfer, Finish, AdoptResidue, Start, StartRefused, CheckFinal,
         FinalTaken, Reserve, PartialTaken, WriteChunk, WriteFails, EndStream, FlushComplete,
         FlushIncomplete, FlushAfterRelayError, FlushFails, Recheck, Appeared, Rename,
         RenameFails, Verified, NotVerified, LoadRecorded, ListResidue, AdoptOne, AdoptFails,
         AdoptCancelled, Adopted
    <3>3. pc[w] \in Past => pc'[w] \in Past
      BY <1>0, <3>2 DEF Document, Environment, WriteManifest, WriteManifestFails, WriteHashList,
         WriteHashListFails, GiveUp, Interrupt, Crash, Goto
    <3>4. QED BY <3>1, <3>3
  <2>2. CASE WriteManifest(w)
    <3>1. pc'[w] \in Past BY <1>0, <2>2 DEF WriteManifest, Goto
    <3>2. QED BY <1>1, <2>1, <2>2, <3>1, ManifestAdded DEF Written, Existing
  <2>3. CASE ~WriteManifest(w)
    BY <1>1, <1>4, <2>1, <2>3, ManifestsOnce DEF Written, Existing
  <2>4. QED BY <2>2, <2>3
<1>5. QED BY <1>2, <1>3, <1>4, StepsOfOne

(* No manifest of a command that failed calls it complete, and what was    *)
(* streamed is under one of its two names.                                 *)
NotCalledComplete ==
    \A m \in Existing :
        fatal[manifests[m].op] # "none" => manifests[m].status \notin CompleteVerdicts
TransferKept == \A w \in Ops : verdict[w] # "none" => HeldAs(partial, w) \/ HeldAs(final, w)

LEMMA NotCalledCompleteStep ==
    ASSUME Inv, Written, NotCalledComplete, [Next]_vars PROVE NotCalledComplete'
<1>0. /\ pc \in [Ops -> Phases] /\ manifests \in [ManifestNames -> Manifest \cup {None}]
      /\ fatal \in [Ops -> Failures]
  BY DEF Inv, TypeOK
<1>1. \A m \in Existing : manifests[m].op \in Ops BY <1>0 DEF Existing, Manifest
<1>2. CASE UNCHANGED vars BY <1>2 DEF vars, local, disk, NotCalledComplete, Existing
<1>3. CASE PowerLoss BY <1>3 DEF PowerLoss, NotCalledComplete, Existing
<1>4. ASSUME NEW w \in Ops, StepOf(w) PROVE NotCalledComplete'
  <2>1. \A v \in Ops : v # w => fatal'[v] = fatal[v] BY <1>4, OthersSame DEF Same
  <2>2. pc[w] \in {"hashlist", "done", "crashed"} => fatal'[w] = fatal[w]
    <3>1. pc[w] \in {"hashlist", "done", "crashed"} => Document(w) \/ Environment(w)
      BY <1>4 DEF StepOf, Open, Transfer, Finish, AdoptResidue, Start, StartRefused, CheckFinal,
         FinalTaken, Reserve, PartialTaken, WriteChunk, WriteFails, EndStream, FlushComplete,
         FlushIncomplete, FlushAfterRelayError, FlushFails, Recheck, Appeared, Rename,
         RenameFails, Verified, NotVerified, LoadRecorded, ListResidue, AdoptOne, AdoptFails,
         AdoptCancelled, Adopted
    <3>2. QED
      BY <3>1 DEF Document, Environment, WriteManifest, WriteManifestFails, WriteHashList,
         WriteHashListFails, GiveUp, Interrupt, Crash, local
  <2>3. CASE WriteManifest(w)
    <3>1. fatal' = fatal BY <2>3 DEF WriteManifest, local
    <3>2. fatal[w] # "none" => StatusOf(w) \notin CompleteVerdicts
      BY DEF StatusOf, CompleteVerdicts
    <3>3. QED BY <2>3, <3>1, <3>2, ManifestAdded DEF NotCalledComplete, Existing
  <2>4. CASE ~WriteManifest(w)
    BY <1>1, <1>4, <2>1, <2>2, <2>4, ManifestsOnce DEF NotCalledComplete, Written, Existing
  <2>5. QED BY <2>3, <2>4
<1>5. QED BY <1>2, <1>3, <1>4, StepsOfOne

LEMMA TransferKeptStep == ASSUME Inv, Inv', TransferKept, [Next]_vars PROVE TransferKept'
<1>1. CASE UNCHANGED vars BY <1>1 DEF vars, local, disk, TransferKept, HeldAs
<1>2. CASE Next
  <2> SUFFICES ASSUME NEW w \in Ops, verdict'[w] # "none"
               PROVE  HeldAs(partial, w)' \/ HeldAs(final, w)'
    BY DEF TransferKept
  <2> DEFINE n == NameOf[w]
  <2>0. n \in Names /\ verdict \in [Ops -> Verdicts] BY OpsAssumption DEF Inv, TypeOK
  <2>1. HeldAs(partial, w) \/ HeldAs(final, w)
    <3>1. CASE verdict[w] # "none" BY <3>1 DEF TransferKept
    <3>2. CASE verdict[w] = "none"
      <4>1. ~PowerLoss BY <3>2 DEF PowerLoss
      <4>2. PICK v \in Ops : StepOf(v) BY <1>2, <4>1, StepsOfOne
      <4>3. v = w BY <3>2, <4>2, OthersSame DEF Same
      <4>4. Transfer(w)
        BY <3>2, <4>2, <4>3 DEF StepOf, Open, Finish, AdoptResidue, Document, Environment, Start,
           StartRefused, CheckFinal, FinalTaken, Reserve, PartialTaken, FlushComplete,
           FlushIncomplete, FlushAfterRelayError, FlushFails, Recheck, Appeared, Rename,
           RenameFails, Verified, NotVerified, LoadRecorded, ListResidue, AdoptOne, AdoptFails,
           AdoptCancelled, Adopted, WriteManifest, WriteManifestFails, WriteHashList,
           WriteHashListFails, Interrupt, Crash, Fail, GiveUp, local
      <4>5. pc[w] \in Writing BY <4>4 DEF Transfer, WriteChunk, WriteFails, EndStream, Writing
      <4>6. QED BY <4>5, NoneAssumption DEF Inv, Owned, Held, HeldAs
    <3>3. QED BY <3>1, <3>2
  <2>2. CASE HeldAs(final, w) BY <1>2, <2>0, <2>2, FinalKept DEF HeldAs
  <2>3. CASE HeldAs(partial, w) BY <1>2, <2>0, <2>3, NothingLost DEF HeldAs
  <2>4. QED BY <2>1, <2>2, <2>3
<1>3. QED BY <1>1, <1>2

(* An exit code says no more than the manifest and the disk do, if no two  *)
(* commands share a manifest name.                                         *)
THEOREM ExitCodesAreHonest ==
    ASSUME DistinctManifests PROVE Spec => []ExitMatchesEvidence
<1>1. Inv /\ RecordsInv /\ OnRecord /\ NotCalledComplete /\ TransferKept => ExitMatchesEvidence
  <2>1. ASSUME Inv, RecordsInv, OnRecord, NEW w \in Ops, Plain(w)
        PROVE  /\ exit[w] = "ok" =>
                    /\ Recorded(w, FinalPath(NameOf[w]), TRUE)
                    /\ ManifestWith(w, CompleteVerdicts)
                    /\ HeldAs(final, w)
                    /\ w \in PostVerify => DigestOf(final[NameOf[w]]) = TransferDigest(w)
               /\ exit[w] # "ok" =>
                    /\ Recorded(w, PartialPath(NameOf[w]), FALSE)
                    /\ ManifestWith(w, {IF exit[w] = "failed" THEN "failed" ELSE "cancelled"})
                    /\ HeldAs(partial, w)
    <3>1. OwnManifest(w) BY <2>1 DEF OnRecord
    <3>2. OwnRecord(w).origin = "writer" /\ OwnRecord(w).digest.by = w
          /\ OwnRecord(w).digest = TransferDigest(w)
      BY DEF OwnRecord, TransferDigest
    <3>3. ManifestOf[w] \in Existing BY <3>1, OpsAssumption DEF OwnManifest, Existing
    <3>4. /\ Kept(OwnRecord(w))
          /\ OwnRecord(w).complete /\ w \in PostVerify => TrueOfDisk(OwnRecord(w))
      BY <2>1, <3>1, <3>2, <3>3 DEF RecordsInv, ManifestKept, OwnManifest
    <3>5. CASE exit[w] = "ok"
      <4>1. verdict[w] \in CompleteVerdicts BY <2>1, <3>5 DEF RecordsInv, Exited
      <4>2. OwnRecord(w) = [path |-> FinalPath(NameOf[w]), digest |-> TransferDigest(w),
                            complete |-> TRUE, origin |-> "writer"]
        BY <4>1 DEF OwnRecord
      <4>3. At(OwnRecord(w).path) = final[NameOf[w]] BY <4>2 DEF At, FinalPath
      <4>4. QED
        BY <3>1, <3>2, <3>4, <3>5, <4>1, <4>2, <4>3
        DEF OwnManifest, Recorded, ManifestWith, HeldAs, Kept, Settled, Resting, TrueOfDisk
    <3>6. CASE exit[w] # "ok"
      <4>1. verdict[w] = IF exit[w] = "failed" THEN "failed" ELSE "cancelled"
        BY <2>1, <3>6 DEF Plain, RecordsInv, Exited
      <4>2. OwnRecord(w) = [path |-> PartialPath(NameOf[w]), digest |-> TransferDigest(w),
                            complete |-> FALSE, origin |-> "writer"]
        BY <4>1 DEF OwnRecord, CompleteVerdicts
      <4>3. At(OwnRecord(w).path) = partial[NameOf[w]] BY <4>2 DEF At, PartialPath
      <4>4. QED
        BY <3>1, <3>2, <3>4, <3>6, <4>1, <4>2, <4>3
        DEF OwnManifest, Recorded, ManifestWith, HeldAs, Kept, Settled, Resting
    <3>7. QED BY <3>5, <3>6
  <2>2. ASSUME NotCalledComplete, NEW w \in Ops, fatal[w] # "none"
        PROVE  ~ManifestWith(w, CompleteVerdicts)
    BY <2>2, OpsAssumption DEF NotCalledComplete, ManifestWith, Existing
  <2>3. QED BY <2>1, <2>2 DEF ExitMatchesEvidence, Plain, TransferKept
<1>2. Inv /\ RecordsInv /\ OnRecord /\ [Next]_vars => OnRecord' BY RecordsStep
<1>3. Inv /\ Written /\ [Next]_vars => Written' BY InvStep, WrittenStep
<1>4. Inv /\ Written /\ NotCalledComplete /\ [Next]_vars => NotCalledComplete'
  BY NotCalledCompleteStep
<1>5. Inv /\ TransferKept /\ [Next]_vars => TransferKept' BY InvStep, TransferKeptStep
<1>6. Init => Written /\ NotCalledComplete /\ TransferKept
  BY DEF Init, Written, NotCalledComplete, TransferKept, Existing
<1>7. QED
  BY <1>1, <1>2, <1>3, <1>4, <1>5, <1>6, RecordsInit, RecordsInvariance, Invariance, PTL
  DEF Spec

(* A record enters a report as the command's own or by adoption.           *)
LEMMA ReportSource ==
    ASSUME Inv, NEW w \in Ops, StepOf(w), NEW r \in report'[w], r \notin report[w]
    PROVE  \/ r.origin = "writer"
           \/ AdoptOne(w) /\ \E p \in Paths : At(p) # None /\ r = AdoptRecord(p)
<1> USE DEF Goto, local, disk
<1>0. report \in [Ops -> SUBSET Records] BY DEF Inv, TypeOK
<1>1. CASE Open(w) \/ Transfer(w)
  BY <1>0, <1>1 DEF Open, Transfer, Start, StartRefused, CheckFinal, FinalTaken, Reserve,
         PartialTaken, WriteChunk, WriteFails, EndStream, Fail, GiveUp, Gone
<1>2. CASE Finish(w)
  <2>1. CASE Rename(w)
    <3>1. report'[w] = {[path |-> FinalPath(NameOf[w]), digest |-> TransferDigest(w),
                         complete |-> TRUE, origin |-> "writer"]}
      BY <1>0, <2>1 DEF Rename
    <3>2. QED BY <3>1
  <2>2. CASE FlushIncomplete(w)
    <3>1. report'[w] = {[path |-> PartialPath(NameOf[w]), digest |-> TransferDigest(w),
                         complete |-> FALSE, origin |-> "writer"]}
      BY <1>0, <2>2 DEF FlushIncomplete
    <3>2. QED BY <3>1
  <2>3. CASE ~Rename(w) /\ ~FlushIncomplete(w)
    BY <1>0, <1>2, <2>3 DEF Finish, FlushComplete, FlushAfterRelayError, FlushFails, Recheck,
         Appeared, RenameFails, Verified, NotVerified, Fail
  <2>4. QED BY <2>1, <2>2, <2>3
<1>3. CASE AdoptOne(w)
  <2>1. PICK p \in Paths : At(p) # None /\ report'[w] = report[w] \cup {AdoptRecord(p)}
    BY <1>3, AdoptsOne DEF Inv
  <2>2. QED BY <1>3, <2>1
<1>4. CASE AdoptResidue(w) /\ ~AdoptOne(w)
  BY <1>0, <1>4 DEF AdoptResidue, LoadRecorded, ListResidue, AdoptFails, AdoptCancelled,
     Adopted, GiveUp, Gone
<1>5. CASE Document(w) \/ Environment(w)
  BY <1>0, <1>5 DEF Document, Environment, WriteManifest, WriteManifestFails, WriteHashList,
         WriteHashListFails, Interrupt, Crash, GiveUp, Gone
<1>6. QED BY <1>1, <1>2, <1>3, <1>4, <1>5 DEF StepOf

(* A file that a command is writing is still there after any step, under   *)
(* the name it had or under its final one.                                 *)
LEMMA NeverGone ==
    ASSUME Inv, Inv', Next, NEW r \in Records, StillThere(r) PROVE StillThere(r)'
<1> DEFINE n == r.path.name
<1>0. r.path \in Paths /\ n \in Names BY DEF Records, Paths
<1>1. PICK p \in {r.path, FinalPath(n)} : At(p) # None /\ At(p).by = r.digest.by
  BY DEF StillThere
<1>2. CASE p.kind = "final"
  <2>1. At(p) = final[n] BY <1>1, <1>2 DEF At, FinalPath
  <2>2. At(p)' = At(p) BY <1>0, <1>1, <1>2, <2>1, FinalKept DEF At, FinalPath
  <2>3. QED BY <1>1, <2>2 DEF StillThere
<1>3. CASE p.kind # "final"
  <2>1. p = r.path /\ At(p) = partial[n] /\ At(p)' = partial'[n]
    BY <1>1, <1>3 DEF At, FinalPath
  <2>2. At(FinalPath(n))' = final'[n] BY DEF At, FinalPath
  <2>3. partial[n] \in File BY <1>0, <1>1, <2>1 DEF Inv, TypeOK
  <2>4. \/ partial'[n] # None /\ partial'[n].by = partial[n].by
        \/ final'[n] = partial[n]
    <3>1. CASE PowerLoss BY <1>0, <1>1, <2>1, <3>1, PowerCuts
    <3>2. ASSUME NEW w \in Ops, Transfer(w) \/ Finish(w)
          PROVE  \/ partial'[n] # None /\ partial'[n].by = partial[n].by
                 \/ final'[n] = partial[n]
      BY <1>0, <1>1, <2>1, <3>2, HolderTouches DEF Extends
    <3>3. ASSUME NEW w \in Ops, Open(w) \/ AdoptResidue(w) \/ Document(w) \/ Environment(w)
          PROVE  partial'[n] = partial[n]
      BY <1>0, <1>1, <2>1, <3>3, OthersTouchNothing
    <3>4. QED BY <1>1, <2>1, <3>1, <3>2, <3>3 DEF Next
  <2>5. CASE partial'[n] # None /\ partial'[n].by = partial[n].by
    BY <1>1, <2>1, <2>5 DEF StillThere
  <2>6. CASE final'[n] = partial[n]
    BY <1>1, <2>1, <2>2, <2>6 DEF StillThere
  <2>7. QED BY <2>4, <2>5, <2>6
<1>4. QED BY <1>2, <1>3

(* Of a file at rest, a power loss takes only what was not synced.         *)
LEMMA RestingCut ==
    ASSUME Inv, Inv', PowerLoss, NEW p \in Paths, Resting(At(p))
    PROVE  Resting(At(p))' /\ At(p)'.by = At(p).by /\ At(p)'.len <= At(p).len
<1>0. p.name \in Names /\ At(p) # None BY DEF Paths, Resting
<1>1. At(p) \in File /\ At(p).by \in Ops BY <1>0, FileAt DEF Inv
<1>2. pc'[At(p).by] \notin Before \cup Writing BY <1>1, PhasesForward DEF Resting, Next
<1>3. CASE p.kind = "final"
  <2>1. At(p)' = At(p) BY <1>3, PowerLossStep DEF At, Inv
  <2>2. QED BY <1>0, <1>1, <1>2, <2>1 DEF Resting, File
<1>4. CASE p.kind # "final"
  <2>1. At(p) = partial[p.name] /\ At(p)' = partial'[p.name] BY <1>4 DEF At
  <2>2. At(p)' # None /\ At(p)'.by = At(p).by BY <1>0, <2>1, PowerCuts
  <2>3. At(p)'.len <= At(p).len
    <3>1. PICK k \in 0 .. MaxChunks : partial' = CutFiles(partial, k) BY DEF PowerLoss
    <3>2. At(p)' = Cut(At(p), k) BY <1>0, <2>1, <3>1 DEF CutFiles
    <3>3. CASE At(p)' = At(p) BY <1>1, <3>3 DEF File
    <3>4. CASE At(p)' # At(p)
      <4>1. At(p)' = [At(p) EXCEPT !.len = k] /\ ~(At(p).len < k) BY <3>2, <3>4 DEF Cut
      <4>2. At(p)'.len = k BY <1>1, <4>1 DEF File
      <4>3. QED BY <1>1, <4>1, <4>2, BoundAssumption DEF File
    <3>5. QED BY <3>3, <3>4
  <2>4. QED BY <1>2, <2>2, <2>3 DEF Resting
<1>5. QED BY <1>3, <1>4

LEMMA HoldsStays == ASSUME Inv, Inv', Next, NEW r \in Records, Holds(r) PROVE Holds(r)'
<1>0. r.path \in Paths /\ r.digest.len \in Nat BY DEF Records, Digest
<1>1. r.origin = "settled" => Settled(At(r.path))' /\ TrueOfDisk(r)'
  <2> SUFFICES ASSUME r.origin = "settled" PROVE Settled(At(r.path))' /\ TrueOfDisk(r)'
    OBVIOUS
  <2>1. Settled(At(r.path)) /\ TrueOfDisk(r) BY DEF Holds
  <2>2. At(r.path)' = At(r.path) /\ Resting(At(r.path))'
    BY <1>0, <2>1, RestingStays DEF Settled
  <2>3. QED BY <2>1, <2>2 DEF Settled, TrueOfDisk
<1>2. r.origin = "unsynced" =>
        /\ Resting(At(r.path))'
        /\ At(r.path)'.by = r.digest.by /\ At(r.path)'.len <= r.digest.len
        /\ "power" \notin Faults => TrueOfDisk(r)'
  <2> SUFFICES ASSUME r.origin = "unsynced"
               PROVE  /\ Resting(At(r.path))'
                      /\ At(r.path)'.by = r.digest.by /\ At(r.path)'.len <= r.digest.len
                      /\ "power" \notin Faults => TrueOfDisk(r)'
    OBVIOUS
  <2>1. /\ Resting(At(r.path))
        /\ At(r.path).by = r.digest.by /\ At(r.path).len <= r.digest.len
        /\ "power" \notin Faults => TrueOfDisk(r)
    BY DEF Holds
  <2>2. CASE ~PowerLoss
    <3>1. At(r.path)' = At(r.path) /\ Resting(At(r.path))' BY <1>0, <2>1, <2>2, RestingStays
    <3>2. QED BY <2>1, <3>1 DEF TrueOfDisk
  <2>3. CASE PowerLoss
    <3>1. /\ Resting(At(r.path))' /\ At(r.path)'.by = At(r.path).by
          /\ At(r.path)'.len <= At(r.path).len
      BY <1>0, <2>1, <2>3, RestingCut
    <3>2. At(r.path) # None /\ At(r.path)' # None BY <2>1, <3>1 DEF Resting
    <3>3. At(r.path) \in File /\ (At(r.path) \in File)'
      BY <1>0, <3>2, FileAt, r.path \in Paths DEF Inv, TypeOK, Paths, At
    <3>4. At(r.path)'.len \in Nat /\ At(r.path).len \in Nat BY <3>3 DEF File
    <3>5. "power" \in Faults BY <2>3 DEF PowerLoss
    <3>6. At(r.path)'.len <= r.digest.len BY <1>0, <2>1, <3>1, <3>4
    <3>7. QED BY <2>1, <3>1, <3>5, <3>6
  <2>4. QED BY <2>2, <2>3
<1>3. r.origin = "moving" => StillThere(r)' BY NeverGone DEF Holds
<1>4. QED BY <1>1, <1>2, <1>3 DEF Holds

(* What adoption records of a file holds from then on.                     *)
LEMMA AdoptedHolds ==
    ASSUME Inv, Begun, NEW p \in Paths, At(p) # None PROVE Holds(AdoptRecord(p))
<1>1. At(p) \in File /\ At(p).by \in Ops BY FileAt DEF Inv
<1>2. p.name \in Names BY DEF Paths
<1>3. pc[At(p).by] \notin Before BY <1>1, <1>2 DEF At, Inv, Published, Begun
<1>4. p.kind = "final" => At(p).synced /\ pc[At(p).by] \notin Writing
  BY <1>1, <1>2 DEF At, Inv, Published
<1> DEFINE r == AdoptRecord(p)
<1>5. r.path = p /\ r.digest = DigestOf(At(p)) /\ r.origin = OriginOf(At(p)) BY DEF AdoptRecord
<1>6. TrueOfDisk(r) BY <1>5 DEF TrueOfDisk
<1>7. r.digest.by = At(p).by /\ r.digest.len = At(p).len /\ At(p).len \in Nat
  BY <1>1, <1>5 DEF DigestOf, File
<1>8. StillThere(r) BY <1>5, <1>7 DEF StillThere
<1> HIDE DEF r
<1>9. r.origin = "settled" => Settled(At(p)) BY <1>3, <1>5 DEF OriginOf, Settled, Resting
<1>10. r.origin = "unsynced" => Resting(At(p)) BY <1>3, <1>5 DEF OriginOf, Resting
<1>11. p.kind = "final" => r.origin = "settled" BY <1>4, <1>5 DEF OriginOf
<1>12. Holds(r) BY <1>5, <1>6, <1>7, <1>8, <1>9, <1>10, <1>11 DEF Holds
<1>13. QED BY <1>12 DEF r

LEMMA AllHoldStep ==
    ASSUME Inv, Inv', Begun, AllHold, [Next]_vars PROVE AllHold'
<1>0. /\ report \in [Ops -> SUBSET Records] /\ manifests \in [ManifestNames -> Manifest \cup {None}]
  BY DEF Inv, TypeOK
<1>a. ASSUME UNCHANGED <<pc, final, partial>>, NEW r PROVE Holds(r) => Holds(r)'
  BY <1>a DEF Holds, StillThere, Settled, Resting, TrueOfDisk, At, FinalPath
<1>1. CASE UNCHANGED vars BY <1>a, <1>1 DEF vars, local, disk, AllHold, Existing
<1>2. CASE PowerLoss
  <2>1. Next BY <1>2 DEF Next
  <2>2. \A w \in Ops : report'[w] = {} BY <1>2 DEF PowerLoss, Gone
  <2>3. UNCHANGED manifests BY <1>2 DEF PowerLoss
  <2>4. ASSUME NEW m \in Existing, NEW r \in manifests[m].artifacts, r.origin # "writer"
        PROVE  Holds(r)'
    <3>1. r \in Records BY <1>0 DEF Existing, Manifest
    <3>2. QED BY <2>1, <2>4, <3>1, HoldsStays DEF AllHold
  <2>5. QED BY <2>2, <2>3, <2>4 DEF AllHold, Existing
<1>3. ASSUME NEW w \in Ops, StepOf(w) PROVE AllHold'
  <2>0. Next BY <1>3, StepsOfOne
  <2>1. ASSUME NEW v \in Ops, NEW r \in report'[v], r.origin # "writer" PROVE Holds(r)'
    <3>1. CASE r \in report[v]
      <4>1. r \in Records BY <1>0, <3>1
      <4>2. QED BY <2>0, <2>1, <3>1, <4>1, HoldsStays DEF AllHold
    <3>2. CASE r \notin report[v]
      <4>1. v = w BY <1>3, <2>1, <3>2, OthersSame DEF Same
      <4>2. PICK p \in Paths : AdoptOne(w) /\ At(p) # None /\ r = AdoptRecord(p)
        BY <1>3, <2>1, <3>2, <4>1, ReportSource
      <4>3. Holds(r) BY <4>2, AdoptedHolds
      <4>4. UNCHANGED <<pc, final, partial>> BY <4>2 DEF AdoptOne, disk
      <4>5. QED BY <1>a, <4>3, <4>4
    <3>3. QED BY <3>1, <3>2
  <2>2. ASSUME NEW m \in Existing', NEW r \in manifests'[m].artifacts, r.origin # "writer"
        PROVE  Holds(r)'
    <3>1. CASE m \in Existing /\ manifests'[m] = manifests[m]
      <4>1. r \in Records BY <1>0, <2>2, <3>1 DEF Existing, Manifest
      <4>2. QED BY <2>0, <2>2, <3>1, <4>1, HoldsStays DEF AllHold
    <3>2. CASE WriteManifest(w) /\ m = ManifestOf[w]
      <4>1. r \in report[w] BY <2>2, <3>2, ManifestAdded
      <4>2. r \in Records BY <1>0, <4>1
      <4>3. QED BY <2>0, <2>2, <4>1, <4>2, HoldsStays DEF AllHold
    <3>3. QED BY <1>3, <2>2, <3>1, <3>2, ManifestAdded, ManifestsOnce DEF Existing
  <2>3. QED BY <2>1, <2>2 DEF AllHold
<1>4. QED BY <1>1, <1>2, <1>3, StepsOfOne

LEMMA BegunInit == Init => Begun /\ Written /\ AllHold
BY DEF Init, Begun, Written, AllHold, Existing

LEMMA AllHoldInvariance == Spec => [](Begun /\ AllHold)
<1>1. Inv /\ Begun /\ AllHold /\ [Next]_vars => Begun' /\ AllHold'
  BY InvStep, BegunStep, AllHoldStep
<1>2. QED BY <1>1, BegunInit, Invariance, PTL DEF Spec

(* What every record of every manifest is worth, in every interleaving and *)
(* under every fault.                                                      *)
THEOREM EveryRecordTrue == Spec => []AllRecordsTrue
<1>1. Inv /\ RecordsInv /\ AllHold => AllRecordsTrue
  <2> SUFFICES ASSUME Inv, RecordsInv, AllHold, NEW m \in Existing,
                      NEW r \in manifests[m].artifacts
               PROVE  /\ r.path.kind = "final" => r.origin \in {"writer", "settled"}
                      /\ r.origin = "writer" => /\ At(r.path) # None
                                                /\ At(r.path).by = r.digest.by
                                                /\ At(r.path).len = r.digest.len
                      /\ r.origin = "settled" => TrueOfDisk(r)
                      /\ r.origin = "unsynced" =>
                           /\ At(r.path) # None
                           /\ At(r.path).by = r.digest.by /\ At(r.path).len <= r.digest.len
                           /\ "power" \notin Faults => TrueOfDisk(r)
                      /\ r.origin = "moving" => StillThere(r)
    BY DEF AllRecordsTrue, StillThere
  <2>1. CASE r.origin = "writer"
    BY <2>1 DEF RecordsInv, ManifestKept, Kept, Settled, Resting
  <2>2. CASE r.origin # "writer" BY <2>2 DEF AllHold, Holds, Resting
  <2>3. QED BY <2>1, <2>2
<1>2. QED BY <1>1, AllHoldInvariance, RecordsInvariance, Invariance, PTL

-----------------------------------------------------------------------------
(* The residue.  Manifests are only added, when no two operations share a  *)
(* name, so that what a command found recorded stays recorded.             *)
Swept ==
    \A w \in Ops :
        /\ pc[w] \in {"list", "adopt"} => recorded[w] \subseteq RecordedPaths
        /\ pc[w] = "manifest" /\ fatal[w] # "none" => listed[w] \subseteq RecordedPaths \cup ReportPaths(w)

LEMMA Unwritten ==
    ASSUME DistinctManifests, Written, NEW w \in Ops, pc[w] = "manifest",
           \A m \in Existing : manifests[m].op \in Ops
    PROVE  manifests[ManifestOf[w]] = None
<1>1. SUFFICES ASSUME ManifestOf[w] \in Existing PROVE FALSE
  BY OpsAssumption DEF Existing
<1>2. ManifestOf[manifests[ManifestOf[w]].op] = ManifestOf[w] BY <1>1 DEF Written
<1>3. manifests[ManifestOf[w]].op = w BY <1>1, <1>2 DEF DistinctManifests
<1>4. QED BY <1>1, <1>3 DEF Written

LEMMA RecordedGrows ==
    ASSUME DistinctManifests, Inv, Written, NEW w \in Ops, StepOf(w)
    PROVE  RecordedPaths \subseteq RecordedPaths'
<1>1. CASE WriteManifest(w)
  <2>1. \A m \in Existing : manifests[m].op \in Ops BY DEF Existing, Manifest, Inv, TypeOK
  <2>2. manifests[ManifestOf[w]] = None BY <1>1, <2>1, Unwritten DEF WriteManifest
  <2>3. QED BY <1>1, <2>2, ManifestAdded DEF RecordedPaths
<1>2. CASE ~WriteManifest(w) BY <1>2, ManifestsOnce DEF RecordedPaths
<1>3. QED BY <1>1, <1>2

LEMMA SweptStep ==
    ASSUME DistinctManifests, Inv, RecordsInv, Written, Swept, [Next]_vars PROVE Swept'
<1> USE DEF Goto, local, disk
<1>0. /\ pc \in [Ops -> Phases] /\ fatal \in [Ops -> Failures] /\ report \in [Ops -> SUBSET Records]
      /\ listed \in [Ops -> SUBSET Paths] /\ recorded \in [Ops -> SUBSET Paths]
  BY DEF Inv, TypeOK
<1>1. CASE UNCHANGED vars BY <1>1 DEF vars, Swept, RecordedPaths, ReportPaths
<1>2. CASE PowerLoss
  <2>1. \A v \in Ops : pc'[v] \in {"start", "done", "crashed"}
    BY <1>0, <1>2 DEF PowerLoss, Running, Ended, Phases
  <2>2. QED BY <2>1 DEF Swept
<1>3. ASSUME NEW w \in Ops, StepOf(w) PROVE Swept'
  <2> DEFINE SweptOf(v) ==
        /\ pc[v] \in {"list", "adopt"} => recorded[v] \subseteq RecordedPaths
        /\ pc[v] = "manifest" /\ fatal[v] # "none" => listed[v] \subseteq RecordedPaths \cup ReportPaths(v)
  <2>1. RecordedPaths \subseteq RecordedPaths' BY <1>3, RecordedGrows
  <2>2. ASSUME NEW v \in Ops, v # w PROVE SweptOf(v)'
    BY <1>3, <2>1, <2>2, OthersSame DEF Swept, Same, ReportPaths
  <2>3. SweptOf(w)'
    <3>1. CASE LoadRecorded(w)
      <4>1. RecordedPaths' = RecordedPaths BY <3>1 DEF LoadRecorded, RecordedPaths
      <4>2. QED BY <1>0, <3>1, <4>1 DEF LoadRecorded
    <3>2. CASE ListResidue(w) BY <1>0, <2>1, <3>2 DEF ListResidue, Swept
    <3>3. CASE AdoptOne(w) BY <1>0, <2>1, <3>3 DEF AdoptOne, Swept
    <3>4. CASE Adopted(w)
      <4>1. pc[w] = "adopt" /\ Todo(w) = {} /\ pc'[w] = "manifest" BY <1>0, <3>4 DEF Adopted
      <4>2. ReportPaths(w)' = ReportPaths(w) /\ listed'[w] = listed[w]
        BY <3>4 DEF Adopted, ReportPaths
      <4>3. listed[w] \subseteq recorded[w] \cup ReportPaths(w) BY <4>1 DEF Todo
      <4>4. QED BY <2>1, <4>1, <4>2, <4>3 DEF Swept
    <3>5. CASE Interrupt(w) BY <2>1, <3>5 DEF Interrupt, Swept, ReportPaths
    <3>6. CASE Finish(w)
      <4>1. pc[w] \in Writing \cup {"verify"} /\ pc'[w] \notin {"list", "adopt"}
        BY <1>0, <3>6 DEF Finish, FlushComplete, FlushIncomplete, FlushAfterRelayError, FlushFails,
           Recheck, Appeared, Rename, RenameFails, Verified, NotVerified, Fail, Writing
      <4>2. fatal[w] = "none" BY <4>1 DEF RecordsInv, NotFatalYet
      <4>3. pc'[w] = "manifest" => fatal'[w] = "none"
        BY <1>0, <3>6, <4>2 DEF Finish, FlushComplete, FlushIncomplete, FlushAfterRelayError,
           FlushFails, Recheck, Appeared, Rename, RenameFails, Verified, NotVerified, Fail
      <4>4. QED BY <4>1, <4>3
    <3>7. CASE Open(w) \/ Transfer(w) \/ AdoptFails(w) \/ AdoptCancelled(w)
               \/ Document(w) \/ Crash(w)
      <4>1. pc'[w] \notin {"list", "adopt", "manifest"}
        BY <1>0, <3>7 DEF Open, Transfer, AdoptFails, AdoptCancelled, Document, Crash, Start,
           StartRefused,
           CheckFinal, FinalTaken, Reserve, PartialTaken, WriteChunk, WriteFails, EndStream,
           WriteManifest, WriteManifestFails, WriteHashList, WriteHashListFails, Fail, GiveUp
      <4>2. QED BY <4>1
    <3>8. QED
      BY <1>3, <3>1, <3>2, <3>3, <3>4, <3>5, <3>6, <3>7 DEF StepOf, AdoptResidue, Environment
  <2>4. QED BY <2>2, <2>3 DEF Swept
<1>4. QED BY <1>1, <1>2, <1>3, StepsOfOne

-----------------------------------------------------------------------------
(* Commands that do not overlap.  Only one is running, so nobody writes or *)
(* records anything between its case check, its listing of the directory   *)
(* and its manifest.                                                       *)
Serial == \A v, w \in Ops : Running(v) /\ Running(w) => v = w
Belongs == \A w \in Ops : Running(w) => SameCase(w)
AllListed ==
    \A w \in Ops :
        pc[w] = "adopt" \/ (pc[w] = "manifest" /\ fatal[w] # "none") => ClassFiles(w) \subseteq listed[w]

LEMMA Alone ==
    ASSUME ~Overlap, Inv, Serial, NEW w \in Ops, StepOf(w)
    PROVE  /\ \A v \in Ops : v # w => ~Running(v) /\ ~Running(v)'
           /\ Running(w)' /\ ~Running(w) => Start(w)
<1>1. Running(w) \/ MayStart(w)
  BY DEF StepOf, Open, Transfer, Finish, AdoptResidue, Document, Environment, Start, StartRefused,
         CheckFinal, FinalTaken, Reserve, PartialTaken, WriteChunk, WriteFails, EndStream,
         FlushComplete, FlushIncomplete, FlushAfterRelayError, FlushFails, Recheck, Appeared,
         Rename, RenameFails, Verified, NotVerified, LoadRecorded, ListResidue, AdoptOne,
         AdoptFails, AdoptCancelled, Adopted, WriteManifest, WriteManifestFails, WriteHashList,
         WriteHashListFails, Interrupt, Crash, Running, Ended
<1>2. \A v \in Ops : v # w => ~Running(v) BY <1>1 DEF Serial, MayStart
<1>3. \A v \in Ops : v # w => pc'[v] = pc[v] BY OthersSame DEF Same
<1>4. Running(w)' /\ ~Running(w) => Start(w)
  <2>1. CASE StartRefused(w)
    BY <2>1 DEF StartRefused, GiveUp, Goto, Running, Ended, Inv, TypeOK
  <2>2. CASE ~StartRefused(w)
    BY <2>2 DEF StepOf, Open, Transfer, Finish, AdoptResidue, Document, Environment, 
         CheckFinal, FinalTaken, Reserve, PartialTaken, WriteChunk, WriteFails, EndStream,
         FlushComplete, FlushIncomplete, FlushAfterRelayError, FlushFails, Recheck, Appeared,
         Rename, RenameFails, Verified, NotVerified, LoadRecorded, ListResidue, AdoptOne,
         AdoptFails, AdoptCancelled, Adopted, WriteManifest, WriteManifestFails, WriteHashList,
         WriteHashListFails, Interrupt, Crash, Running, Ended
  <2>3. QED BY <2>1, <2>2
<1>5. QED BY <1>2, <1>3, <1>4 DEF Running

(* A case directory has one case.                                          *)
OneByOne == Serial /\ Belongs /\ OneCase

LEMMA OneByOneStep ==
    ASSUME ~Overlap, Inv, OneByOne, [Next]_vars PROVE OneByOne'
<1>1. CASE UNCHANGED vars
  BY <1>1 DEF vars, local, disk, OneByOne, Serial, Belongs, OneCase, Running, SameCase, Existing
<1>2. CASE PowerLoss
  BY <1>2 DEF PowerLoss, OneByOne, Serial, Belongs, OneCase, Running, SameCase, Existing, Ended,
              Inv, TypeOK
<1>3. ASSUME NEW w \in Ops, StepOf(w) PROVE OneByOne'
  <2>1. \A v \in Ops : v # w => ~Running(v)' BY <1>3, Alone DEF OneByOne
  <2>2. Serial' BY <2>1 DEF Serial
  <2>3. CASE WriteManifest(w)
    <3>1. SameCase(w) BY <2>3 DEF WriteManifest, OneByOne, Belongs, Running, Ended
    <3>2. SameCase(w)' BY <2>3, <3>1, ManifestAdded DEF SameCase
    <3>3. Belongs' BY <2>1, <3>2 DEF Belongs
    <3>4. OneCase' BY <3>2 DEF OneCase, SameCase, Existing
    <3>5. QED BY <2>2, <3>3, <3>4 DEF OneByOne
  <2>4. CASE ~WriteManifest(w)
    <3>1. UNCHANGED manifests BY <1>3, <2>4, ManifestsOnce
    <3>2. Running(w)' => SameCase(w)
      BY <1>3, Alone DEF OneByOne, Belongs, Start
    <3>3. Belongs' BY <2>1, <3>1, <3>2 DEF Belongs, SameCase
    <3>4. OneCase' BY <3>1 DEF OneByOne, OneCase, Existing
    <3>5. QED BY <2>2, <3>3, <3>4 DEF OneByOne
  <2>5. QED BY <2>3, <2>4
<1>4. QED BY <1>1, <1>2, <1>3, StepsOfOne

LEMMA OneByOneInit == Init => OneByOne
BY DEF Init, OneByOne, Serial, Belongs, OneCase, Running, Existing

(* No command writes a manifest into the directory of another case, unless *)
(* it runs beside one that does.                                           *)
THEOREM OneCaseOnly == ASSUME ~Overlap PROVE Spec => []OneCase
<1>1. Inv /\ OneByOne /\ [Next]_vars => OneByOne' BY OneByOneStep
<1>2. OneByOne => OneCase BY DEF OneByOne
<1>3. QED BY <1>1, <1>2, OneByOneInit, Invariance, PTL DEF Spec

LEMMA AllListedStep ==
    ASSUME ~Overlap, Inv, RecordsInv, Serial, AllListed, [Next]_vars PROVE AllListed'
<1> USE DEF Goto, local, disk
<1>0. /\ pc \in [Ops -> Phases] /\ fatal \in [Ops -> Failures] /\ listed \in [Ops -> SUBSET Paths]
  BY DEF Inv, TypeOK
<1>1. CASE UNCHANGED vars BY <1>1 DEF vars, AllListed, ClassFiles, Present, At
<1>2. CASE PowerLoss
  <2>1. \A v \in Ops : pc'[v] \in {"start", "done", "crashed"}
    BY <1>0, <1>2 DEF PowerLoss, Running, Ended, Phases
  <2>2. QED BY <2>1 DEF AllListed
<1>3. ASSUME NEW w \in Ops, StepOf(w) PROVE AllListed'
  <2>1. \A v \in Ops : v # w => ~Running(v)' BY <1>3, Alone
  <2>2. SUFFICES ASSUME pc'[w] = "adopt" \/ (pc'[w] = "manifest" /\ fatal'[w] # "none")
                 PROVE  ClassFiles(w)' \subseteq listed'[w]
    BY <2>1 DEF AllListed, Running, Ended
  <2>3. ListResidue(w) \/ AdoptOne(w) \/ Adopted(w) \/ Interrupt(w)
    <3>1. ~Finish(w)
      <4>1. Finish(w) => pc[w] \in Writing \cup {"verify"} /\ pc'[w] # "adopt"
        BY <1>0 DEF Finish, FlushComplete, FlushIncomplete, FlushAfterRelayError, FlushFails,
           Recheck, Appeared, Rename, RenameFails, Verified, NotVerified, Fail, Writing
      <4>2. pc[w] \in Writing \cup {"verify"} => fatal[w] = "none" BY DEF RecordsInv, NotFatalYet
      <4>3. Finish(w) /\ pc'[w] = "manifest" /\ fatal[w] = "none" => fatal'[w] = "none"
        BY <1>0 DEF Finish, FlushComplete, FlushIncomplete, FlushAfterRelayError, FlushFails,
           Recheck, Appeared, Rename, RenameFails, Verified, NotVerified, Fail
      <4>4. QED BY <2>2, <4>1, <4>2, <4>3
    <3>2. ~(Open(w) \/ Transfer(w) \/ LoadRecorded(w) \/ AdoptFails(w)
            \/ AdoptCancelled(w) \/ Document(w) \/ Crash(w))
      BY <1>0, <2>2 DEF Open, Transfer, LoadRecorded, AdoptFails, AdoptCancelled, Document,
         Crash, Start,
         StartRefused, CheckFinal, FinalTaken, Reserve, PartialTaken, WriteChunk, WriteFails,
         EndStream, WriteManifest, WriteManifestFails, WriteHashList, WriteHashListFails, Fail,
         GiveUp
    <3>3. QED BY <1>3, <3>1, <3>2 DEF StepOf, AdoptResidue, Environment
  <2>4. UNCHANGED <<final, partial>> BY <2>3 DEF ListResidue, AdoptOne, Adopted, Interrupt
  <2>5. ClassFiles(w)' = ClassFiles(w) BY <2>4 DEF ClassFiles, Present, At
  <2>6. CASE ListResidue(w) BY <1>0, <2>5, <2>6 DEF ListResidue
  <2>7. CASE AdoptOne(w) BY <2>5, <2>7 DEF AdoptOne, AllListed
  <2>8. CASE Adopted(w) BY <2>5, <2>8 DEF Adopted, AllListed
  <2>9. CASE Interrupt(w) BY <2>2, <2>5, <2>9 DEF Interrupt, AllListed
  <2>10. QED BY <2>3, <2>6, <2>7, <2>8, <2>9
<1>4. QED BY <1>1, <1>2, <1>3, StepsOfOne

(* A failed command that comes to its manifest leaves no file of its       *)
(* evidence id that it found in the directory without a record, whatever   *)
(* ran at the same time; and if nothing did, none that is there.           *)
THEOREM NothingLeftUnrecorded ==
    ASSUME DistinctManifests PROVE Spec => ResidueSwept
<1> DEFINE Sweeps(w) ==
             pc[w] = "manifest" /\ pc'[w] = "hashlist" /\ fatal[w] # "none" =>
               /\ listed[w] \subseteq RecordedPaths'
               /\ ~Overlap => ClassFiles(w) \subseteq RecordedPaths'
           SerialInv == ~Overlap => OneByOne /\ AllListed
<1>1. Inv /\ Written /\ Swept /\ SerialInv /\ [Next]_vars => [\A w \in Ops : Sweeps(w)]_vars
  <2> SUFFICES ASSUME Inv, Written, Swept, SerialInv, Next, NEW w \in Ops,
                      pc[w] = "manifest", pc'[w] = "hashlist", fatal[w] # "none"
               PROVE  /\ listed[w] \subseteq RecordedPaths'
                      /\ ~Overlap => ClassFiles(w) \subseteq RecordedPaths'
    BY DEF vars
  <2>0. pc \in [Ops -> Phases] /\ manifests \in [ManifestNames -> Manifest \cup {None}]
    BY DEF Inv, TypeOK
  <2>1. WriteManifest(w)
    <3>1. ~PowerLoss BY <2>0 DEF PowerLoss
    <3>2. PICK v \in Ops : StepOf(v) BY <3>1, StepsOfOne
    <3>3. v = w BY <3>2, OthersSame DEF Same
    <3>4. Document(w) \/ Environment(w)
      BY <3>2, <3>3 DEF StepOf, Open, Transfer, Finish, AdoptResidue, Start, StartRefused,
         CheckFinal, FinalTaken, Reserve, PartialTaken, WriteChunk, WriteFails, EndStream,
         FlushComplete, FlushIncomplete, FlushAfterRelayError, FlushFails, Recheck, Appeared,
         Rename, RenameFails, Verified, NotVerified, LoadRecorded, ListResidue, AdoptOne,
         AdoptFails, AdoptCancelled, Adopted
    <3>5. QED
      BY <2>0, <3>4 DEF Document, Environment, WriteManifestFails, WriteHashList,
         WriteHashListFails, Interrupt, Crash, GiveUp, Goto
  <2>2. listed[w] \subseteq RecordedPaths \cup ReportPaths(w) BY DEF Swept
  <2>3. ReportPaths(w) \subseteq RecordedPaths'
    BY <2>1, ManifestAdded, OpsAssumption DEF ReportPaths, RecordedPaths
  <2>4. RecordedPaths \subseteq RecordedPaths'
    BY <2>1, RecordedGrows DEF StepOf, Document
  <2>5. listed[w] \subseteq RecordedPaths' BY <2>2, <2>3, <2>4
  <2>6. ~Overlap => ClassFiles(w) \subseteq listed[w] BY DEF AllListed
  <2>7. QED BY <2>5, <2>6
<1>2. Inv /\ RecordsInv /\ Written /\ Swept /\ [Next]_vars => Written' /\ Swept'
  BY InvStep, WrittenStep, SweptStep
<1>3. Inv /\ RecordsInv /\ SerialInv /\ [Next]_vars => SerialInv'
  BY OneByOneStep, AllListedStep DEF OneByOne
<1>4. Init => SerialInv /\ Written /\ Swept
  BY BegunInit, OneByOneInit DEF Init, AllListed, Swept
<1> HIDE DEF SerialInv
<1>5. QED BY <1>1, <1>2, <1>3, <1>4, RecordsInvariance, Invariance, PTL DEF Spec, ResidueSwept

-----------------------------------------------------------------------------
(* How far the missing manifest reaches.  If no call of the file system    *)
(* fails, the one place a command can end without its manifest is          *)
(* adopt_residue, which gives up when its token is set or when a file it   *)
(* listed has another name by the time it is hashed.                       *)
Undocumented(w) ==
    pc[w] = "done" /\ (fatal[w] # "none" \/ verdict[w] # "none") /\ manifests[ManifestOf[w]] = None
ResidueMayFail == "interrupt" \in Faults \/ Overlap

NoSignal == \A w \in Ops : cancel[w] => "interrupt" \in Faults
StillListed == \A w \in Ops : pc[w] = "adopt" => listed[w] \subseteq Present
DocumentedOf(w) ==
    /\ pc[w] = "hashlist" => manifests[ManifestOf[w]] # None
    /\ Undocumented(w) => fatal[w] # "none" /\ ResidueMayFail
Documented == \A w \in Ops : DocumentedOf(w)

LEMMA NoSignalStep == ASSUME Inv, NoSignal, [Next]_vars PROVE NoSignal'
<1> USE DEF Goto, local, disk, NoSignal
<1>0. cancel \in [Ops -> BOOLEAN] BY DEF Inv, TypeOK
<1>1. CASE UNCHANGED vars BY <1>1 DEF vars
<1>2. CASE PowerLoss BY <1>2 DEF PowerLoss, Gone
<1>3. ASSUME NEW w \in Ops, StepOf(w) PROVE NoSignal'
  <2>1. CASE Interrupt(w) BY <1>0, <2>1 DEF Interrupt
  <2>2. CASE Open(w)
    BY <2>2 DEF Open, Start, StartRefused, CheckFinal, FinalTaken, Reserve, PartialTaken, Fail,
                GiveUp, Gone
  <2>3. CASE Transfer(w) BY <2>3 DEF Transfer, WriteChunk, WriteFails, EndStream
  <2>4. CASE Finish(w)
    BY <2>4 DEF Finish, FlushComplete, FlushIncomplete, FlushAfterRelayError, FlushFails,
                Recheck, Appeared, Rename, RenameFails, Verified, NotVerified, Fail
  <2>5. CASE AdoptResidue(w) \/ Document(w) \/ Crash(w)
    BY <2>5 DEF AdoptResidue, Document, LoadRecorded, ListResidue, AdoptOne, AdoptFails,
       AdoptCancelled, Adopted,
                WriteManifest, WriteManifestFails, WriteHashList, WriteHashListFails, Crash,
                GiveUp, Gone
  <2>6. QED BY <1>3, <2>1, <2>2, <2>3, <2>4, <2>5 DEF StepOf, Environment
<1>4. QED BY <1>1, <1>2, <1>3, StepsOfOne

(* Nobody else renames a file that a command without company has listed.   *)
LEMMA StillListedStep ==
    ASSUME ~Overlap, Inv, Serial, StillListed, [Next]_vars PROVE StillListed'
<1> USE DEF Goto, local, disk
<1>0. pc \in [Ops -> Phases] /\ listed \in [Ops -> SUBSET Paths] BY DEF Inv, TypeOK
<1>1. CASE UNCHANGED vars BY <1>1 DEF vars, StillListed, Present, At
<1>2. CASE PowerLoss
  <2>1. \A v \in Ops : pc'[v] # "adopt" BY <1>0, <1>2 DEF PowerLoss, Running, Ended
  <2>2. QED BY <2>1 DEF StillListed
<1>3. ASSUME NEW w \in Ops, StepOf(w) PROVE StillListed'
  <2>1. \A v \in Ops : v # w => ~Running(v)' BY <1>3, Alone
  <2>2. SUFFICES ASSUME pc'[w] = "adopt" PROVE listed'[w] \subseteq Present'
    BY <2>1 DEF StillListed, Running, Ended
  <2>3. ListResidue(w) \/ AdoptOne(w) \/ Interrupt(w)
    BY <1>0, <1>3, <2>2 DEF StepOf, Open, Transfer, Finish, AdoptResidue, Document, Environment,
       Start, StartRefused, CheckFinal, FinalTaken, Reserve, PartialTaken, WriteChunk, WriteFails,
       EndStream, FlushComplete, FlushIncomplete, FlushAfterRelayError, FlushFails, Recheck,
       Appeared, Rename, RenameFails, Verified, NotVerified, LoadRecorded, AdoptFails,
       AdoptCancelled, Adopted,
       WriteManifest, WriteManifestFails, WriteHashList, WriteHashListFails, Crash, Fail, GiveUp
  <2>4. Present' = Present BY <2>3 DEF ListResidue, AdoptOne, Interrupt, Present, At
  <2>5. CASE ListResidue(w) BY <1>0, <2>4, <2>5 DEF ListResidue, ClassFiles
  <2>6. CASE AdoptOne(w) \/ Interrupt(w)
    <3>1. pc[w] = "adopt" /\ listed'[w] = listed[w] BY <2>2, <2>6 DEF AdoptOne, Interrupt
    <3>2. QED BY <2>4, <3>1 DEF StillListed
  <2>7. QED BY <2>3, <2>5, <2>6
<1>4. QED BY <1>1, <1>2, <1>3, StepsOfOne

LEMMA DocumentedStep ==
    ASSUME "io" \notin Faults, Inv, RecordsInv, WholeSource, NoSignal, ~Overlap => StillListed,
           Documented, [Next]_vars
    PROVE  Documented'
<1> USE DEF Goto, local, disk
<1>0. /\ pc \in [Ops -> Phases] /\ fatal \in [Ops -> Failures] /\ verdict \in [Ops -> Verdicts]
      /\ manifests \in [ManifestNames -> Manifest \cup {None}] /\ listed \in [Ops -> SUBSET Paths]
  BY DEF Inv, TypeOK
<1>1. CASE UNCHANGED vars BY <1>1 DEF vars, Documented, DocumentedOf, Undocumented
<1>2. CASE PowerLoss
  <2>1. \A v \in Ops : pc'[v] # "hashlist" /\ (pc'[v] = "done" => pc[v] = "done")
    BY <1>0, <1>2 DEF PowerLoss, Running, Ended
  <2>2. QED BY <1>2, <2>1 DEF PowerLoss, Documented, DocumentedOf, Undocumented
<1>3. ASSUME NEW w \in Ops, StepOf(w) PROVE Documented'
  <2>1. \A m \in ManifestNames : manifests[m] # None => manifests'[m] # None
    BY <1>3, ManifestAdded, ManifestsOnce
  <2>2. ASSUME NEW v \in Ops, v # w PROVE DocumentedOf(v)'
    <3>1. pc'[v] = pc[v] /\ fatal'[v] = fatal[v] /\ verdict'[v] = verdict[v]
      BY <1>3, <2>2, OthersSame DEF Same
    <3>2. QED BY <2>1, <3>1, OpsAssumption DEF Documented, DocumentedOf, Undocumented
  <2>3. DocumentedOf(w)'
    <3>1. CASE WriteManifest(w)
      BY <1>0, <3>1, ManifestAdded DEF WriteManifest, DocumentedOf, Undocumented
    <3>2. CASE WriteHashList(w) \/ WriteHashListFails(w)
      <4>1. pc[w] = "hashlist" /\ pc'[w] = "done"
        BY <1>0, <3>2 DEF WriteHashList, WriteHashListFails, GiveUp
      <4>2. manifests'[ManifestOf[w]] # None
        BY <2>1, <4>1, OpsAssumption DEF Documented, DocumentedOf
      <4>3. QED BY <4>2 DEF DocumentedOf, Undocumented
    <3>3. CASE StartRefused(w)
      <4>1. verdict'[w] = "none" /\ fatal'[w] = "none" /\ pc'[w] = "done"
        BY <1>0, <3>3 DEF StartRefused, GiveUp, WholeSource, RecordsInv, NotFatalYet, Before
      <4>2. QED BY <4>1 DEF DocumentedOf, Undocumented
    <3>4. CASE AdoptFails(w)
      <4>1. pc[w] = "adopt" /\ fatal'[w] # "none" /\ pc'[w] = "done"
        BY <1>0, <3>4 DEF AdoptFails, GiveUp, RecordsInv, FatalAfterError
      <4>2. PICK p \in Todo(w) : At(p) = None BY <3>4, <4>1 DEF AdoptFails
      <4>3. p \in listed[w] /\ p \notin Present BY <4>2 DEF Todo, Present
      <4>4. ResidueMayFail BY <4>1, <4>3 DEF StillListed, ResidueMayFail
      <4>5. QED BY <4>1, <4>4 DEF DocumentedOf, ResidueMayFail
    <3>9. CASE AdoptCancelled(w)
      <4>1. pc[w] = "adopt" /\ fatal'[w] # "none" /\ pc'[w] = "done" /\ cancel[w]
        BY <1>0, <3>9 DEF AdoptCancelled, GiveUp, RecordsInv, FatalAfterError
      <4>2. ResidueMayFail BY <4>1 DEF NoSignal, ResidueMayFail
      <4>3. QED BY <4>1, <4>2 DEF DocumentedOf, ResidueMayFail
    <3>5. CASE Interrupt(w)
      BY <3>5 DEF Interrupt, Documented, DocumentedOf, Undocumented
    <3>6. CASE Transfer(w) \/ Finish(w) \/ Crash(w) \/ Adopted(w) \/ AdoptOne(w)
               \/ LoadRecorded(w) \/ ListResidue(w) \/ (Open(w) /\ ~StartRefused(w))
      <4>1. pc'[w] \notin {"hashlist", "done"}
        BY <1>0, <3>6 DEF Transfer, Finish, Crash, Adopted, AdoptOne, LoadRecorded, ListResidue,
           Open, Start, CheckFinal, FinalTaken, Reserve, PartialTaken, WriteChunk, WriteFails,
           EndStream, FlushComplete, FlushIncomplete, FlushAfterRelayError, FlushFails, Recheck,
           Appeared, Rename, RenameFails, Verified, NotVerified, Fail
      <4>2. QED BY <4>1 DEF DocumentedOf, Undocumented
    <3>7. ~WriteManifestFails(w) BY DEF WriteManifestFails
    <3>8. QED
      BY <1>3, <3>1, <3>2, <3>3, <3>4, <3>5, <3>6, <3>7, <3>9 DEF StepOf, AdoptResidue, Document,
         Environment
  <2>4. QED BY <2>2, <2>3 DEF Documented
<1>4. QED BY <1>1, <1>2, <1>3, StepsOfOne

(* Without a failing call, a command that stored or tried to store         *)
(* something and ended has its manifest, but for one case: the backend     *)
(* returned an error, and a signal came or another command ran.  So a      *)
(* transfer that completed, was cancelled or failed on the device's side   *)
(* is documented whatever the signals and the other commands do.           *)
THEOREM OnlyResidueEndsWithoutManifest ==
    ASSUME "io" \notin Faults
    PROVE  Spec => [](\A w \in Ops : Undocumented(w) => fatal[w] # "none" /\ ResidueMayFail)
<1> DEFINE AloneInv == ~Overlap => OneByOne /\ StillListed
<1>1. Inv /\ RecordsInv /\ WholeSource /\ NoSignal /\ AloneInv /\ Documented /\ [Next]_vars
        => Documented'
  BY DocumentedStep
<1>2. Inv /\ AloneInv /\ [Next]_vars => AloneInv'
  BY OneByOneStep, StillListedStep DEF OneByOne
<1>3. Inv /\ NoSignal /\ [Next]_vars => NoSignal' BY NoSignalStep
<1>4. Init => WholeSource /\ NoSignal /\ AloneInv /\ Documented
  BY OneByOneInit
     DEF Init, WholeSource, NoSignal, StillListed, Documented, DocumentedOf, Undocumented
<1>5. Documented => \A w \in Ops : Undocumented(w) => fatal[w] # "none" /\ ResidueMayFail
  BY DEF Documented, DocumentedOf
<1> HIDE DEF AloneInv
<1>6. QED
  BY <1>1, <1>2, <1>3, <1>4, <1>5, WholeSourceStep, RecordsInvariance, Invariance, PTL DEF Spec

(* acquire.rs:14 holds of a command that nothing interrupts and that works *)
(* in the directory alone: its manifest is written on every path, failures *)
(* of the backend, crashes of earlier commands and power losses included.  *)
THEOREM ManifestWhenAlone ==
    ASSUME Faults \cap {"io", "interrupt"} = {}, ~Overlap
    PROVE  Spec => []ManifestOnEveryPath
<1>1. "io" \notin Faults /\ ~ResidueMayFail BY DEF ResidueMayFail
<1>2. (\A w \in Ops : Undocumented(w) => fatal[w] # "none" /\ ResidueMayFail) => ManifestOnEveryPath
  BY <1>1 DEF Undocumented, ManifestOnEveryPath
<1>3. Spec => [](\A w \in Ops : Undocumented(w) => fatal[w] # "none" /\ ResidueMayFail)
  BY <1>1, OnlyResidueEndsWithoutManifest
<1>4. QED BY <1>2, <1>3, PTL

-----------------------------------------------------------------------------
(* Every command comes to its end in a bounded number of its own steps,    *)
(* whatever the others do: there is no retry and no wait in it, and its    *)
(* two loops end, because the source has so many chunks, and because what  *)
(* adopt_residue goes through was listed once and is not added to by what  *)
(* other commands put into the directory meanwhile.                        *)
Place ==
    [p \in Phases |->
       CASE p = "start" -> 0 [] p = "create" -> 1 [] p = "reserve" -> 2 [] p = "stream" -> 3
         [] p = "flush" -> 4 [] p = "recheck" -> 5 [] p = "rename" -> 6 [] p = "verify" -> 7
         [] p = "residue" -> 8 [] p = "list" -> 9 [] p = "adopt" -> 10 [] p = "manifest" -> 11
         [] p = "hashlist" -> 12 [] OTHER -> 13]

Forward(w) == Place[pc[w]] < Place[pc'[w]]
OneChunkMore(w) ==
    pc[w] = "stream" /\ pc'[w] = "stream" /\ hashed'[w] = hashed[w] + 1 /\ hashed'[w] <= SizeOf[w]
OneFileLess(w) ==
    /\ pc[w] = "adopt" /\ pc'[w] = "adopt"
    /\ Todo(w)' \subseteq Todo(w) /\ Todo(w)' # Todo(w)
Advances(w) == Forward(w) \/ OneChunkMore(w) \/ OneFileLess(w)
Rests(w) ==
    /\ pc'[w] = pc[w] /\ hashed'[w] = hashed[w]
    /\ pc[w] = "adopt" => Todo(w)' = Todo(w)
Signalled(w) == ~cancel[w] /\ cancel'[w]

(* A step is a step forward of somebody, or somebody's only signal; and it *)
(* takes nobody back.                                                      *)
StepsForward ==
    [][/\ \A w \in Ops : Advances(w) \/ Rests(w)
       /\ \E w \in Ops : Advances(w) \/ Signalled(w)]_vars

LEMMA FileAdopted ==
    ASSUME Inv, NEW w \in Ops, AdoptOne(w) PROVE OneFileLess(w)
<1>1. PICK p \in Todo(w) : report'[w] = report[w] \cup {AdoptRecord(p)}
  BY AdoptsOne DEF Inv
<1>2. listed'[w] = listed[w] /\ recorded'[w] = recorded[w] /\ pc[w] = "adopt" /\ pc'[w] = pc[w]
  BY DEF AdoptOne
<1>3. ReportPaths(w)' = ReportPaths(w) \cup {p}
  <2>1. AdoptRecord(p).path = p BY DEF AdoptRecord
  <2>2. \A r : r \in report'[w] <=> r \in report[w] \/ r = AdoptRecord(p) BY <1>1
  <2>3. QED BY <2>1, <2>2 DEF ReportPaths
<1>4. Todo(w)' = Todo(w) \ {p} BY <1>2, <1>3 DEF Todo
<1>5. QED BY <1>1, <1>2, <1>4 DEF OneFileLess

LEMMA OwnStepForward ==
    ASSUME Inv, NEW w \in Ops, StepOf(w)
    PROVE  Advances(w) \/ (Signalled(w) /\ Rests(w))
<1> USE DEF Goto, local, disk
<1>0. pc \in [Ops -> Phases] /\ hashed \in [Ops -> Nat] /\ cancel \in [Ops -> BOOLEAN]
      /\ SizeOf[w] \in Nat
  BY BoundAssumption DEF Inv, TypeOK
<1>1. CASE WriteChunk(w)
  BY <1>0, <1>1 DEF WriteChunk, Advances, OneChunkMore
<1>2. CASE AdoptOne(w) BY <1>2, FileAdopted DEF Advances
<1>3. CASE Interrupt(w)
  BY <1>0, <1>3 DEF Interrupt, Signalled, Rests, Todo, ReportPaths
<1>4. CASE Open(w)
  BY <1>0, <1>4 DEF Open, Start, StartRefused, CheckFinal, FinalTaken, Reserve, PartialTaken, Fail,
     GiveUp, Advances, Forward, Place, Phases
<1>5. CASE WriteFails(w) \/ EndStream(w)
  BY <1>0, <1>5 DEF WriteFails, EndStream, Advances, Forward, Place, Phases
<1>6. CASE Finish(w)
  <2>1. \/ pc[w] = "flush" /\ pc'[w] \in {"recheck", "manifest", "residue"}
        \/ pc[w] = "recheck" /\ pc'[w] \in {"rename", "residue"}
        \/ pc[w] = "rename" /\ pc'[w] \in {"verify", "manifest", "residue"}
        \/ pc[w] = "verify" /\ pc'[w] \in {"manifest", "residue"}
    BY <1>0, <1>6 DEF Finish, FlushComplete, FlushIncomplete, FlushAfterRelayError, FlushFails,
       Recheck, Appeared, Rename, RenameFails, Verified, NotVerified, Fail
  <2>2. QED BY <1>0, <2>1 DEF Advances, Forward, Place, Phases
<1>7. CASE LoadRecorded(w) \/ ListResidue(w) \/ AdoptFails(w) \/ AdoptCancelled(w) \/ Adopted(w)
        \/ Document(w)
  BY <1>0, <1>7 DEF LoadRecorded, ListResidue, AdoptFails, AdoptCancelled, Adopted, Document,
     WriteManifest,
     WriteManifestFails, WriteHashList, WriteHashListFails, GiveUp, Advances, Forward, Place, Phases
<1>8. CASE Crash(w)
  <2>1. pc[w] \notin {"start", "done", "crashed"} /\ pc'[w] = "crashed"
    BY <1>0, <1>8 DEF Crash, Running, Ended
  <2>2. QED BY <1>0, <2>1 DEF Advances, Forward, Place, Phases
<1>9. QED
  BY <1>1, <1>2, <1>3, <1>4, <1>5, <1>6, <1>7, <1>8
     DEF StepOf, Transfer, AdoptResidue, Environment

(* No command can be kept from its end by the others, nor go round for     *)
(* ever by itself: as often as it steps it advances, and Place, the chunks *)
(* of its source and the files it listed are bounded.                      *)
THEOREM CommandsAreFinite == Spec => StepsForward
<1>1. Inv /\ [Next]_vars
        => [/\ \A w \in Ops : Advances(w) \/ Rests(w)
            /\ \E w \in Ops : Advances(w) \/ Signalled(w)]_vars
  <2> SUFFICES ASSUME Inv, Next
               PROVE  /\ \A w \in Ops : Advances(w) \/ Rests(w)
                      /\ \E w \in Ops : Advances(w) \/ Signalled(w)
    BY DEF vars
  <2>1. ASSUME NEW w \in Ops, StepOf(w)
        PROVE  /\ \A v \in Ops : Advances(v) \/ Rests(v)
               /\ \E v \in Ops : Advances(v) \/ Signalled(v)
    <3>1. Advances(w) \/ (Signalled(w) /\ Rests(w)) BY <2>1, OwnStepForward
    <3>2. \A v \in Ops : v # w => Rests(v)
      BY <2>1, OthersSame DEF Same, Rests, Todo, ReportPaths
    <3>3. QED BY <3>1, <3>2
  <2>2. CASE PowerLoss
    <3>0. pc \in [Ops -> Phases] BY DEF Inv, TypeOK
    <3>1. \A w \in Ops : Running(w) => Forward(w)
      BY <3>0, <2>2 DEF PowerLoss, Running, Ended, Forward, Place, Phases
    <3>2. \A w \in Ops : ~Running(w) => Rests(w)
      BY <3>0, <2>2 DEF PowerLoss, Running, Ended, Rests
    <3>3. QED BY <2>2, <3>1, <3>2 DEF PowerLoss, Advances
  <2>3. QED BY <2>1, <2>2, StepsOfOne
<1>2. QED BY <1>1, Invariance, PTL DEF Spec, StepsForward
====
