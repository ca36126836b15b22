---------------------------- MODULE Custody_proofs ----------------------------
(***************************************************************************)
(* EvidenceStore implements Custody, for any number of commands: the       *)
(* rename of finish_complete is Seal, the rename of write_to is Enter, and *)
(* every other step of a command, a crash and a power loss are stuttering. *)
(* The one assumption is that operation ids are distinct; the code derives *)
(* them from the clock, to the millisecond.                                *)
(*                                                                         *)
(* That an entry may be made rests on what the records of a report are     *)
(* known to hold while they are still in memory: the command's own         *)
(* (ReportKept) and the adopted ones (Holds).  That it is the only one     *)
(* rests on Written: who has a manifest is past its report.                *)
(***************************************************************************)
EXTENDS EvidenceStore_proofs

Recording == Inv /\ RecordsInv /\ AllHold /\ Written

(* A record of a published file, in the report of a command, names the     *)
(* file that is there and the command that published it.                   *)
LEMMA ReportedFinal ==
    ASSUME Recording, NEW w \in Ops, NEW r \in report[w], r.path.kind = "final"
    PROVE  /\ r.path.name \in Names /\ final[r.path.name] # None
           /\ final[r.path.name].by = r.digest.by
<1>1. r \in Records BY DEF Recording, Inv, TypeOK
<1>2. r.path.name \in Names /\ At(r.path) = final[r.path.name] BY <1>1 DEF Records, Paths, At
<1>3. CASE r.origin = "writer"
  BY <1>2, <1>3 DEF Recording, RecordsInv, ReportKept, Kept, Settled, Resting
<1>4. CASE r.origin # "writer"
  <2>1. TrueOfDisk(r) BY <1>4 DEF Recording, AllHold, Holds
  <2>2. DigestOf(At(r.path)).by = At(r.path).by BY DEF DigestOf
  <2>3. QED BY <1>2, <2>1, <2>2 DEF TrueOfDisk
<1>5. QED BY <1>3, <1>4

(* Whoever is not past its report has no entry.                            *)
LEMMA NoEntryYet ==
    ASSUME Recording, NEW w \in Ops, pc[w] \notin {"hashlist", "done", "crashed"}
    PROVE  Ledger[w] = None
<1>1. ManifestOf[w] \in Existing => manifests[ManifestOf[w]].op # w BY DEF Recording, Written
<1>2. QED BY <1>1, OpsAssumption DEF Ledger, Existing

-----------------------------------------------------------------------------
(* The step simulation.                                                    *)
LEMMA SealStep == ASSUME Recording, NEW w \in Ops, Rename(w) PROVE C!Seal(w)
<1> USE OpsAssumption DEF Recording
<1>1. final[NameOf[w]] = None /\ pc[w] = "rename" BY DEF Rename, Inv, NameFree
<1>2. Held(w) \in File /\ Held(w).by = w BY <1>1 DEF Inv, Owned, Writing
<1>3. Held(w) # None BY <1>2, NoneAssumption
<1>4. Sealed' = [Sealed EXCEPT ![NameOf[w]] = w]
  <2>1. \A n \in Names : final'[n] = IF n = NameOf[w] THEN Held(w) ELSE final[n]
    BY DEF Rename, Inv, TypeOK
  <2>2. QED BY <2>1, <1>2, <1>3 DEF Sealed
<1>5. Sealed[NameOf[w]] = None BY <1>1 DEF Sealed
<1>6. Ledger[w] = None BY <1>1, NoEntryYet
<1>7. Ledger' = Ledger BY DEF Ledger, EntryOf, PublishedRecords, Rename
<1>8. QED BY <1>4, <1>5, <1>6, <1>7 DEF C!Seal

(* What a command enters names only sealed files, each with who sealed it, *)
(* and its own if it says that the acquisition was complete.               *)
LEMMA EnterStep ==
    ASSUME DistinctManifests, Recording, NEW w \in Ops, WriteManifest(w)
    PROVE  \E s \in {"complete", "incomplete"}, files \in SUBSET C!Holdings : C!Enter(w, s, files)
<1> USE OpsAssumption
<1> DEFINE M == [op |-> w, case |-> CaseOf[w], status |-> StatusOf(w), artifacts |-> report[w]]
           s == IF StatusOf(w) \in CompleteVerdicts THEN "complete" ELSE "incomplete"
           published == {r \in report[w] : r.path.kind = "final"}
           files == {<<r.path.name, r.digest.by>> : r \in published}
<1>0. Inv BY DEF Recording
<1>1. pc[w] = "manifest" BY DEF WriteManifest
<1>2. Ledger[w] = None BY <1>1, NoEntryYet
<1>3. files \subseteq C!Holdings
  <2> SUFFICES ASSUME NEW r \in published PROVE <<r.path.name, r.digest.by>> \in C!Holdings
    OBVIOUS
  <2>1. /\ r.path.name \in Names /\ final[r.path.name] # None
        /\ final[r.path.name].by = r.digest.by
    BY ReportedFinal
  <2>2. final[r.path.name].by # None BY <1>0, <2>1, NoneAssumption DEF Inv, TypeOK, File
  <2>3. Sealed[r.path.name] = r.digest.by /\ Sealed[r.path.name] # None BY <2>1, <2>2 DEF Sealed
  <2>4. QED BY <2>1, <2>3 DEF C!Holdings
<1>4. s = "complete" => <<NameOf[w], w>> \in files
  <2>1. SUFFICES ASSUME StatusOf(w) \in CompleteVerdicts PROVE <<NameOf[w], w>> \in files
    OBVIOUS
  <2>2. fatal[w] = "none" /\ verdict[w] \in CompleteVerdicts BY <2>1 DEF StatusOf, CompleteVerdicts
  <2>3. OwnRecord(w) \in report[w]
    BY <1>1, <2>2 DEF Recording, RecordsInv, Reported, Reporting
  <2>4. OwnRecord(w).path = FinalPath(NameOf[w]) /\ OwnRecord(w).digest = TransferDigest(w)
    BY <2>2 DEF OwnRecord
  <2>5. /\ OwnRecord(w).path.kind = "final" /\ OwnRecord(w).path.name = NameOf[w]
        /\ OwnRecord(w).digest.by = w
    BY <2>4 DEF FinalPath, TransferDigest
  <2>6. OwnRecord(w) \in published BY <2>3, <2>5
  <2>7. QED BY <2>5, <2>6
<1>5. manifests'[ManifestOf[w]] = M /\ M # None
  <2>1. M \in Manifest BY <1>0 DEF Inv, TypeOK, Manifest, StatusOf, Verdicts
  <2>2. QED BY <1>0, <2>1, NoManifestAssumption DEF WriteManifest, Inv, TypeOK
<1>6. \A v \in Ops : v # w => manifests'[ManifestOf[v]] = manifests[ManifestOf[v]]
  BY <1>0 DEF WriteManifest, DistinctManifests, Inv, TypeOK
<1>7. Ledger' = [Ledger EXCEPT ![w] = [status |-> s, files |-> files]]
  <2> DEFINE e == [status |-> s, files |-> files]
  <2>1. PublishedRecords(ManifestOf[w])' = published BY <1>5 DEF PublishedRecords
  <2>2. EntryOf(ManifestOf[w])' = e BY <1>5, <2>1 DEF EntryOf
  <2>3. Ledger'[w] = e
    <3>1. manifests'[ManifestOf[w]] # None /\ manifests'[ManifestOf[w]].op = w BY <1>5
    <3> HIDE DEF M, e
    <3>2. QED BY <2>2, <3>1 DEF Ledger
  <2>4. \A v \in Ops : v # w => Ledger'[v] = Ledger[v]
    BY <1>6 DEF Ledger, EntryOf, PublishedRecords
  <2>5. Ledger = [v \in Ops |-> Ledger[v]] BY DEF Ledger
  <2>6. Ledger' = [v \in Ops |-> Ledger'[v]] BY DEF Ledger
  <2> HIDE DEF e
  <2>7. [Ledger EXCEPT ![w] = e] = [v \in Ops |-> IF v = w THEN e ELSE Ledger[v]] BY <2>5
  <2>8. Ledger' = [Ledger EXCEPT ![w] = e] BY <2>3, <2>4, <2>6, <2>7
  <2>9. QED BY <2>8 DEF e
<1>8. Sealed' = Sealed BY DEF Sealed, WriteManifest
<1>9. s \in {"complete", "incomplete"} OBVIOUS
<1> HIDE DEF s, files
<1>10. C!Enter(w, s, files) BY <1>2, <1>3, <1>4, <1>7, <1>8 DEF C!Enter
<1>11. QED BY <1>3, <1>9, <1>10

LEMMA StutterStep ==
    ASSUME UNCHANGED <<final, manifests>> PROVE UNCHANGED C!vars
BY DEF C!vars, Sealed, Ledger, EntryOf, PublishedRecords

LEMMA Simulation ==
    ASSUME DistinctManifests, Recording, [Next]_vars PROVE [C!Next]_(C!vars)
<1>1. CASE UNCHANGED vars BY <1>1, StutterStep DEF vars, disk
<1>2. CASE PowerLoss
  <2>1. TypeOK' BY <1>2, PowerLossType DEF Recording, Inv
  <2>2. UNCHANGED final BY <1>2, <2>1, PowerLossStep DEF Recording
  <2>3. UNCHANGED manifests BY <1>2 DEF PowerLoss
  <2>4. QED BY <2>2, <2>3, StutterStep
<1>3. ASSUME NEW w \in Ops, Rename(w) PROVE C!Next BY <1>3, SealStep DEF C!Next
<1>4. ASSUME NEW w \in Ops, WriteManifest(w) PROVE C!Next BY <1>4, EnterStep DEF C!Next
<1>5. ASSUME NEW w \in Ops, ~Rename(w), ~WriteManifest(w),
             Open(w) \/ Transfer(w) \/ Finish(w) \/ AdoptResidue(w) \/ Document(w)
               \/ Environment(w)
      PROVE  UNCHANGED <<final, manifests>>
  <2>1. CASE Open(w) \/ Transfer(w)
    BY <2>1 DEF Open, Transfer, Start, StartRefused, CheckFinal, FinalTaken, Reserve,
                PartialTaken, WriteChunk, WriteFails, EndStream, disk
  <2>2. CASE Finish(w)
    BY <1>5, <2>2 DEF Finish, FlushComplete, FlushIncomplete, FlushAfterRelayError, FlushFails,
                      Recheck, Appeared, RenameFails, Verified, NotVerified, disk
  <2>3. CASE AdoptResidue(w) \/ Document(w) \/ Environment(w)
    BY <1>5, <2>3 DEF AdoptResidue, Document, Environment, LoadRecorded, ListResidue, AdoptOne,
                      AdoptFails, AdoptCancelled, Adopted, WriteManifestFails, WriteHashList, WriteHashListFails,
                      Interrupt, Crash, disk
  <2>4. QED BY <1>5, <2>1, <2>2, <2>3
<1>6. QED BY <1>1, <1>2, <1>3, <1>4, <1>5, StutterStep DEF Next

LEMMA CustodyInit == Init => C!Init
BY OpsAssumption DEF Init, C!Init, Sealed, Ledger

(* The commands in the case directory implement Custody: names are sealed  *)
(* once, and what the manifests say of who acquired what is true when it   *)
(* is entered and never changes, if operation ids are distinct.            *)
THEOREM ImplementsCustody == ASSUME DistinctManifests PROVE Spec => RefinesCustody
<1>1. Inv /\ Written /\ [Next]_vars => Written' BY InvStep, WrittenStep
<1>2. Inv /\ RecordsInv /\ AllHold /\ Written => Recording BY DEF Recording
<1>3. Recording /\ [Next]_vars => [C!Next]_(C!vars) BY Simulation
<1>4. QED
  BY <1>1, <1>2, <1>3, BegunInit, CustodyInit, Invariance, RecordsInvariance,
     AllHoldInvariance, PTL
  DEF Spec, RefinesCustody, C!Spec
====
