------------------------------- MODULE CaseAudit -------------------------------
(***************************************************************************)
(* A case directory that is read while it is written: the reading commands *)
(* of Verification, the conversion of EwfConversion, two acquisitions, and *)
(* somebody who changes, removes or adds a file.  The acquisitions are     *)
(* those of EvidenceStore reduced to what can be seen from outside.  Of    *)
(* the one these are the .partial file, the published file, the manifest,  *)
(* or a command that ended before it wrote one.  The other one, of an      *)
(* evidence id the first one's begins with, fails before it has a file of  *)
(* its own, and records what it finds: adopt_residue takes every file      *)
(* whose name begins with its id for its own.                              *)
(***************************************************************************)
EXTENDS Verification, EwfConversion

CONSTANTS
    Image,       \* path the acquisition publishes
    Partial,     \* its .partial
    ImageSlot,   \* number of its manifest
    RivalSlot,   \* number of the manifest of the acquisition that fails
    Stray,       \* path of a file that no command of the tool writes
    Starts,      \* states the case may be in at first
    Exposed,     \* paths of files that somebody else may change
    MaxMeddling, \* bound: how often somebody does
    Apart        \* bound: whether a case that sees a conversion sees no
                 \* failing acquisition and no failing call of the reader

ASSUME AuditAssumption ==
    /\ {Image, Partial, Stray} \cup Exposed \subseteq Paths
    /\ {ImageSlot, RivalSlot} \subseteq Numbers /\ ImageSlot # RivalSlot
    /\ \A a \in 1 .. MaxAttempts : SlotOf[a] \notin {ImageSlot, RivalSlot}
    /\ "other" \in Contents
    /\ Starts \subseteq [source : Contents \cup {None, Link}, stray : Contents \cup {None},
                         manifests : [Numbers -> Manifest \cup {None}]]
    /\ MaxMeddling \in Nat /\ Apart \in BOOLEAN

ASSUME NamesAssumption ==
    /\ Image # Partial /\ Stray \notin {Source, Image, Partial}
    /\ Source \notin {Image, Partial}
    /\ \A i \in 1 .. MaxSegments : SegmentPath[i] \notin {Image, Partial, Stray}

(* At first nothing but the image that is converted is recorded, and no    *)
(* command that is still to come has its manifest yet.                     *)
ASSUME StartAssumption ==
    \A s \in Starts, m \in Numbers :
        s.manifests[m] # None =>
            /\ s.manifests[m].records \subseteq {[path |-> Source, content |-> "whole"]}
            /\ m \notin {ImageSlot, RivalSlot} /\ \A a \in 1 .. MaxAttempts : m # SlotOf[a]

VARIABLES
    apc,       \* the acquisition: idle, streaming, published, ended, dead
    fpc,       \* the acquisition that fails: idle, adopt, ended
    residue,   \* files it takes for its own, not hashed yet
    swept,     \* records of those it has hashed
    meddles,   \* how often somebody else changed a file
    meddled,   \* which files he changed
    unsettled, \* paths that were hashed for a record while they were written
    faulted,   \* whether a call on the file system failed under the reader
    steady     \* paths nothing was done to since the reading command began

avars == <<apc, fpc, residue, swept>>
watch == <<meddles, meddled, unsettled, faulted, steady>>
vars == <<files, manifests, rvars, evars, avars, watch>>

EntriesNow ==
    UNION {EntriesOf(m) : m \in {k \in Numbers : manifests[k] # None}}

(* What is on disk agrees with the records or not; the source of the       *)
(* conversion may have no record, or one that cannot be read.              *)
Init ==
    /\ \E s \in Starts :
         /\ files = [p \in Paths |-> IF p = Source THEN s.source
                                    ELSE IF p = Stray THEN s.stray ELSE None]
         /\ manifests = s.manifests
    /\ ReaderInit /\ EwfInit
    /\ apc = "idle" /\ fpc = "idle" /\ residue = {} /\ swept = {}
    /\ meddles = 0 /\ meddled = {p \in {Source, Stray} : files[p] # "whole"}
    /\ unsettled = {} /\ faulted = FALSE /\ steady = Paths

-----------------------------------------------------------------------------
(* The acquisition: create_artifact, finish_complete, write_manifest.      *)
Receive ==
    /\ apc = "idle"
    /\ apc' = "streaming"
    /\ Put(Partial, "part")
    /\ UNCHANGED manifests

Grow ==
    /\ apc = "streaming" /\ files[Partial] = "part"
    /\ Put(Partial, "whole")
    /\ UNCHANGED <<apc, manifests>>

PublishImage ==
    /\ apc = "streaming" /\ files[Partial] = "whole"
    /\ apc' = "published"
    /\ files' = [files EXCEPT ![Partial] = None, ![Image] = "whole"]
    /\ UNCHANGED manifests

(* Mutant: the manifest is written before the file is published.           *)
RecordEarly ==
    /\ apc = "streaming" /\ manifests[ImageSlot] = None
    /\ Enter(ImageSlot, {[path |-> Image, content |-> "whole"]})
    /\ UNCHANGED <<apc, files>>

RecordImage ==
    /\ apc = "published"
    /\ apc' = "ended"
    /\ Enter(ImageSlot, {[path |-> Image, content |-> "whole"]})
    /\ UNCHANGED files

(* The stream failed, or the command did, and adopt_residue found what it  *)
(* left: the .partial file stays as it is and is recorded.                 *)
RecordPartial ==
    /\ apc = "streaming"
    /\ apc' = "ended"
    /\ Enter(ImageSlot, {[path |-> Partial, content |-> files[Partial]]})
    /\ UNCHANGED files

(* The process dies, or leaves without a manifest because adopt_residue    *)
(* failed or was cancelled.                                                *)
Die ==
    /\ apc \in {"streaming", "published"}
    /\ apc' = "dead"
    /\ UNCHANGED <<files, manifests>>

AcquisitionStep ==
    Receive \/ Grow \/ PublishImage \/ RecordImage \/ RecordPartial \/ Die

-----------------------------------------------------------------------------
(* The acquisition that fails: adopt_residue, then write_manifest.  A file *)
(* is listed while it exists and no manifest names it.                     *)
RivalLists ==
    /\ fpc = "idle" /\ AllReadable
    /\ fpc' = "adopt"
    /\ residue' = {p \in {Image, Partial} :
                     files[p] # None /\ \A e \in EntriesNow : e.record.path # p}
    /\ UNCHANGED <<swept, unsettled, manifests>>

(* adopt_artifact: nobody is asked whether the file is still written.      *)
RivalAdopts(p) ==
    /\ fpc = "adopt" /\ p \in residue /\ files[p] \in Contents
    /\ residue' = residue \ {p}
    /\ swept' = swept \cup {[path |-> p, content |-> files[p]]}
    /\ unsettled' = unsettled \cup (IF apc = "streaming" THEN {p} ELSE {})
    /\ UNCHANGED <<fpc, manifests>>

RivalEnds == fpc' = "ended" /\ residue' = {} /\ swept' = {} /\ UNCHANGED unsettled

RivalRecords ==
    /\ fpc = "adopt" /\ residue = {}
    /\ Enter(RivalSlot, swept)
    /\ RivalEnds

(* A file is gone by now or cannot be read, or the token is set: the `?`   *)
(* leaves the command without a manifest.                                  *)
RivalFails == fpc = "adopt" /\ RivalEnds /\ UNCHANGED manifests

RivalStep ==
    RivalLists \/ (\E p \in {Image, Partial} : RivalAdopts(p)) \/ RivalRecords \/ RivalFails

(* Somebody else changes or removes a file, or leaves one of his own.      *)
(* Bound: he does so in cases without an acquisition.                      *)
Meddle(p, c) ==
    /\ meddles < MaxMeddling /\ apc = "idle" /\ fpc = "idle"
    /\ files[p] # c /\ (files[p] = None => p = Stray)
    /\ Put(p, c)
    /\ meddles' = meddles + 1 /\ meddled' = meddled \cup {p}
    /\ UNCHANGED manifests

-----------------------------------------------------------------------------
stranger == <<meddles, meddled>>

Reads ==
    /\ \/ ReaderStep /\ UNCHANGED faulted
       \/ (Apart => attempt = 0) /\ ReaderFault /\ faulted' = TRUE
    /\ UNCHANGED <<files, manifests, evars, avars, stranger, unsettled>>
Converts ==
    /\ Apart => fpc = "idle" /\ ~faulted
    /\ EwfStep /\ UNCHANGED <<rvars, avars, stranger, unsettled, faulted>>
Acquires ==
    /\ meddles = 0
    /\ \/ AcquisitionStep /\ UNCHANGED <<fpc, residue, swept, unsettled>>
       \/ (Apart => attempt = 0) /\ RivalStep /\ UNCHANGED <<files, apc>>
    /\ UNCHANGED <<rvars, evars, stranger, faulted>>

Meddles ==
    /\ \E p \in Exposed, c \in {"other", None} : Meddle(p, c)
    /\ UNCHANGED <<rvars, evars, avars, unsettled, faulted>>

(* Paths whose file and whose records are as they were when the reading    *)
(* command began.                                                          *)
Of(p, entries) == {e \in entries : e.record.path = p}
Observe ==
    steady' = IF rpc = "idle" THEN Paths
              ELSE {p \in steady : files'[p] = files[p] /\ Of(p, EntriesNow') = Of(p, EntriesNow)}

(* Bound: a behaviour ends with the reading command.                       *)
Next == rpc # "done" /\ (Reads \/ Converts \/ Acquires \/ Meddles) /\ Observe

Spec == Init /\ [][Next]_vars

-----------------------------------------------------------------------------
(* Types of the directory and of the two commands.                         *)
TypeOK ==
    /\ DirectoryTypeOK /\ ReaderTypeOK /\ EwfTypeOK
    /\ apc \in {"idle", "streaming", "published", "ended", "dead"}
    /\ fpc \in {"idle", "adopt", "ended"} /\ residue \subseteq {Image, Partial}
    /\ swept \subseteq Records /\ unsettled \subseteq {Partial} /\ faulted \in BOOLEAN
    /\ meddles \in 0 .. MaxMeddling /\ meddled \subseteq Paths /\ steady \subseteq Paths

First(entries) == {e \in entries : \A d \in entries : e.slot <= d.slot}

(* What there is to be said of a path.                                     *)
Truth(p, entries) ==
    IF Of(p, entries) = {}
      THEN IF files[p] = None THEN "none" ELSE "EXTRA"
      ELSE CASE files[p] = None -> "MISSING"
             [] \E e \in First(Of(p, entries)) : files[p] = e.record.content -> "MATCH"
             [] OTHER -> "MISMATCH"

(* EXIT_CODES.md:16, README.md:235.  A verification that comes to a verdict*)
(* says the truth of every path that was left alone while it ran, whatever *)
(* was written elsewhere in the case meanwhile: nothing slips through      *)
(* between loading the manifests, hashing and scanning, in either          *)
(* direction.  Given one manifest, it is the truth by that manifest.  Not  *)
(* if a stat failed: a manifest or a directory is then passed over unsaid. *)
VerdictIsTrue ==
    exit \in {"ok", "integrity"} /\ kind \in Checking /\ ~faulted =>
        \A p \in steady :
            outcome[p] = Truth(p, IF kind = "verify_one" THEN loaded ELSE EntriesNow)

(* False alarms over the tool's own work have one origin.  However the     *)
(* steps of the acquisitions and of a conversion fall between those of a   *)
(* reading command, and whatever it passes over, it says MISMATCH or       *)
(* MISSING only of a file somebody else changed or of a .partial that      *)
(* another acquisition took for its own while it was written, and exits 0  *)
(* over no such path; and it ends with a file system error only if a call  *)
(* failed by itself or a file was moved or removed under it.               *)
EveryFindingHasACause ==
    /\ \A p \in Paths :
         outcome[p] \in {"MISMATCH", "MISSING"} => p \in meddled \cup unsettled /\ exit # "ok"
    /\ exit = "io" => faulted \/ \E p \in Paths : p \notin steady /\ files[p] = None

(* report.rs:79: a report must not assert integrity over a mismatch.  What *)
(* it lists was read before what it verified; a report that passed lists   *)
(* no artifact that was not compared and found to match, unless a stat of  *)
(* a manifest or of a directory failed.                                    *)
ReportCovers ==
    exit = "ok" /\ kind = "report_verify" /\ ~faulted =>
        \A e \in shown : e \in loaded /\ outcome[e.record.path] = "MATCH"

(* IMAGE_FORMATS.md:91-97.  The manifest of a conversion names all of the  *)
(* container and nothing else, whole segments that ewfacquire finished;    *)
(* there is one such manifest for a container, however often the command   *)
(* was tried; and a manifest that says ewfverify succeeded is of a         *)
(* container that was whole, even if somebody changed a segment after the  *)
(* program had written it.                                                 *)
ContainerSealed ==
    \A a \in 1 .. MaxAttempts :
        manifests[SlotOf[a]] # None =>
            LET records == manifests[SlotOf[a]].records
                own == {SegmentPath[i] : i \in 1 .. MaxSegments}
            IN  /\ own \cap meddled = {} =>
                     /\ records = {[path |-> p, content |-> "whole"] :
                                      p \in {q \in own : files[q] # None}}
                     /\ \A b \in 1 .. MaxAttempts : manifests[SlotOf[b]] # None => a = b
                /\ claims[a] = "success" => \A r \in records : r.content = "whole"
=============================================================================
