---------------------------- MODULE CaseAudit_proofs ----------------------------
(***************************************************************************)
(* The properties of CaseAudit for any number of files, manifests, segments *)
(* and attempts.  Writers is about the commands that write: which files    *)
(* each of them may still touch, and that a file somebody recorded is what *)
(* its record says unless a stranger changed it.  Reader is about the      *)
(* command that reads: what it already said of a path that was left alone  *)
(* is the truth, and what it has not said yet is still ahead of it.        *)
(***************************************************************************)
EXTENDS CaseAudit, TLAPS

Attempts == 1 .. MaxAttempts
Segments == 1 .. MaxSegments
Own == {SegmentPath[i] : i \in Segments}

(* A manifest that is still to be written is not there.                    *)
FreshSlots ==
    /\ apc \in {"idle", "streaming", "published"} => manifests[ImageSlot] = None
    /\ fpc # "ended" => manifests[RivalSlot] = None
    /\ \A a \in Attempts :
         a > attempt \/ (a = attempt /\ epc # "idle") => manifests[SlotOf[a]] = None

(* The acquisition is done with its files.                                 *)
Settled == apc \in {"published", "ended", "dead"}

(* What is recorded where: one record for a path, and true of the file     *)
(* unless somebody changed it, or it was still written when it was hashed. *)
Recorded ==
    \A m \in Numbers : manifests[m] # None =>
        \A r \in manifests[m].records :
            /\ \A s \in manifests[m].records : s.path = r.path => s = r
            /\ r.path \notin meddled \cup unsettled => files[r.path] = r.content
            /\ r.path \in {Source, Image, Partial} \cup Own
            /\ r.path \in {Image, Partial} => r.path \in unsettled \/ Settled
            /\ r.path \in Own => \E a \in Attempts : m = SlotOf[a]
            /\ epc # "idle" => r.path \notin Own \ meddled

(* The files of the acquisition.                                           *)
Acquired ==
    /\ apc = "idle" => files[Image] = None /\ files[Partial] = None
    /\ apc = "streaming" => files[Image] = None /\ files[Partial] \in {"part", "whole"}
    /\ apc = "published" => files[Image] = "whole"

(* What the acquisition that fails has in its hands.                       *)
Swept ==
    /\ fpc # "adopt" => residue = {} /\ swept = {}
    /\ \A r \in swept :
         /\ r.path \in {Image, Partial} \ residue
         /\ \A q \in swept : q.path = r.path => q = r
         /\ r.path \in unsettled \/ (Settled /\ files[r.path] = r.content)

(* The segments while ewfacquire runs, and once they are listed.           *)
Segmented ==
    /\ \A i \in Segments : files[SegmentPath[i]] \in Contents \cup {None}
    /\ epc = "idle" => written = 0
    /\ epc = "acquire" =>
         \A i \in Segments :
            /\ i > written => files[SegmentPath[i]] = None
            /\ i < written => files[SegmentPath[i]] # "part"
            /\ i <= written /\ SegmentPath[i] \notin meddled =>
                 files[SegmentPath[i]] \in {"part", "whole"}
    /\ epc \in {"adopt", "verify", "record"} =>
         \A i \in Segments :
            /\ files[SegmentPath[i]] # "part"
            /\ SegmentPath[i] \notin meddled => files[SegmentPath[i]] \in {"whole", None}
            /\ SegmentPath[i] \notin meddled /\ files[SegmentPath[i]] # None =>
                 i \in produced \/ \E r \in adopted : r.path = SegmentPath[i]

(* The records of the segments that were hashed.                           *)
Adopted ==
    /\ epc \in {"idle", "acquire"} => adopted = {} /\ produced = {}
    /\ epc \in {"verify", "record"} => adopted # {} /\ produced = {}
    /\ epc = "adopt" => produced # {}
    /\ epc # "record" => verified = "none"
    /\ \A r \in adopted :
         /\ \E i \in Segments \ produced : r.path = SegmentPath[i]
         /\ \A s \in adopted : s.path = r.path => s = r
         /\ files[r.path] = "whole" => r.content = "whole"
         /\ r.path \notin meddled => files[r.path] = r.content
         /\ verified = "success" => r.content = "whole"

(* What the manifest of a conversion says.                                 *)
Sealed ==
    \A a \in Attempts : manifests[SlotOf[a]] # None =>
        LET records == manifests[SlotOf[a]].records
        IN  /\ records # {} /\ \A r \in records : r.path \in Own
            /\ Own \cap meddled = {} =>
                 /\ records = {[path |-> p, content |-> "whole"] :
                                  p \in {q \in Own : files[q] # None}}
                 /\ \A b \in Attempts : manifests[SlotOf[b]] # None => a = b
            /\ claims[a] = "success" => \A r \in records : r.content = "whole"

WritersTypes ==
    /\ DirectoryTypeOK /\ EwfTypeOK
    /\ apc \in {"idle", "streaming", "published", "ended", "dead"}
    /\ fpc \in {"idle", "adopt", "ended"} /\ residue \subseteq {Image, Partial}
    /\ swept \subseteq Records /\ unsettled \subseteq {Partial}
    /\ meddles \in 0 .. MaxMeddling /\ meddled \subseteq Paths

Writers ==
    /\ WritersTypes /\ FreshSlots /\ Recorded /\ Acquired /\ Swept /\ Segmented /\ Adopted /\ Sealed

-----------------------------------------------------------------------------
Looking == {"check", "hash", "scan"}

(* Where the reading command is and what it has in its hands there.        *)
Phases ==
    /\ rpc \in {"idle", "reload"} => outcome = Nothing /\ accounted = {} /\ todo = {}
    /\ rpc \in {"idle", "reload", "check", "hash"} => dirs = 0 /\ unread = {} /\ found = {}
    /\ rpc = "scan" => todo = {}
    /\ rpc \in Looking => kind \in Checking
    /\ rpc = "reload" => kind = "report_verify"
    /\ rpc = "hash" => current \in loaded /\ files[current.record.path] # Link

(* The entries it loaded still stand in the manifests.                     *)
Standing ==
    /\ loaded \subseteq EntriesNow
    /\ rpc = "reload" => shown \subseteq EntriesNow
    /\ rpc \in Looking /\ kind = "report_verify" /\ ~faulted => shown \subseteq loaded

(* Each entry is ahead, in hand, or its path has an outcome.               *)
InHand(p) == rpc = "hash" /\ current.record.path = p
Covered ==
    rpc # "done" =>
        /\ rpc \in Looking => \A e \in loaded : e \in todo \/ e.record.path \in accounted
        /\ \A p \in Paths :
             /\ outcome[p] # "none" => p \in accounted /\ ~InHand(p)
             /\ p \in accounted /\ ~InHand(p) => outcome[p] \in {"MATCH", "MISMATCH", "MISSING"}
             /\ InHand(p) => p \in accounted

(* Nothing bad is said without a cause.                                    *)
Causes == \A p \in Paths : outcome[p] \in {"MISMATCH", "MISSING"} => p \in meddled \cup unsettled

(* Of paths left alone: the entries are those loaded; what was said is the *)
(* truth, what was not is ahead, and a file is found once its directory    *)
(* was read.                                                               *)
Sound(p) ==
    /\ kind # "verify_one" => Of(p, loaded) = Of(p, EntriesNow)
    /\ p \notin accounted => Of(p, loaded) \subseteq todo
    /\ p \in accounted /\ ~InHand(p) => Of(p, loaded) # {} /\ outcome[p] = Truth(p, loaded)
    /\ InHand(p) => current \in First(Of(p, loaded)) /\ files[p] \in Contents
    /\ rpc = "scan" =>
         /\ p \in found \cup unread => files[p] # None
         /\ files[p] # None /\ (\E i \in 1 .. dirs : ClassOf[p] = ClassOrder[i]) =>
              p \in found \cup unread

LeftAlone == rpc \in Looking /\ ~faulted => \A p \in steady : Sound(p)

Reader ==
    /\ ReaderTypeOK /\ steady \subseteq Paths /\ faulted \in BOOLEAN
    /\ Phases /\ Standing /\ Covered /\ Causes /\ LeftAlone
    /\ VerdictIsTrue /\ EveryFindingHasACause /\ ReportCovers

Inv == Writers /\ Reader

-----------------------------------------------------------------------------
USE DEF Attempts, Segments

LEMMA PathsOfConversion ==
  /\ \A i \in Segments : SegmentPath[i] \in Paths /\ SegmentPath[i] \in Own
  /\ \A i, j \in Segments : SegmentPath[i] = SegmentPath[j] => i = j
  /\ \A i \in Segments : SegmentPath[i] \notin {Image, Partial, Stray, Source}
  /\ Own \subseteq Paths /\ {Source, Image, Partial, Stray} \cap Own = {}
  BY ConversionAssumption, NamesAssumption DEF Own

LEMMA EntriesAre ==
  \A e : e \in EntriesNow <=>
           \E m \in Numbers : /\ manifests[m] # None
                              /\ \E r \in manifests[m].records : e = [slot |-> m, record |-> r]
  BY DEF EntriesNow, EntriesOf

LEMMA RecordsTyped ==
  ASSUME DirectoryTypeOK
  PROVE  \A m \in Numbers : manifests[m] # None =>
           /\ manifests[m] \in Manifest
           /\ \A r \in manifests[m].records : r \in Records /\ r.path \in Paths /\ r.content \in Contents
  BY DEF DirectoryTypeOK, Manifest, Records

LEMMA EntriesTyped == DirectoryTypeOK => EntriesNow \subseteq Entries
  BY RecordsTyped, EntriesAre DEF Entries

-----------------------------------------------------------------------------
LEMMA WritersInit == Init => Writers
<1> SUFFICES ASSUME Init PROVE Writers
  OBVIOUS
<1>1. PICK s \in Starts :
        /\ files = [p \in Paths |-> IF p = Source THEN s.source
                                    ELSE IF p = Stray THEN s.stray ELSE None]
        /\ manifests = s.manifests
  BY DEF Init
<1>2. /\ s.source \in Contents \cup {None, Link} /\ s.stray \in Contents \cup {None}
      /\ s.manifests \in [Numbers -> Manifest \cup {None}]
  BY AuditAssumption
<1>3. DirectoryTypeOK
  BY <1>1, <1>2 DEF DirectoryTypeOK
<1>4. /\ epc = "idle" /\ attempt = 0 /\ written = 0 /\ produced = {} /\ adopted = {}
      /\ verified = "none" /\ claims = [a \in 1 .. MaxAttempts |-> "none"]
      /\ apc = "idle" /\ fpc = "idle" /\ residue = {} /\ swept = {} /\ unsettled = {}
      /\ meddles = 0 /\ meddled = {p \in {Source, Stray} : files[p] # "whole"}
  BY DEF Init, EwfInit
<1>5. WritersTypes
  <2>1. EwfTypeOK
    BY <1>4, ConversionAssumption DEF EwfTypeOK, EwfPhases, Verifications
  <2>2. meddled \subseteq Paths
    BY <1>4, ConversionAssumption, AuditAssumption
  <2> QED BY <1>3, <1>4, <2>1, <2>2, AuditAssumption DEF WritersTypes
<1>6. \A m \in Numbers : manifests[m] # None =>
        /\ manifests[m].records \subseteq {[path |-> Source, content |-> "whole"]}
        /\ m \notin {ImageSlot, RivalSlot} /\ \A a \in Attempts : m # SlotOf[a]
  BY <1>1, StartAssumption
<1>7. FreshSlots /\ Sealed
  BY <1>6, AuditAssumption, ConversionAssumption DEF FreshSlots, Sealed
<1>8. Recorded
  <2> SUFFICES ASSUME NEW m \in Numbers, manifests[m] # None,
                      NEW r \in manifests[m].records
               PROVE  /\ r.path = Source /\ r.content = "whole"
                      /\ \A q \in manifests[m].records : q = r
    BY <1>4, NamesAssumption, PathsOfConversion DEF Recorded
  <2> QED BY <1>6
<1>9. Acquired /\ Swept /\ Segmented /\ Adopted
  <2>1. /\ \A i \in Segments : files[SegmentPath[i]] = None
        /\ files[Image] = None /\ files[Partial] = None
    BY <1>1, PathsOfConversion, NamesAssumption, AuditAssumption
  <2> QED BY <1>4, <2>1 DEF Acquired, Swept, Segmented, Adopted
<1> QED BY <1>5, <1>7, <1>8, <1>9 DEF Writers

-----------------------------------------------------------------------------
(* A step that touches neither segments nor the manifests of conversions.  *)
LEMMA ConversionKept ==
  ASSUME Writers, UNCHANGED <<evars, meddled>>,
         \A i \in Segments : files'[SegmentPath[i]] = files[SegmentPath[i]],
         \A a \in Attempts : manifests'[SlotOf[a]] = manifests[SlotOf[a]]
  PROVE  EwfTypeOK' /\ Segmented' /\ Adopted' /\ Sealed'
<1> USE DEF Writers
<1>1. UNCHANGED <<epc, attempt, written, produced, adopted, verified, claims, meddled>>
  BY DEF evars
<1>2. EwfTypeOK'
  BY <1>1 DEF WritersTypes, EwfTypeOK
<1>3. \A p \in Own : files'[p] = files[p]
  BY DEF Own
<1>4. Segmented'
  BY <1>1 DEF Segmented
<1>5. \A r \in adopted : r.path \in Own
  BY PathsOfConversion DEF Adopted
<1>6. Adopted'
  BY <1>1, <1>3, <1>5 DEF Adopted
<1>7. {q \in Own : files'[q] # None} = {q \in Own : files[q] # None}
  BY <1>3
<1>8. Sealed'
  BY <1>1, <1>7 DEF Sealed
<1> QED BY <1>2, <1>4, <1>6, <1>8

LEMMA AcquisitionKeeps ==
  ASSUME Writers, AcquisitionStep,
         UNCHANGED <<evars, fpc, residue, swept, unsettled, meddles, meddled>>
  PROVE  Writers'
<1> USE DEF Writers
<1>1. DirectoryTypeOK /\ "part" \in Contents /\ "whole" \in Contents
      /\ {Image, Partial} \subseteq Paths /\ ImageSlot \in Numbers /\ RivalSlot # ImageSlot
      /\ None \notin {"part", "whole"}
  BY AuditAssumption, ConversionAssumption, DirectoryAssumption DEF WritersTypes
<1>2. UNCHANGED <<epc, attempt, written, produced, adopted, verified, claims, meddles, meddled>>
  BY DEF evars
<1>3. \A i \in Segments : SegmentPath[i] \notin {Image, Partial} /\ SegmentPath[i] \in Paths
  BY PathsOfConversion
<1>4. \A a \in Attempts : SlotOf[a] # ImageSlot /\ SlotOf[a] \in Numbers
  BY AuditAssumption, ConversionAssumption
<1>5. CASE Receive \/ Grow \/ PublishImage \/ Die
  <2>1. UNCHANGED manifests /\ apc' \in {"streaming", "published", "dead"}
    BY <1>5 DEF Receive, Grow, PublishImage, Die
  <2>2. /\ \A p \in Paths \ {Image, Partial} : files'[p] = files[p]
        /\ DirectoryTypeOK'
    BY <1>1, <1>5, <2>1 DEF Receive, Grow, PublishImage, Die, Put, DirectoryTypeOK
  <2>3. EwfTypeOK' /\ Segmented' /\ Adopted' /\ Sealed'
    BY <1>3, <2>1, <2>2, ConversionKept
  <2>4. WritersTypes'
    BY <1>2, <2>1, <2>2, <2>3 DEF WritersTypes
  <2>5. FreshSlots'
    BY <1>2, <1>5, <2>1 DEF FreshSlots, Receive, Grow, PublishImage, Die
  <2>6. /\ Settled => UNCHANGED files
        /\ Settled => Settled'
    BY <1>5 DEF Receive, Grow, PublishImage, Die, Settled
  <2>7. \A m \in Numbers : manifests[m] # None =>
          \A r \in manifests[m].records :
            r.path \notin unsettled => files'[r.path] = files[r.path]
    BY <1>1, <2>2, <2>6, RecordsTyped DEF Recorded
  <2>8. Recorded'
    <3> SUFFICES ASSUME NEW m \in Numbers, manifests[m] # None, NEW r \in manifests[m].records
                 PROVE  /\ r.path \notin meddled \cup unsettled => files'[r.path] = r.content
                        /\ r.path \in {Image, Partial} => r.path \in unsettled \/ Settled'
      BY <1>2, <2>1 DEF Recorded
    <3> QED BY <2>6, <2>7 DEF Recorded
  <2>9. Acquired'
    BY <1>1, <1>5, NamesAssumption
       DEF Acquired, Receive, Grow, PublishImage, Die, Put, DirectoryTypeOK
  <2>10. Swept'
    BY <2>6 DEF Swept
  <2> QED BY <2>3, <2>4, <2>5, <2>8, <2>9, <2>10
<1>6. CASE RecordImage \/ RecordPartial
  <2>1. /\ UNCHANGED files /\ apc' = "ended" /\ apc \in {"streaming", "published"}
    BY <1>6 DEF RecordImage, RecordPartial
  <2>2. PICK p \in {Image, Partial}, c \in Contents :
          /\ files[p] = c
          /\ manifests' = [manifests EXCEPT ![ImageSlot] =
                             [valid |-> TRUE, records |-> {[path |-> p, content |-> c]}]]
    <3>1. CASE RecordImage
      BY <1>1, <3>1 DEF RecordImage, Enter, Acquired
    <3>2. CASE RecordPartial
      BY <1>1, <3>2 DEF RecordPartial, Enter, Acquired
    <3> QED BY <1>6, <3>1, <3>2
  <2>3. /\ manifests'[ImageSlot].records = {[path |-> p, content |-> c]}
        /\ \A m \in Numbers \ {ImageSlot} : manifests'[m] = manifests[m]
    BY <1>1, <2>2 DEF DirectoryTypeOK
  <2>4. DirectoryTypeOK'
    <3>1. [valid |-> TRUE, records |-> {[path |-> p, content |-> c]}] \in Manifest
      BY <1>1 DEF Manifest, Records
    <3> QED BY <1>1, <2>1, <2>2, <3>1 DEF DirectoryTypeOK
  <2>5. EwfTypeOK' /\ Segmented' /\ Adopted' /\ Sealed'
    BY <1>4, <2>1, <2>3, ConversionKept
  <2>6. WritersTypes'
    BY <1>2, <2>1, <2>4, <2>5 DEF WritersTypes
  <2>7. FreshSlots' /\ Acquired'
    BY <1>1, <1>2, <1>4, <2>1, <2>3, AuditAssumption DEF FreshSlots, Acquired
  <2>8. Recorded'
    <3>1. p \notin Own
      BY PathsOfConversion
    <3>2. Settled'
      BY <2>1 DEF Settled
    <3> QED BY <1>2, <2>1, <2>2, <2>3, <3>1, <3>2 DEF Recorded
  <2>9. Swept'
    BY <2>1 DEF Swept, Settled
  <2> QED BY <2>5, <2>6, <2>7, <2>8, <2>9
<1> QED BY <1>5, <1>6 DEF AcquisitionStep

(* The acquisition that fails: what it has hashed is true of the file or   *)
(* was still written, and that is so of its manifest too.                  *)
LEMMA RivalKeeps ==
  ASSUME Writers, RivalStep, UNCHANGED <<files, evars, apc, meddles, meddled>>
  PROVE  Writers'
<1> USE DEF Writers
<1>1. /\ WritersTypes /\ DirectoryTypeOK /\ {Image, Partial} \subseteq Paths
      /\ RivalSlot \in Numbers /\ RivalSlot # ImageSlot /\ None \notin Manifest
      /\ None \notin Contents
  BY AuditAssumption, ManifestAssumption, DirectoryAssumption DEF WritersTypes
<1>2. UNCHANGED <<epc, attempt, written, produced, adopted, verified, claims, meddles, meddled>>
  BY DEF evars
<1>3. \A a \in Attempts : SlotOf[a] # RivalSlot /\ SlotOf[a] \in Numbers
  BY AuditAssumption, ConversionAssumption
<1>4. Acquired' /\ (Settled' <=> Settled)
  BY DEF Acquired, Settled
<1>5. CASE RivalLists \/ RivalFails
  <2>1. UNCHANGED <<manifests, unsettled>> /\ fpc' \in {"adopt", "ended"} /\ fpc # "ended"
    BY <1>5 DEF RivalLists, RivalFails, RivalEnds
  <2>2. /\ swept' = {} /\ residue' \subseteq {Image, Partial}
        /\ fpc' = "ended" => residue' = {}
    BY <1>5 DEF RivalLists, RivalFails, RivalEnds, Swept
  <2>3. EwfTypeOK' /\ Segmented' /\ Adopted' /\ Sealed'
    BY <2>1, ConversionKept
  <2>4. WritersTypes'
    BY <1>1, <1>2, <2>1, <2>2, <2>3 DEF WritersTypes, DirectoryTypeOK
  <2>5. FreshSlots' /\ Swept'
    BY <1>2, <2>1, <2>2 DEF FreshSlots, Swept
  <2>6. Recorded'
    BY <1>2, <1>4, <2>1 DEF Recorded
  <2> QED BY <1>4, <2>3, <2>4, <2>5, <2>6
<1>6. ASSUME NEW p \in {Image, Partial}, RivalAdopts(p)
      PROVE  Writers'
  <2> DEFINE r == [path |-> p, content |-> files[p]]
  <2>1. /\ fpc = "adopt" /\ UNCHANGED <<fpc, manifests>> /\ p \in residue
        /\ files[p] \in Contents /\ residue' = residue \ {p} /\ swept' = swept \cup {r}
        /\ unsettled' = unsettled \cup (IF apc = "streaming" THEN {p} ELSE {})
    BY <1>6 DEF RivalAdopts
  <2>2. r \in Records /\ r.path = p /\ r.content = files[p]
    BY <1>1, <2>1 DEF Records
  <2>3. /\ apc # "idle" /\ (apc = "streaming" => p = Partial)
    BY <1>1, <2>1 DEF Acquired
  <2>4. unsettled \subseteq unsettled' /\ unsettled' \subseteq {Partial}
    BY <1>1, <2>1, <2>3 DEF WritersTypes
  <2>5. p \in unsettled' \/ Settled
    BY <1>1, <2>1, <2>3 DEF WritersTypes, Settled
  <2>6. EwfTypeOK' /\ Segmented' /\ Adopted' /\ Sealed'
    BY <2>1, ConversionKept
  <2> HIDE DEF r
  <2>7. WritersTypes'
    BY <1>1, <1>2, <2>1, <2>2, <2>4, <2>6 DEF WritersTypes, DirectoryTypeOK
  <2>8. FreshSlots'
    BY <1>2, <2>1 DEF FreshSlots
  <2>9. Recorded'
    BY <1>2, <1>4, <2>1, <2>4 DEF Recorded
  <2>10. Swept'
    <3>1. \A t \in swept : t.path # p
      BY <2>1 DEF Swept
    <3>2. \A t \in swept' :
            /\ t.path \in {Image, Partial} \ residue'
            /\ t.path \in unsettled' \/ (Settled' /\ files'[t.path] = t.content)
      BY <1>4, <2>1, <2>2, <2>4, <2>5 DEF Swept
    <3>3. \A t, q \in swept' : q.path = t.path => q = t
      BY <2>1, <2>2, <3>1 DEF Swept
    <3> QED BY <2>1, <3>2, <3>3 DEF Swept
  <2> QED BY <1>4, <2>6, <2>7, <2>8, <2>9, <2>10
<1>7. CASE RivalRecords
  <2>1. /\ fpc = "adopt" /\ fpc' = "ended" /\ residue' = {} /\ swept' = {}
        /\ unsettled' = unsettled
        /\ manifests' = [manifests EXCEPT ![RivalSlot] = [valid |-> TRUE, records |-> swept]]
    BY <1>7 DEF RivalRecords, RivalEnds, Enter
  <2>2. /\ manifests'[RivalSlot].records = swept
        /\ \A m \in Numbers \ {RivalSlot} : manifests'[m] = manifests[m]
    BY <1>1, <2>1 DEF DirectoryTypeOK
  <2>3. DirectoryTypeOK'
    <3>1. [valid |-> TRUE, records |-> swept] \in Manifest
      BY <1>1 DEF Manifest, WritersTypes
    <3> QED BY <1>1, <2>1, <3>1 DEF DirectoryTypeOK
  <2>4. EwfTypeOK' /\ Segmented' /\ Adopted' /\ Sealed'
    BY <1>3, <2>2, ConversionKept
  <2>5. WritersTypes'
    BY <1>1, <1>2, <2>1, <2>3, <2>4 DEF WritersTypes
  <2>6. FreshSlots' /\ Swept'
    BY <1>1, <1>2, <1>3, <2>1, <2>2, AuditAssumption DEF FreshSlots, Swept
  <2>7. \A r \in swept :
          /\ r.path \in {Image, Partial} /\ r.path \notin Own
          /\ \A q \in swept : q.path = r.path => q = r
          /\ r.path \in unsettled \/ (Settled /\ files[r.path] = r.content)
    BY PathsOfConversion DEF Swept
  <2>8. Recorded'
    <3> SUFFICES ASSUME NEW m \in Numbers, manifests'[m] # None, NEW r \in manifests'[m].records
                 PROVE  /\ \A q \in manifests'[m].records : q.path = r.path => q = r
                        /\ r.path \notin meddled \cup unsettled => files[r.path] = r.content
                        /\ r.path \in {Source, Image, Partial} \cup Own
                        /\ r.path \in {Image, Partial} => r.path \in unsettled \/ Settled
                        /\ r.path \in Own => \E a \in Attempts : m = SlotOf[a]
                        /\ epc # "idle" => r.path \notin Own \ meddled
      BY <1>2, <1>4, <2>1 DEF Recorded
    <3>1. CASE m = RivalSlot
      BY <2>2, <2>7, <3>1
    <3>2. CASE m # RivalSlot
      BY <2>2, <3>2 DEF Recorded
    <3> QED BY <3>1, <3>2
  <2> QED BY <1>4, <2>4, <2>5, <2>6, <2>8
<1> QED BY <1>5, <1>6, <1>7 DEF RivalStep

LEMMA MeddlingKeeps ==
  ASSUME Writers, NEW p \in Exposed, NEW c \in {"other", None}, Meddle(p, c),
         UNCHANGED <<evars, apc, fpc, residue, swept, unsettled>>
  PROVE  Writers'
<1> USE DEF Writers
<1>1. DirectoryTypeOK /\ p \in Paths /\ c \in Contents \cup {None}
  BY AuditAssumption DEF WritersTypes
<1>2. /\ UNCHANGED <<epc, attempt, written, produced, adopted, verified, claims, manifests>>
      /\ UNCHANGED <<apc, fpc, residue, swept, unsettled>> /\ fpc = "idle"
  BY DEF evars, Meddle
<1>3. /\ files'[p] = c /\ \A q \in Paths \ {p} : files'[q] = files[q]
      /\ meddled' = meddled \cup {p} /\ apc = "idle"
      /\ files[p] = None => p = Stray
  BY <1>1 DEF Meddle, Put, DirectoryTypeOK
<1>4. \A i \in Segments : SegmentPath[i] \in Paths /\ SegmentPath[i] # Stray
  BY PathsOfConversion
<1>5. "part" # "other" /\ "whole" # "other" /\ None \notin {"part", "whole", "other"}
  BY DirectoryAssumption, AuditAssumption, ConversionAssumption
<1>6. WritersTypes'
  <2>1. meddles' \in 0 .. MaxMeddling
    BY AuditAssumption DEF Meddle, WritersTypes
  <2>2. DirectoryTypeOK'
    BY <1>1, <1>2 DEF Meddle, Put, DirectoryTypeOK
  <2>3. EwfTypeOK'
    BY <1>2 DEF WritersTypes, EwfTypeOK
  <2> QED BY <1>1, <1>2, <1>3, <2>1, <2>2, <2>3 DEF WritersTypes
<1>7. FreshSlots' /\ Acquired' /\ Swept'
  BY <1>2, <1>3, NamesAssumption, AuditAssumption DEF FreshSlots, Acquired, Swept
<1>8. Recorded'
  <2>1. \A m \in Numbers : manifests[m] # None =>
          \A r \in manifests[m].records : r.path \in Paths
    BY <1>1, RecordsTyped
  <2>2. \A m \in Numbers : manifests[m] # None =>
          \A r \in manifests[m].records :
            r.path \notin meddled' => r.path \notin meddled /\ files'[r.path] = files[r.path]
    BY <1>3, <2>1
  <2> QED BY <1>2, <1>3, <2>2 DEF Recorded, Settled
<1>9. Segmented'
  BY <1>1, <1>2, <1>3, <1>4, <1>5 DEF Segmented
<1>10. Adopted'
  <2>1. \A r \in adopted : r.path \in Paths
    BY <1>4 DEF Adopted
  <2>2. \A r \in adopted :
          /\ files'[r.path] = "whole" => files[r.path] = "whole"
          /\ r.path \notin meddled' => r.path \notin meddled /\ files'[r.path] = files[r.path]
    BY <1>3, <1>5, <2>1
  <2> QED BY <1>2, <2>2 DEF Adopted
<1>11. Sealed'
  <2>1. Own \cap meddled' = {} =>
          /\ Own \cap meddled = {}
          /\ {q \in Own : files'[q] # None} = {q \in Own : files[q] # None}
    BY <1>3, PathsOfConversion
  <2> QED BY <1>2, <2>1 DEF Sealed
<1> QED BY <1>6, <1>7, <1>8, <1>9, <1>10, <1>11

-----------------------------------------------------------------------------
(* While a conversion goes on, a container that has a manifest already was *)
(* changed by somebody: otherwise its segments would be in the way.        *)
LEMMA SealedIsInTheWay ==
  ASSUME Writers, epc # "idle", NEW a \in Attempts, manifests[SlotOf[a]] # None
  PROVE  Own \cap meddled # {}
<1>1. PICK r \in manifests[SlotOf[a]].records : r.path \in Own
  BY DEF Writers, Sealed
<1> QED BY <1>1, ConversionAssumption DEF Writers, Recorded

(* What has to be shown of a step of the conversion that writes no manifest.*)
LEMMA ConversionRests ==
  ASSUME Writers, UNCHANGED <<manifests, claims, apc, fpc, residue, swept, unsettled>>,
         UNCHANGED <<meddles, meddled>>,
         EwfTypeOK', Segmented', Adopted',
         \A p \in Paths \ Own : files'[p] = files[p],
         \A p \in Own : files'[p] = files[p] \/ epc # "idle",
         files' \in [Paths -> Contents \cup {None, Link}],
         attempt' >= attempt, epc # "idle" => attempt' = attempt,
         epc = "idle" /\ epc' # "idle" => attempt' > attempt /\ SegmentsPresent = {}
  PROVE  Writers'
<1> USE DEF Writers
<1>1. DirectoryTypeOK' /\ WritersTypes'
  BY DEF WritersTypes, DirectoryTypeOK
<1>2. attempt \in Nat /\ attempt' \in Nat
  BY DEF WritersTypes, EwfTypeOK
<1>3. FreshSlots'
  BY <1>2, ConversionAssumption DEF FreshSlots
<1>4. Acquired' /\ Swept' /\ (Settled' <=> Settled)
  <2>1. files'[Image] = files[Image] /\ files'[Partial] = files[Partial]
    BY PathsOfConversion, AuditAssumption
  <2> QED BY <2>1 DEF Acquired, Swept, Settled
<1>5. \A m \in Numbers : manifests[m] # None =>
        \A r \in manifests[m].records : r.path \in Paths /\ r.content \in Contents
  BY RecordsTyped DEF WritersTypes
<1>6. epc = "idle" /\ epc' # "idle" => \A p \in Own : files[p] = None
  BY DEF SegmentsPresent, Own
<1>7. Recorded'
  <2> SUFFICES ASSUME NEW m \in Numbers, manifests[m] # None, NEW r \in manifests[m].records
               PROVE  /\ r.path \notin meddled => files'[r.path] = files[r.path]
                      /\ epc' # "idle" => r.path \notin Own \ meddled
    BY <1>4 DEF Recorded
  <2>1. r.path \in Paths /\ r.content \in Contents
    BY <1>5
  <2>2. epc # "idle" => r.path \notin Own \ meddled
    BY DEF Recorded
  <2>3. r.path \in Own \ meddled => files[r.path] = r.content
    BY PathsOfConversion DEF Recorded, WritersTypes
  <2>4. r.path \notin meddled => files'[r.path] = files[r.path]
    BY <2>1, <2>2
  <2>5. epc' # "idle" => r.path \notin Own \ meddled
    BY <1>6, <2>1, <2>2, <2>3, DirectoryAssumption
  <2> QED BY <2>4, <2>5
<1>8. Sealed'
  <2> SUFFICES ASSUME NEW a \in Attempts, manifests[SlotOf[a]] # None, Own \cap meddled = {}
               PROVE  {q \in Own : files'[q] # None} = {q \in Own : files[q] # None}
    BY DEF Sealed
  <2>1. epc = "idle"
    BY SealedIsInTheWay
  <2> QED BY <2>1
<1> QED BY <1>1, <1>3, <1>4, <1>7, <1>8

LEMMA AttemptsKeep ==
  ASSUME Writers, UNCHANGED <<apc, fpc, residue, swept, unsettled, meddles, meddled>>,
         \/ StartConversion \/ StartRefused \/ AcquireFails \/ NothingProduced
         \/ AdoptFails \/ ContainerRejected \/ CaseUnreadable
  PROVE  Writers'
<1> USE DEF Writers
<1>1. WritersTypes /\ EwfTypeOK /\ UNCHANGED <<files, manifests>>
  BY DEF WritersTypes, StartConversion, StartRefused, Tries, AcquireFails, NothingProduced,
         AdoptFails, ContainerRejected, CaseUnreadable
<1>2. /\ files' \in [Paths -> Contents \cup {None, Link}] /\ UNCHANGED <<files, manifests>>
      /\ attempt \in Nat
  BY <1>1 DEF WritersTypes, DirectoryTypeOK, EwfTypeOK
<1>3. CASE StartConversion \/ StartRefused
  <2>1. /\ UNCHANGED <<written, produced, adopted, verified, claims>>
        /\ epc = "idle" /\ attempt' = attempt + 1 /\ attempt' \in 0 .. MaxAttempts
        /\ epc' \in {"idle", "acquire"} /\ (epc' = "acquire" => SegmentsPresent = {})
    BY <1>1, <1>3, ConversionAssumption DEF StartConversion, StartRefused, Tries, EwfTypeOK
  <2>2. EwfTypeOK'
    BY <1>1, <1>2, <2>1 DEF EwfTypeOK, EwfPhases
  <2>3. Segmented'
    BY <1>2, <2>1 DEF Segmented, SegmentsPresent
  <2>4. Adopted'
    BY <1>2, <2>1 DEF Adopted
  <2> QED BY <1>2, <2>1, <2>2, <2>3, <2>4, ConversionRests
<1>4. CASE \/ AcquireFails \/ NothingProduced \/ AdoptFails \/ ContainerRejected
           \/ CaseUnreadable
  <2>1. /\ epc # "idle" /\ UNCHANGED <<attempt, claims>>
        /\ epc' = "idle" /\ written' = 0 /\ produced' = {} /\ adopted' = {}
        /\ verified' = "none"
    BY <1>4 DEF AcquireFails, NothingProduced, AdoptFails, ContainerRejected, CaseUnreadable,
                Fails, EndAttempt
  <2>2. EwfTypeOK'
    BY <1>1, <2>1, ConversionAssumption DEF EwfTypeOK, EwfPhases, Verifications
  <2>3. Segmented' /\ Adopted'
    BY <1>2, <2>1 DEF Segmented, Adopted
  <2> QED BY <1>2, <2>1, <2>2, <2>3, ConversionRests
<1> QED BY <1>3, <1>4

LEMMA SegmentsKeep ==
  ASSUME Writers, UNCHANGED <<apc, fpc, residue, swept, unsettled, meddles, meddled>>, OpenSegment \/ CloseSegment
  PROVE  Writers'
<1> USE DEF Writers
<1>1. /\ EwfTypeOK /\ DirectoryTypeOK /\ epc = "acquire" /\ UNCHANGED manifests
      /\ UNCHANGED <<epc, attempt, produced, adopted, verified, claims>>
  BY DEF WritersTypes, OpenSegment, CloseSegment, evars
<1>2. {"part", "whole"} \subseteq Contents /\ None \notin Contents
  BY ConversionAssumption, DirectoryAssumption
<1>3. adopted = {}
  BY <1>1 DEF Adopted
<1>4. written \in 0 .. MaxSegments /\ MaxSegments \in Nat
  BY <1>1, ConversionAssumption DEF EwfTypeOK
<1>5. CASE OpenSegment
  <2>1. /\ written' = written + 1 /\ written' \in Segments
        /\ files' = [files EXCEPT ![SegmentPath[written']] = "part"]
        /\ written > 0 => files[SegmentPath[written]] # "part"
    BY <1>4, <1>5 DEF OpenSegment, Put
  <2>2. files' \in [Paths -> Contents \cup {None, Link}]
    BY <1>1, <1>2, <2>1, PathsOfConversion DEF DirectoryTypeOK
  <2>3. /\ \A p \in Paths \ Own : files'[p] = files[p]
        /\ \A i \in Segments : files'[SegmentPath[i]] =
                                 IF i = written' THEN "part" ELSE files[SegmentPath[i]]
    BY <1>1, <2>1, PathsOfConversion DEF DirectoryTypeOK
  <2>4. Segmented'
    <3> SUFFICES ASSUME NEW i \in Segments
                 PROVE  /\ files'[SegmentPath[i]] \in Contents \cup {None}
                        /\ i > written' => files'[SegmentPath[i]] = None
                        /\ i < written' => files'[SegmentPath[i]] # "part"
                        /\ i <= written' /\ SegmentPath[i] \notin meddled =>
                             files'[SegmentPath[i]] \in {"part", "whole"}
      BY <1>1 DEF Segmented
    <3>1. CASE i = written'
      BY <1>2, <2>1, <2>3, <3>1
    <3>2. CASE i = written
      BY <1>1, <1>2, <1>4, <2>1, <2>3, <3>2 DEF Segmented
    <3>3. CASE i # written /\ i # written'
      BY <1>1, <1>2, <1>4, <2>1, <2>3, <3>3 DEF Segmented
    <3> QED BY <3>1, <3>2, <3>3
  <2>5. Adopted'
    BY <1>1, <1>3 DEF Adopted
  <2>6. EwfTypeOK'
    BY <1>1, <2>1 DEF EwfTypeOK
  <2> QED BY <1>1, <2>2, <2>3, <2>4, <2>5, <2>6, ConversionRests DEF EwfTypeOK
<1>6. CASE CloseSegment
  <2>1. /\ UNCHANGED written /\ written \in Segments
        /\ files' = [files EXCEPT ![SegmentPath[written]] = "whole"]
    BY <1>4, <1>6 DEF CloseSegment, Put, evars
  <2>2. files' \in [Paths -> Contents \cup {None, Link}]
    BY <1>1, <1>2, <2>1, PathsOfConversion DEF DirectoryTypeOK
  <2>3. /\ \A p \in Paths \ Own : files'[p] = files[p]
        /\ \A i \in Segments : files'[SegmentPath[i]] =
                                 IF i = written THEN "whole" ELSE files[SegmentPath[i]]
    BY <1>1, <2>1, PathsOfConversion DEF DirectoryTypeOK
  <2>4. Segmented'
    BY <1>1, <1>2, <1>4, <2>1, <2>3 DEF Segmented
  <2>5. Adopted'
    BY <1>1, <1>3 DEF Adopted
  <2>6. EwfTypeOK'
    BY <1>1, <2>1 DEF EwfTypeOK
  <2> QED BY <1>1, <2>2, <2>3, <2>4, <2>5, <2>6, ConversionRests DEF EwfTypeOK
<1> QED BY <1>5, <1>6

LEMMA ListingKeeps ==
  ASSUME Writers, UNCHANGED <<apc, fpc, residue, swept, unsettled, meddles, meddled>>, ListProduced
  PROVE  Writers'
<1> USE DEF Writers
<1>1. /\ EwfTypeOK /\ DirectoryTypeOK /\ epc = "acquire" /\ UNCHANGED <<files, manifests>>
      /\ UNCHANGED <<attempt, claims, written, adopted, verified>>
      /\ epc' = "adopt" /\ produced' = SegmentsPresent /\ produced' # {}
  BY DEF WritersTypes, ListProduced, Step
<1>2. adopted = {} /\ written \in 0 .. MaxSegments
  BY <1>1 DEF Adopted, EwfTypeOK
<1>3. EwfTypeOK'
  BY <1>1 DEF EwfTypeOK, EwfPhases, SegmentsPresent
<1>4. Adopted'
  BY <1>1, <1>2 DEF Adopted
<1>5. Segmented'
  <2>1. None \notin {"part", "whole"}
    BY ConversionAssumption, DirectoryAssumption
  <2> SUFFICES ASSUME NEW i \in Segments
               PROVE  /\ files[SegmentPath[i]] # "part"
                      /\ SegmentPath[i] \notin meddled => files[SegmentPath[i]] \in {"whole", None}
                      /\ files[SegmentPath[i]] # None => i \in produced'
    BY <1>1 DEF Segmented
  <2>2. i = written => files[SegmentPath[i]] # "part"
    BY DEF ListProduced, Idle
  <2> QED BY <1>1, <1>2, <2>1, <2>2 DEF Segmented, SegmentsPresent
<1> QED BY <1>1, <1>3, <1>4, <1>5, ConversionRests DEF EwfTypeOK, DirectoryTypeOK

LEMMA HashingKeeps ==
  ASSUME Writers, UNCHANGED <<apc, fpc, residue, swept, unsettled, meddles, meddled>>, NEW i \in Segments, Adopt(i)
  PROVE  Writers'
<1> USE DEF Writers
<1> DEFINE r == [path |-> SegmentPath[i], content |-> files[SegmentPath[i]]]
<1>1. /\ EwfTypeOK /\ DirectoryTypeOK /\ epc = "adopt" /\ UNCHANGED <<files, manifests>>
      /\ UNCHANGED <<attempt, claims, written, verified>>
      /\ epc' = IF produced = {i} THEN "verify" ELSE "adopt"
      /\ i \in produced /\ produced' = produced \ {i} /\ adopted' = adopted \cup {r}
      /\ r.content \in Contents
  BY DEF WritersTypes, Adopt, Step
<1>2. r \in Records /\ r.path = SegmentPath[i] /\ r.content = files[r.path]
  BY <1>1, PathsOfConversion DEF Records
<1>3. EwfTypeOK'
  BY <1>1, <1>2 DEF EwfTypeOK, EwfPhases
<1>4. Segmented'
  BY <1>1, <1>2 DEF Segmented
<1>5. verified = "none"
  BY <1>1 DEF Adopted
<1>6. Adopted'
  <2>1. \A s \in adopted : s.path # r.path
    BY <1>1, <1>2, PathsOfConversion DEF Adopted
  <2>2. /\ epc' = "verify" => adopted' # {} /\ produced' = {}
        /\ epc' = "adopt" => produced' # {}
    BY <1>1
  <2> HIDE DEF r
  <2>3. \A s \in adopted' :
         /\ \E j \in Segments \ produced' : s.path = SegmentPath[j]
         /\ files[s.path] = "whole" => s.content = "whole"
         /\ s.path \notin meddled => files[s.path] = s.content
    BY <1>1, <1>2 DEF Adopted
  <2>4. \A s, t \in adopted' : t.path = s.path => t = s
    BY <1>1, <2>1 DEF Adopted
  <2> QED BY <1>1, <1>5, <2>2, <2>3, <2>4 DEF Adopted
<1> QED BY <1>1, <1>3, <1>4, <1>6, ConversionRests DEF EwfTypeOK, DirectoryTypeOK

LEMMA EwfverifyKeeps ==
  ASSUME Writers, UNCHANGED <<apc, fpc, residue, swept, unsettled, meddles, meddled>>, VerifyContainer
  PROVE  Writers'
<1> USE DEF Writers
<1>1. /\ EwfTypeOK /\ DirectoryTypeOK /\ epc = "verify" /\ UNCHANGED <<files, manifests>>
      /\ UNCHANGED <<attempt, claims, written, produced, adopted>>
      /\ epc' = "record" /\ verified' \in {"success", "not_run"}
      /\ verified' = "success" => \A r \in adopted : files[r.path] = "whole"
  BY DEF WritersTypes, VerifyContainer, Step
<1>2. EwfTypeOK'
  BY <1>1 DEF EwfTypeOK, EwfPhases, Verifications
<1>3. Segmented' /\ Adopted'
  BY <1>1 DEF Segmented, Adopted
<1> QED BY <1>1, <1>2, <1>3, ConversionRests DEF EwfTypeOK, DirectoryTypeOK

LEMMA RecordingKeeps ==
  ASSUME Writers, UNCHANGED <<apc, fpc, residue, swept, unsettled, meddles, meddled>>, RecordContainer
  PROVE  Writers'
<1> USE DEF Writers
<1> DEFINE now == SlotOf[attempt]
<1>1. /\ EwfTypeOK /\ DirectoryTypeOK /\ epc = "record" /\ UNCHANGED <<files, attempt>>
      /\ manifests' = [manifests EXCEPT ![SlotOf[attempt]] =
                         [valid |-> TRUE, records |-> adopted]]
      /\ claims' = [claims EXCEPT ![attempt] = verified]
      /\ epc' = "idle" /\ written' = 0 /\ produced' = {} /\ adopted' = {}
      /\ verified' = "none"
  BY DEF WritersTypes, RecordContainer, EndAttempt, Enter
<1>2. attempt \in Attempts /\ now \in Numbers /\ now \notin {ImageSlot, RivalSlot}
  BY <1>1, ConversionAssumption, AuditAssumption DEF EwfTypeOK
<1>3. /\ manifests'[now].records = adopted /\ manifests'[now] # None
      /\ \A m \in Numbers \ {now} : manifests'[m] = manifests[m]
      /\ DirectoryTypeOK'
  <2>1. [valid |-> TRUE, records |-> adopted] \in Manifest
    BY <1>1 DEF Manifest, EwfTypeOK
  <2> QED BY <1>1, <1>2, <2>1, ManifestAssumption DEF DirectoryTypeOK
<1>4. \A a \in Attempts : a # attempt => SlotOf[a] # now /\ SlotOf[a] \in Numbers
  BY <1>2, ConversionAssumption
<1>5. EwfTypeOK'
  BY <1>1, <1>2, ConversionAssumption DEF EwfTypeOK, EwfPhases, Verifications
<1>6. WritersTypes'
  BY <1>3, <1>5 DEF WritersTypes
<1> HIDE DEF now
<1>7. FreshSlots' /\ Acquired' /\ Swept' /\ (Settled' <=> Settled)
  <2>1. \A a \in Attempts : a > attempt => a # attempt
    BY <1>2, ConversionAssumption
  <2> QED BY <1>1, <1>2, <1>3, <1>4, <2>1, AuditAssumption
         DEF FreshSlots, Acquired, Swept, Settled, now
<1>8. adopted # {} /\ \A r \in adopted :
        /\ r.path \in Own /\ r.path \in Paths /\ r.content \in Contents
        /\ r.path \notin {Image, Partial}
        /\ \A s \in adopted : s.path = r.path => s = r
        /\ r.path \notin meddled => files[r.path] = r.content
        /\ verified = "success" => r.content = "whole"
  BY <1>1, PathsOfConversion DEF Adopted, EwfTypeOK, Records
<1>9. Recorded'
  <2> SUFFICES ASSUME NEW m \in Numbers, manifests'[m] # None,
                      NEW r \in manifests'[m].records
               PROVE  /\ \A s \in manifests'[m].records : s.path = r.path => s = r
                      /\ r.path \notin meddled \cup unsettled => files[r.path] = r.content
                      /\ r.path \in {Source, Image, Partial} \cup Own
                      /\ r.path \in {Image, Partial} => r.path \in unsettled \/ Settled
                      /\ r.path \in Own => \E a \in Attempts : m = SlotOf[a]
    BY <1>1, <1>7 DEF Recorded
  <2>1. CASE m = now
    BY <1>2, <1>3, <1>8, <2>1 DEF now
  <2>2. CASE m # now
    BY <1>3, <2>2 DEF Recorded
  <2> QED BY <2>1, <2>2
<1>10. Segmented' /\ Adopted'
  BY <1>1 DEF Segmented, Adopted
<1>11. \A a \in Attempts : a # attempt /\ manifests'[SlotOf[a]] # None =>
         Own \cap meddled # {}
  BY <1>1, <1>3, <1>4, SealedIsInTheWay
<1>12. Own \cap meddled = {} =>
         adopted = {[path |-> p, content |-> "whole"] : p \in {q \in Own : files[q] # None}}
  <2> SUFFICES ASSUME Own \cap meddled = {}
               PROVE  adopted = {[path |-> p, content |-> "whole"] :
                                    p \in {q \in Own : files[q] # None}}
    OBVIOUS
  <2>1. \A q \in Own : files[q] \in {"whole", None}
                       /\ (files[q] # None => \E r \in adopted : r.path = q)
    BY <1>1 DEF Own, Segmented, Adopted
  <2>2. \A r \in adopted : files[r.path] # None /\ r = [path |-> r.path, content |-> "whole"]
    <3> SUFFICES ASSUME NEW r \in adopted
                 PROVE  files[r.path] # None /\ r = [path |-> r.path, content |-> "whole"]
      OBVIOUS
    <3>1. r.path \notin meddled /\ r.content \in Contents /\ r \in Records
      BY <1>1, <1>8 DEF EwfTypeOK
    <3>2. r.content = "whole" /\ files[r.path] # None
      BY <1>8, <2>1, <3>1, DirectoryAssumption
    <3> QED BY <3>1, <3>2 DEF Records
  <2> QED BY <1>8, <2>1, <2>2
<1>13. Sealed'
  <2> SUFFICES ASSUME NEW a \in Attempts, manifests'[SlotOf[a]] # None
               PROVE  LET records == manifests'[SlotOf[a]].records
                      IN  /\ records # {} /\ \A r \in records : r.path \in Own
                          /\ Own \cap meddled = {} =>
                               /\ records = {[path |-> p, content |-> "whole"] :
                                                p \in {q \in Own : files[q] # None}}
                               /\ \A b \in Attempts : manifests'[SlotOf[b]] # None => a = b
                          /\ claims'[a] = "success" => \A r \in records : r.content = "whole"
    BY <1>1 DEF Sealed
  <2>1. CASE a = attempt
    <3>1. manifests'[SlotOf[a]].records = adopted /\ claims'[a] = verified
      BY <1>1, <1>2, <1>3, <2>1 DEF now, EwfTypeOK
    <3> QED BY <1>8, <1>11, <1>12, <2>1, <3>1
  <2>2. CASE a # attempt
    <3>1. manifests'[SlotOf[a]] = manifests[SlotOf[a]] /\ claims'[a] = claims[a]
      BY <1>1, <1>3, <1>4, <2>2 DEF EwfTypeOK
    <3> QED BY <1>11, <2>2, <3>1 DEF Sealed
  <2> QED BY <2>1, <2>2
<1> QED BY <1>6, <1>7, <1>9, <1>10, <1>13

LEMMA ConversionKeeps ==
  ASSUME Writers, EwfStep, UNCHANGED <<apc, fpc, residue, swept, unsettled, meddles, meddled>>
  PROVE  Writers'
  BY AttemptsKeep, SegmentsKeep, ListingKeeps, HashingKeeps, EwfverifyKeeps, RecordingKeeps
     DEF EwfStep

-----------------------------------------------------------------------------
(* What the reading command may rely on while others write.                *)
Progress ==
    /\ EntriesNow \subseteq EntriesNow' /\ faulted' = faulted
    /\ meddled \subseteq meddled' /\ unsettled \subseteq unsettled'
    /\ \A p \in Paths : files'[p] = Link => files[p] = Link

WriterStep == UNCHANGED rvars /\ (Converts \/ Acquires \/ Meddles)

LEMMA EntriesGrow ==
  ASSUME \A m \in Numbers : manifests[m] # None => manifests'[m] = manifests[m]
  PROVE  EntriesNow \subseteq EntriesNow'
  BY DEF EntriesNow, EntriesOf

LEMMA WritersProgress ==
  ASSUME Writers, WriterStep
  PROVE  Writers' /\ Progress
<1>1. DirectoryTypeOK /\ EwfTypeOK /\ {"part", "whole", "other"} \subseteq Contents
      /\ Link \notin Contents \cup {None} /\ {Image, Partial} \subseteq Paths
  BY DirectoryAssumption, ConversionAssumption, AuditAssumption DEF Writers, WritersTypes
<1>2. CASE Converts
  <2>1. Writers'
    BY <1>2, ConversionKeeps DEF Converts, avars, stranger
  <2>2. \A m \in Numbers : manifests[m] # None => manifests'[m] = manifests[m]
    <3>1. CASE RecordContainer
      <4>1. manifests[SlotOf[attempt]] = None
        BY <1>1, <3>1, ConversionAssumption DEF Writers, FreshSlots, RecordContainer, EwfTypeOK
      <4> QED BY <1>1, <3>1, <4>1 DEF RecordContainer, Enter, DirectoryTypeOK
    <3>2. CASE ~RecordContainer
      BY <1>2, <3>2
         DEF Converts, EwfStep, StartConversion, StartRefused, Tries, OpenSegment, CloseSegment,
             AcquireFails, ListProduced, NothingProduced, Adopt, AdoptFails, VerifyContainer,
             ContainerRejected, CaseUnreadable
    <3> QED BY <3>1, <3>2
  <2>3. \A p \in Paths : files'[p] = Link => files[p] = Link
    <3>1. CASE OpenSegment \/ CloseSegment
      BY <1>1, <3>1 DEF OpenSegment, CloseSegment, Put, DirectoryTypeOK
    <3>2. CASE ~(OpenSegment \/ CloseSegment)
      BY <1>2, <3>2
         DEF Converts, EwfStep, StartConversion, StartRefused, Tries, AcquireFails, ListProduced,
             NothingProduced, Adopt, AdoptFails, VerifyContainer, ContainerRejected,
             CaseUnreadable, RecordContainer
    <3> QED BY <3>1, <3>2
  <2> QED BY <1>2, <2>1, <2>2, <2>3, EntriesGrow DEF Progress, Converts, stranger
<1>3. CASE Acquires /\ AcquisitionStep /\ UNCHANGED <<fpc, residue, swept, unsettled>>
  <2>1. Writers'
    BY <1>3, AcquisitionKeeps DEF Acquires, stranger
  <2>2. \A m \in Numbers : manifests[m] # None => manifests'[m] = manifests[m]
    BY <1>1, <1>3
       DEF Writers, FreshSlots, AcquisitionStep, Receive, Grow, PublishImage, Die,
           RecordImage, RecordPartial, Enter, DirectoryTypeOK
  <2>3. \A p \in Paths : files'[p] = Link => files[p] = Link
    BY <1>1, <1>3
       DEF AcquisitionStep, Receive, Grow, PublishImage, Die, RecordImage, RecordPartial,
           Put, DirectoryTypeOK
  <2> QED BY <1>3, <2>1, <2>2, <2>3, EntriesGrow DEF Progress, Acquires, stranger
<1>4. CASE Acquires /\ RivalStep /\ UNCHANGED <<files, apc>>
  <2>1. Writers'
    BY <1>4, RivalKeeps DEF Acquires, stranger
  <2>2. \A m \in Numbers : manifests[m] # None => manifests'[m] = manifests[m]
    BY <1>1, <1>4
       DEF Writers, FreshSlots, RivalStep, RivalLists, RivalAdopts, RivalRecords, RivalFails,
           Enter, DirectoryTypeOK
  <2>3. unsettled \subseteq unsettled'
    BY <1>4 DEF RivalStep, RivalLists, RivalAdopts, RivalRecords, RivalFails, RivalEnds
  <2> QED BY <1>4, <2>1, <2>2, <2>3, EntriesGrow DEF Progress, Acquires, stranger
<1>5. CASE Meddles
  <2>1. PICK p \in Exposed, c \in {"other", None} : Meddle(p, c)
    BY <1>5 DEF Meddles
  <2>2. Writers'
    BY <1>5, <2>1, MeddlingKeeps DEF Meddles, avars
  <2>3. UNCHANGED manifests /\ meddled' = meddled \cup {p}
    BY <2>1 DEF Meddle
  <2>4. \A q \in Paths : files'[q] = Link => files[q] = Link
    BY <1>1, <2>1 DEF Meddle, Put, DirectoryTypeOK
  <2> QED BY <1>5, <2>2, <2>3, <2>4, EntriesGrow DEF Progress, Meddles
<1> QED BY <1>2, <1>3, <1>4, <1>5 DEF WriterStep, Acquires

LEMMA ReadsKeepWriters ==
  ASSUME Writers, UNCHANGED <<files, manifests, evars, avars, stranger, unsettled>>
  PROVE  Writers'
<1>1. /\ UNCHANGED <<files, manifests, epc, attempt, written, produced, adopted, verified, claims>>
      /\ UNCHANGED <<apc, fpc, residue, swept, unsettled, meddles, meddled>>
  BY DEF evars, avars, stranger
<1>2. WritersTypes' /\ FreshSlots' /\ Acquired' /\ Swept' /\ Segmented' /\ Adopted' /\ Sealed'
  BY <1>1 DEF Writers, WritersTypes, DirectoryTypeOK, EwfTypeOK, FreshSlots,
              Acquired, Swept, Settled, Segmented, Adopted, Sealed
<1>3. Recorded'
  BY <1>1 DEF Writers, Recorded, Settled
<1> QED BY <1>2, <1>3 DEF Writers

-----------------------------------------------------------------------------
USE DEF Kinds, Single, Checking, Outcomes, ReadPhases, ReadExits, Looking

LEMMA TruthIs ==
  ASSUME NEW p \in Paths, NEW entries \in SUBSET Entries
  PROVE  /\ Of(p, entries) = {} =>
              Truth(p, entries) = IF files[p] = None THEN "none" ELSE "EXTRA"
         /\ Of(p, entries) # {} =>
              /\ files[p] = None => Truth(p, entries) = "MISSING"
              /\ files[p] # None =>
                   Truth(p, entries) = IF \E e \in First(Of(p, entries)) :
                                            files[p] = e.record.content
                                         THEN "MATCH" ELSE "MISMATCH"
<1>1. \A e \in First(Of(p, entries)) : e.record.content \in Contents
  BY DEF First, Of, Entries, Records
<1> QED BY <1>1, DirectoryAssumption DEF Truth

LEMMA Cleared == Nothing \in [Paths -> Outcomes] /\ 0 \in 0 .. Len(ClassOrder)
<1>1. Len(ClassOrder) \in Nat
  BY DirectoryAssumption
<1> QED BY <1>1 DEF Nothing

LEMMA ReaderInits == Init => Reader
<1> SUFFICES ASSUME Init PROVE Reader
  OBVIOUS
<1> USE DEF Init, ReaderInit
<1>1. ReaderTypeOK /\ steady \subseteq Paths /\ faulted \in BOOLEAN
  BY Cleared DEF ReaderTypeOK
<1>2. Phases /\ Standing /\ Covered /\ Causes /\ LeftAlone
  BY DEF Phases, Standing, Covered, Causes, LeftAlone, InHand, Nothing
<1>3. VerdictIsTrue /\ EveryFindingHasACause /\ ReportCovers
  BY DEF VerdictIsTrue, EveryFindingHasACause, ReportCovers, Nothing
<1> QED BY <1>1, <1>2, <1>3 DEF Reader

(* While another process takes a step.                                     *)
LEMMA ReaderWaits ==
  ASSUME Writers, Writers', Reader, WriterStep, Progress, Observe, rpc # "done"
  PROVE  Reader'
<1> USE DEF Reader
<1>1. UNCHANGED <<rpc, kind, loaded, shown, todo, accounted, current, outcome, dirs, unread,
                  found, exit>>
  BY DEF WriterStep, rvars, checks, scan
<1>2. ReaderTypeOK' /\ steady' \subseteq Paths /\ faulted' \in BOOLEAN /\ exit = "none"
  BY <1>1 DEF ReaderTypeOK, Observe, Progress
<1>3. loaded \subseteq Entries /\ loaded' = loaded
  BY <1>1 DEF ReaderTypeOK
<1>4. Phases'
  <2>1. rpc = "hash" => current.record.path \in Paths
    BY <1>3 DEF Phases, Entries, Records
  <2> QED BY <1>1, <2>1 DEF Phases, Progress
<1>5. Standing' /\ Causes'
  BY <1>1, <1>2 DEF Standing, Causes, Progress, ReaderTypeOK
<1>6. Covered'
  BY <1>1 DEF Covered, InHand
<1>7. LeftAlone'
  <2> SUFFICES ASSUME rpc \in Looking, ~faulted, NEW p \in steady'
               PROVE  Sound(p)'
    BY <1>1 DEF LeftAlone, Progress
  <2>1. /\ p \in steady /\ p \in Paths /\ files'[p] = files[p]
        /\ Of(p, EntriesNow') = Of(p, EntriesNow)
    BY DEF Observe
  <2>2. Sound(p)
    BY <2>1 DEF LeftAlone
  <2>3. Truth(p, loaded)' = Truth(p, loaded) /\ (InHand(p)' <=> InHand(p))
    BY <1>1, <2>1 DEF Truth, Of, First, InHand
  <2>4. Of(p, loaded)' = Of(p, loaded) /\ First(Of(p, loaded))' = First(Of(p, loaded))
        /\ Of(p, EntriesNow)' = Of(p, EntriesNow')
    BY <1>1 DEF Of, First
  <2> QED BY <1>1, <2>1, <2>2, <2>3, <2>4 DEF Sound
<1>8. VerdictIsTrue' /\ EveryFindingHasACause' /\ ReportCovers'
  BY <1>1, <1>2, <1>5 DEF VerdictIsTrue, EveryFindingHasACause, ReportCovers, Causes
<1> QED BY <1>2, <1>4, <1>5, <1>6, <1>7, <1>8

-----------------------------------------------------------------------------
(* A step of the reading command itself.                                   *)
Still ==
    /\ Writers /\ Reader /\ rpc # "done" /\ Observe
    /\ UNCHANGED <<files, manifests, evars, avars, stranger, unsettled>>
    /\ meddled' = meddled /\ faulted' \in BOOLEAN /\ (faulted => faulted')

LEMMA StillKeeps ==
  ASSUME Still
  PROVE  /\ EntriesNow' = EntriesNow /\ EntriesNow \subseteq Entries
         /\ steady' = IF rpc = "idle" THEN Paths ELSE steady
         /\ steady \subseteq Paths /\ loaded \subseteq Entries /\ exit = "none"
         /\ faulted' \in BOOLEAN
         /\ \A p, es : Of(p, es)' = Of(p, es)
<1>1. EntriesNow' = EntriesNow
  BY DEF Still, EntriesNow, EntriesOf
<1>2. EntriesNow \subseteq Entries
  BY EntriesTyped DEF Still, Writers, WritersTypes
<1>3. steady \subseteq Paths /\ loaded \subseteq Entries /\ exit = "none"
  BY DEF Still, Reader, ReaderTypeOK
<1>4. steady' = IF rpc = "idle" THEN Paths ELSE steady
  BY <1>1, <1>3 DEF Still, Observe
<1> QED BY <1>1, <1>2, <1>3, <1>4 DEF Still, Of

LEMMA GivingUp ==
  ASSUME Still, NEW e \in {"invalid", "refused", "interrupted", "io"}, GivesUp(e),
         kind' \in Kinds,
         e = "io" => \/ faulted'
                     \/ rpc # "idle" /\ \E p \in Paths : p \notin steady /\ files[p] = None
  PROVE  Reader'
<1>1. /\ rpc' = "done" /\ exit' = e /\ loaded' = {} /\ shown' = {} /\ todo' = {}
      /\ accounted' = {} /\ current' = None /\ outcome' = Nothing
      /\ dirs' = 0 /\ unread' = {} /\ found' = {} /\ UNCHANGED files
  BY DEF GivesUp, Ends, Still
<1>2. ReaderTypeOK' /\ steady' \subseteq Paths
  BY <1>1, Cleared, StillKeeps DEF ReaderTypeOK
<1>3. Phases' /\ Standing' /\ Covered' /\ Causes' /\ LeftAlone'
  BY <1>1 DEF Phases, Standing, Covered, Causes, LeftAlone, Nothing
<1>4. VerdictIsTrue' /\ ReportCovers'
  BY <1>1 DEF VerdictIsTrue, ReportCovers
<1>5. EveryFindingHasACause'
  BY <1>1, StillKeeps DEF EveryFindingHasACause, Nothing
<1> QED BY <1>2, <1>3, <1>4, <1>5, StillKeeps DEF Reader

(* What load_manifests gives.                                              *)
LEMMA LoadedAre ==
  ASSUME NEW k, NEW blind \in BOOLEAN, NEW M \in SUBSET Numbers, Loads(k, blind, M)
  PROVE  /\ UNION {EntriesOf(m) : m \in M} \subseteq EntriesNow
         /\ k \notin Single /\ ~blind => UNION {EntriesOf(m) : m \in M} = EntriesNow
<1>1. \A m \in M : manifests[m] # None
  BY DEF Loads, Chosen, InPlace
<1>2. k \notin Single /\ ~blind => M = {m \in Numbers : manifests[m] # None}
  BY DEF Loads, Chosen, InPlace
<1> QED BY <1>1, <1>2 DEF EntriesNow

LEMMA Beginning ==
  ASSUME Still, NEW k \in Kinds, NEW blind \in BOOLEAN, Begins(k, blind)
  PROVE  /\ rpc = "idle" /\ kind' = k /\ loaded' \subseteq EntriesNow
         /\ k \notin Single /\ ~blind => loaded' = EntriesNow
         /\ UNCHANGED <<accounted, current, outcome, dirs, unread, found>>
         /\ accounted = {} /\ outcome = Nothing /\ dirs = 0 /\ unread = {} /\ found = {}
         /\ steady' = Paths
<1>1. PICK M \in SUBSET Numbers : Loads(k, blind, M) /\ loaded' = UNION {EntriesOf(m) : m \in M}
  BY DEF Begins
<1>2. rpc = "idle" /\ kind' = k /\ UNCHANGED <<accounted, current, outcome, dirs, unread, found>>
  BY DEF Begins, scan
<1> QED BY <1>1, <1>2, LoadedAre, StillKeeps DEF Still, Reader, Phases

LEMMA VerifyBegins ==
  ASSUME Still, NEW k \in Kinds, NEW blind \in BOOLEAN, StartVerify(k, blind),
         blind => faulted'
  PROVE  Reader'
<1>1. /\ k \in {"verify", "verify_one"} /\ Begins(k, blind)
      /\ shown' = {} /\ todo' = loaded' /\ rpc' = "check" /\ exit' = "none"
  BY StillKeeps DEF StartVerify
<1>2. /\ kind' = k /\ loaded' \subseteq EntriesNow /\ (k = "verify" /\ ~blind => loaded' = EntriesNow)
      /\ UNCHANGED <<current, files, meddled>> /\ accounted' = {} /\ outcome' = Nothing
      /\ dirs' = 0 /\ unread' = {} /\ found' = {} /\ steady' = Paths
      /\ EntriesNow' = EntriesNow /\ EntriesNow \subseteq Entries
  BY <1>1, Beginning, StillKeeps DEF Still
<1>3. ReaderTypeOK'
  BY <1>1, <1>2, Cleared DEF Still, Reader, ReaderTypeOK
<1>4. Phases' /\ Standing' /\ Covered' /\ Causes'
  BY <1>1, <1>2 DEF Phases, Standing, Covered, Causes, InHand, Nothing
<1>5. LeftAlone'
  BY <1>1, <1>2 DEF LeftAlone, Sound, InHand, Of
<1>6. VerdictIsTrue' /\ ReportCovers' /\ EveryFindingHasACause'
  BY <1>1, <1>2 DEF VerdictIsTrue, ReportCovers, EveryFindingHasACause, Nothing
<1> QED BY <1>2, <1>3, <1>4, <1>5, <1>6, StillKeeps DEF Reader

(* report, which goes on or is done, and manifest, which is done.          *)
LEMMA ListingEnds ==
  ASSUME Still, NEW k \in Kinds, NEW blind \in BOOLEAN, Begins(k, blind), Listed,
         \/ k = "report_verify" /\ rpc' = "reload" /\ UNCHANGED exit
         \/ k \in {"print", "print_one"} /\ Ends("ok")
  PROVE  Reader'
<1>1. /\ kind' = k /\ loaded' \subseteq EntriesNow /\ shown' = loaded' /\ todo' = {}
      /\ UNCHANGED <<current, files, meddled>> /\ accounted' = {} /\ outcome' = Nothing
      /\ dirs' = 0 /\ unread' = {} /\ found' = {} /\ steady' = Paths
      /\ EntriesNow' = EntriesNow /\ EntriesNow \subseteq Entries
  BY Beginning, StillKeeps DEF Still, Listed
<1>2. \/ k = "report_verify" /\ rpc' = "reload" /\ exit' = "none"
      \/ k \in {"print", "print_one"} /\ rpc' = "done" /\ exit' = "ok"
  BY StillKeeps DEF Ends
<1>3. ReaderTypeOK'
  BY <1>1, <1>2, Cleared DEF Still, Reader, ReaderTypeOK
<1>4. Phases' /\ Standing' /\ Covered' /\ Causes' /\ LeftAlone'
  BY <1>1, <1>2 DEF Phases, Standing, Covered, Causes, LeftAlone, InHand, Nothing
<1>5. VerdictIsTrue' /\ ReportCovers' /\ EveryFindingHasACause'
  BY <1>1, <1>2 DEF VerdictIsTrue, ReportCovers, EveryFindingHasACause, Nothing
<1> QED BY <1>1, <1>3, <1>4, <1>5, StillKeeps DEF Reader

LEMMA Reloading ==
  ASSUME Still, NEW blind \in BOOLEAN, Reload(blind), blind => faulted'
  PROVE  Reader'
<1>1. PICK M \in SUBSET Numbers : Loads(kind, blind, M) /\ loaded' = UNION {EntriesOf(m) : m \in M}
  BY DEF Reload
<1>2. /\ rpc = "reload" /\ rpc' = "check" /\ todo' = loaded' /\ kind = "report_verify"
      /\ UNCHANGED <<kind, shown, accounted, current, outcome, dirs, unread, found, exit,
                     files, meddled>>
      /\ accounted = {} /\ outcome = Nothing /\ dirs = 0 /\ unread = {} /\ found = {}
  BY DEF Reload, Still, Reader, Phases, scan
<1>3. /\ loaded' \subseteq EntriesNow /\ (~faulted' => loaded' = EntriesNow)
      /\ EntriesNow' = EntriesNow /\ EntriesNow \subseteq Entries
      /\ shown \subseteq EntriesNow /\ steady' \subseteq Paths /\ exit' = "none"
  BY <1>1, <1>2, LoadedAre, StillKeeps DEF Still, Reader, Standing
<1>4. ReaderTypeOK'
  BY <1>2, <1>3 DEF Still, Reader, ReaderTypeOK
<1>5. Phases' /\ Standing' /\ Covered' /\ Causes'
  BY <1>2, <1>3 DEF Phases, Standing, Covered, Causes, InHand, Nothing
<1>6. LeftAlone'
  BY <1>2, <1>3 DEF LeftAlone, Sound, InHand, Of
<1>7. VerdictIsTrue' /\ ReportCovers' /\ EveryFindingHasACause'
  BY <1>2, <1>3 DEF VerdictIsTrue, ReportCovers, EveryFindingHasACause, Nothing
<1> QED BY <1>3, <1>4, <1>5, <1>6, <1>7, StillKeeps DEF Reader

-----------------------------------------------------------------------------
(* In the loop over the entries.                                           *)
LEMMA Looked ==
  ASSUME Still, rpc \in Looking
  PROVE  /\ steady' = steady /\ steady \subseteq Paths /\ EntriesNow' = EntriesNow
         /\ loaded \subseteq Entries /\ loaded \subseteq EntriesNow /\ todo \subseteq loaded
         /\ \A e \in loaded : e.record.path \in Paths /\ e.record.content \in Contents
         /\ kind \in Checking /\ exit = "none" /\ faulted' \in BOOLEAN
         /\ outcome \in [Paths -> Outcomes] /\ accounted \subseteq Paths
<1>1. \A e \in Entries : e.record.path \in Paths /\ e.record.content \in Contents
  BY DEF Entries, Records
<1> QED BY <1>1, StillKeeps DEF Still, Reader, ReaderTypeOK, Standing, Phases

LEMMA Undecided ==
  ASSUME Causes', exit' = "none"
  PROVE  VerdictIsTrue' /\ EveryFindingHasACause' /\ ReportCovers'
  BY DEF Causes, VerdictIsTrue, EveryFindingHasACause, ReportCovers

(* An entry and what its record says: true unless the file was changed.    *)
LEMMA EntryTrue ==
  ASSUME Writers, NEW e \in EntriesNow
  PROVE  /\ e.record.path \notin meddled \cup unsettled =>
              files[e.record.path] = e.record.content
         /\ \A d \in EntriesNow :
              d.slot = e.slot /\ d.record.path = e.record.path => d.record = e.record
<1>1. PICK m \in Numbers :
        /\ manifests[m] # None
        /\ \E r \in manifests[m].records : e = [slot |-> m, record |-> r]
  BY EntriesAre
<1>2. \A d \in EntriesNow : d.slot = m => d.record \in manifests[m].records
  BY EntriesAre
<1> QED BY <1>1, <1>2 DEF Writers, Recorded

(* What was true of a path stays true in a step about another.             *)
LEMMA SoundKept ==
  ASSUME Still, rpc \in Looking, rpc' \in Looking, ~faulted, NEW p \in steady,
         UNCHANGED <<kind, loaded, dirs, unread, found>>,
         rpc' = "scan" => rpc = "scan",
         outcome'[p] = outcome[p], p \in accounted' <=> p \in accounted,
         Of(p, loaded) \cap todo = Of(p, loaded) \cap todo',
         InHand(p) <=> InHand(p)', InHand(p)' => current' = current
  PROVE  Sound(p)'
<1>1. Sound(p)
  BY DEF Still, Reader, LeftAlone
<1>2. UNCHANGED files /\ EntriesNow' = EntriesNow
  BY StillKeeps DEF Still
<1>3. /\ Truth(p, loaded)' = Truth(p, loaded) /\ Of(p, loaded)' = Of(p, loaded)
      /\ First(Of(p, loaded))' = First(Of(p, loaded)) /\ Of(p, EntriesNow)' = Of(p, EntriesNow)
  BY <1>2 DEF Truth, Of, First
<1> QED BY <1>1, <1>2, <1>3 DEF Sound

LEMMA Skipping ==
  ASSUME Still, NEW e \in todo, SkipRecorded(e)
  PROVE  Reader'
<1>1. /\ rpc = "check" /\ rpc' = "check" /\ e.record.path \in accounted /\ todo' = todo \ {e}
      /\ UNCHANGED <<kind, loaded, shown, accounted, current, outcome, dirs, unread, found,
                     exit, files, meddled>>
  BY DEF SkipRecorded, NextEntry, scan, Still
<1>2. Phases' /\ Standing' /\ Covered' /\ Causes'
  BY <1>1, Looked DEF Still, Reader, Phases, Standing, Covered, Causes, InHand
<1>3. LeftAlone'
  <2> SUFFICES ASSUME NEW p \in steady, ~faulted PROVE Sound(p)'
    BY <1>1, Looked DEF LeftAlone, Still
  <2>1. CASE p = e.record.path
    <3>1. Sound(p) /\ p \in accounted /\ ~InHand(p) /\ ~InHand(p)'
      BY <1>1, <2>1 DEF Still, Reader, LeftAlone, InHand
    <3>2. /\ Truth(p, loaded)' = Truth(p, loaded) /\ Of(p, loaded)' = Of(p, loaded)
          /\ Of(p, EntriesNow)' = Of(p, EntriesNow)
      BY <1>1, Looked DEF Truth, Of, First
    <3> QED BY <1>1, <3>1, <3>2 DEF Sound
  <2>2. CASE p # e.record.path
    <3>1. Of(p, loaded) \cap todo = Of(p, loaded) \cap todo'
      BY <1>1, <2>2 DEF Of
    <3>2. ~InHand(p) /\ ~InHand(p)'
      BY <1>1 DEF InHand
    <3> QED BY <1>1, <3>1, <3>2, SoundKept
  <2> QED BY <2>1, <2>2
<1>4. ReaderTypeOK' /\ steady' \subseteq Paths
  BY <1>1, Looked DEF Still, Reader, ReaderTypeOK
<1> QED BY <1>1, <1>2, <1>3, <1>4, Looked, Undecided DEF Reader

LEMMA FileNotThere ==
  ASSUME Still, NEW e \in todo, NotThere(e)
  PROVE  Reader'
<1> DEFINE q == e.record.path
           said == IF files[q] = None THEN "MISSING" ELSE "MISMATCH"
<1>1. /\ rpc = "check" /\ rpc' = "check" /\ q \notin accounted /\ files[q] \notin Contents
      /\ outcome' = [outcome EXCEPT ![q] = said] /\ accounted' = accounted \cup {q}
      /\ todo' = todo \ {e}
      /\ UNCHANGED <<kind, loaded, shown, current, dirs, unread, found, exit, files, meddled>>
  BY DEF NotThere, NextEntry, scan, Still
<1>2. e \in loaded /\ q \in Paths /\ e \in EntriesNow /\ e \in Entries /\ loaded \subseteq Entries
      /\ e.record.content \in Contents
  BY Looked, <1>1
<1>3. outcome'[q] = said /\ \A p \in Paths \ {q} : outcome'[p] = outcome[p]
  BY <1>1, <1>2, Looked
<1>4. q \in meddled \cup unsettled
  BY <1>1, <1>2, EntryTrue DEF Still
<1>5. Phases' /\ Standing' /\ Covered' /\ Causes'
  BY <1>1, <1>2, <1>3, <1>4, Looked DEF Still, Reader, Phases, Standing, Covered, Causes, InHand
<1>6. LeftAlone'
  <2> SUFFICES ASSUME NEW p \in steady, ~faulted PROVE Sound(p)'
    BY <1>1, Looked DEF LeftAlone, Still
  <2>1. CASE p = q
    <3>1. e \in Of(p, loaded) /\ Sound(p) /\ ~InHand(p)'
      BY <1>1, <1>2, <2>1 DEF Of, Still, Reader, LeftAlone, InHand
    <3>2. \A d \in First(Of(p, loaded)) : d.record.content \in Contents
      BY <1>2 DEF First, Of, Entries, Records
    <3>3. Truth(p, loaded) = said
      BY <1>1, <1>2, <2>1, <3>1, <3>2, TruthIs
    <3>4. /\ Truth(p, loaded)' = Truth(p, loaded) /\ Of(p, loaded)' = Of(p, loaded)
          /\ Of(p, EntriesNow)' = Of(p, EntriesNow)
      BY <1>1, Looked DEF Truth, Of, First
    <3> QED BY <1>1, <1>3, <2>1, <3>1, <3>3, <3>4 DEF Sound
  <2>2. CASE p # q
    <3>1. Of(p, loaded) \cap todo = Of(p, loaded) \cap todo'
      BY <1>1, <2>2 DEF Of
    <3>2. ~InHand(p) /\ ~InHand(p)' /\ p \in Paths
      BY <1>1, Looked DEF InHand
    <3> QED BY <1>1, <1>3, <2>2, <3>1, <3>2, SoundKept
  <2> QED BY <2>1, <2>2
<1>7. ReaderTypeOK' /\ steady' \subseteq Paths
  BY <1>1, <1>2, Looked DEF Still, Reader, ReaderTypeOK
<1> QED BY <1>1, <1>5, <1>6, <1>7, Looked, Undecided DEF Reader

LEMMA FileOpened ==
  ASSUME Still, NEW e \in todo, Stat(e)
  PROVE  Reader'
<1> DEFINE q == e.record.path
<1>1. /\ rpc = "check" /\ rpc' = "hash" /\ q \notin accounted /\ files[q] \in Contents
      /\ current' = e /\ accounted' = accounted \cup {q} /\ todo' = todo \ {e}
      /\ \A d \in todo : e.slot <= d.slot
      /\ UNCHANGED <<kind, loaded, shown, outcome, dirs, unread, found, exit, files, meddled>>
  BY DEF Stat, NextEntry, scan, Still
<1>2. e \in loaded /\ q \in Paths /\ e \in Entries /\ Link \notin Contents
      /\ \A p : InHand(p)' <=> p = q
  BY Looked, <1>1, DirectoryAssumption DEF InHand
<1>3. Phases' /\ Standing' /\ Covered' /\ Causes'
  BY <1>1, <1>2, Looked DEF Still, Reader, Phases, Standing, Covered, Causes, InHand
<1>4. LeftAlone'
  <2> SUFFICES ASSUME NEW p \in steady, ~faulted PROVE Sound(p)'
    BY <1>1, Looked DEF LeftAlone, Still
  <2>1. CASE p = q
    <3>1. e \in Of(p, loaded) /\ Sound(p) /\ Of(p, loaded) \subseteq todo
      BY <1>1, <1>2, <2>1 DEF Of, Still, Reader, LeftAlone, Sound
    <3>2. e \in First(Of(p, loaded))
      BY <1>1, <3>1 DEF First
    <3>3. /\ First(Of(p, loaded))' = First(Of(p, loaded)) /\ Of(p, loaded)' = Of(p, loaded)
          /\ Of(p, EntriesNow)' = Of(p, EntriesNow)
      BY <1>1, Looked DEF Of, First
    <3> QED BY <1>1, <1>2, <2>1, <3>1, <3>2, <3>3 DEF Sound
  <2>2. CASE p # q
    <3>1. Of(p, loaded) \cap todo = Of(p, loaded) \cap todo'
      BY <1>1, <2>2 DEF Of
    <3>2. ~InHand(p) /\ ~InHand(p)'
      BY <1>1, <1>2, <2>2 DEF InHand
    <3> QED BY <1>1, <2>2, <3>1, <3>2, SoundKept
  <2> QED BY <2>1, <2>2
<1>5. ReaderTypeOK' /\ steady' \subseteq Paths
  BY <1>1, <1>2, Looked DEF Still, Reader, ReaderTypeOK
<1> QED BY <1>1, <1>3, <1>4, <1>5, Looked, Undecided DEF Reader

LEMMA FileHashed ==
  ASSUME Still, HashFile
  PROVE  Reader'
<1> DEFINE q == current.record.path
           said == IF files[q] = current.record.content THEN "MATCH" ELSE "MISMATCH"
<1>1. /\ rpc = "hash" /\ rpc' = "check" /\ files[q] \in Contents
      /\ outcome' = [outcome EXCEPT ![q] = said]
      /\ UNCHANGED <<kind, loaded, shown, todo, accounted, dirs, unread, found, exit, files,
                     meddled>>
      /\ current' = None
  BY DEF HashFile, scan, Still
<1>2. current \in loaded /\ current \in EntriesNow /\ q \in Paths /\ q \in accounted /\ InHand(q)
  BY <1>1, Looked DEF Still, Reader, Phases, Covered, InHand
<1>3. outcome'[q] = said /\ \A p \in Paths \ {q} : outcome'[p] = outcome[p]
  BY <1>1, <1>2, Looked
<1>4. said = "MISMATCH" => q \in meddled \cup unsettled
  BY <1>1, <1>2, EntryTrue DEF Still
<1>5. \A p : (InHand(p) <=> p = q) /\ ~InHand(p)'
  BY <1>1 DEF InHand
<1>6. Phases' /\ Standing' /\ Covered' /\ Causes'
  BY <1>1, <1>2, <1>3, <1>4, <1>5, Looked DEF Still, Reader, Phases, Standing, Covered, Causes
<1>7. LeftAlone'
  <2> SUFFICES ASSUME NEW p \in steady, ~faulted PROVE Sound(p)'
    BY <1>1, Looked DEF LeftAlone, Still
  <2>1. CASE p = q
    <3>1. /\ Sound(p) /\ current \in First(Of(p, loaded)) /\ Of(p, loaded) # {}
      BY <1>1, <1>2, <2>1 DEF Still, Reader, LeftAlone, Sound, First
    <3>2. \A d \in First(Of(p, loaded)) : d.record = current.record
      <4> SUFFICES ASSUME NEW d \in First(Of(p, loaded)) PROVE d.record = current.record
        OBVIOUS
      <4>1. d \in EntriesNow /\ d.record.path = q
        BY <1>1, <2>1, Looked DEF First, Of
      <4>2. d.slot = current.slot
        <5>1. d.slot <= current.slot /\ current.slot <= d.slot
          BY <3>1 DEF First
        <5>2. d \in Entries /\ current \in Entries
          BY <1>2, <4>1, StillKeeps
        <5>3. d.slot \in Nat /\ current.slot \in Nat
          BY <5>2, DirectoryAssumption DEF Entries, Numbers
        <5> QED BY <5>1, <5>3
      <4> QED BY <1>2, <4>1, <4>2, EntryTrue DEF Still
    <3>3. files[p] # None
      BY <1>1, <2>1, DirectoryAssumption
    <3>4. Truth(p, loaded) = said
      BY <1>1, <1>2, <2>1, <3>1, <3>2, <3>3, TruthIs, Looked
    <3>5. /\ Truth(p, loaded)' = Truth(p, loaded) /\ Of(p, loaded)' = Of(p, loaded)
          /\ Of(p, EntriesNow)' = Of(p, EntriesNow)
      BY <1>1, Looked DEF Truth, Of, First
    <3> QED BY <1>1, <1>2, <1>3, <1>5, <2>1, <3>1, <3>4, <3>5 DEF Sound
  <2>2. CASE p # q
    <3>1. ~InHand(p) /\ ~InHand(p)' /\ p \in Paths
      BY <1>1, <1>5, <2>2, Looked
    <3> QED BY <1>1, <1>3, <2>2, <3>1, SoundKept
  <2> QED BY <2>1, <2>2
<1>8. ReaderTypeOK' /\ steady' \subseteq Paths
  BY <1>1, <1>2, Looked DEF Still, Reader, ReaderTypeOK
<1> QED BY <1>1, <1>6, <1>7, <1>8, Looked, Undecided DEF Reader

-----------------------------------------------------------------------------
(* In the scan of the directories.                                         *)
LEMMA DirectoryRead ==
  ASSUME Still, ReadDir
  PROVE  Reader'
<1> DEFINE new == {p \in Paths : ClassOf[p] = ClassOrder[dirs + 1] /\ files[p] # None}
<1>1. /\ rpc \in {"check", "scan"} /\ todo = {} /\ unread = {} /\ rpc' = "scan"
      /\ dirs' = dirs + 1 /\ unread' = new
      /\ rpc = "check" => dirs = 0 /\ found = {}
      /\ rpc = "scan" => dirs < Len(ClassOrder)
      /\ UNCHANGED <<kind, loaded, shown, todo, accounted, current, outcome, found, exit, files,
                     meddled>>
  BY DEF ReadDir, NextDir, checks, Still, Reader, Phases
<1>2. Len(ClassOrder) \in Nat \ {0} \/ Paths = {}
  BY DirectoryAssumption
<1>3. dirs \in 0 .. Len(ClassOrder) /\ Len(ClassOrder) \in Nat
  BY DirectoryAssumption DEF Still, Reader, ReaderTypeOK
<1>4. dirs' \in 0 .. Len(ClassOrder)
  BY <1>1, <1>2, <1>3, ConversionAssumption
<1>5. ReaderTypeOK' /\ steady' \subseteq Paths
  BY <1>1, <1>4, Looked DEF Still, Reader, ReaderTypeOK
<1>6. Phases' /\ Standing' /\ Covered' /\ Causes'
  BY <1>1, Looked DEF Still, Reader, Phases, Standing, Covered, Causes, InHand
<1>7. LeftAlone'
  <2> SUFFICES ASSUME NEW p \in steady, ~faulted PROVE Sound(p)'
    BY <1>1, Looked DEF LeftAlone, Still
  <2>1. Sound(p) /\ p \in Paths /\ ~InHand(p) /\ ~InHand(p)'
    BY <1>1, Looked DEF Still, Reader, LeftAlone, InHand
  <2>2. /\ Truth(p, loaded)' = Truth(p, loaded) /\ Of(p, loaded)' = Of(p, loaded)
        /\ Of(p, EntriesNow)' = Of(p, EntriesNow)
    BY <1>1, Looked DEF Truth, Of, First
  <2>3. p \in found' \cup unread' => files[p] # None
    BY <1>1, <2>1 DEF Sound
  <2>4. files[p] # None /\ (\E i \in 1 .. dirs' : ClassOf[p] = ClassOrder[i]) =>
          p \in found' \cup unread'
    <3> SUFFICES ASSUME files[p] # None, NEW i \in 1 .. dirs + 1, ClassOf[p] = ClassOrder[i]
                 PROVE  p \in found \cup new
      BY <1>1
    <3>1. CASE i = dirs + 1
      BY <2>1, <3>1
    <3>2. CASE i # dirs + 1
      <4>1. i \in 1 .. dirs
        BY <1>3, <3>2
      <4>2. rpc = "scan"
        BY <1>1, <4>1
      <4> QED BY <1>1, <2>1, <4>1, <4>2 DEF Sound
    <3> QED BY <3>1, <3>2
  <2> QED BY <1>1, <2>1, <2>2, <2>3, <2>4 DEF Sound
<1> QED BY <1>1, <1>5, <1>6, <1>7, Looked, Undecided DEF Reader

LEMMA DirectoryPassedOver ==
  ASSUME Still, DirUnseen, faulted'
  PROVE  Reader'
<1>1. /\ rpc \in {"check", "scan"} /\ todo = {} /\ rpc' = "scan"
      /\ dirs' = dirs + 1 /\ unread' = {}
      /\ rpc = "check" => dirs = 0
      /\ rpc = "scan" => dirs < Len(ClassOrder)
      /\ UNCHANGED <<kind, loaded, shown, todo, accounted, current, outcome, found, exit, files,
                     meddled>>
  BY DEF DirUnseen, NextDir, checks, Still, Reader, Phases
<1>2. /\ dirs \in 0 .. Len(ClassOrder) /\ Len(ClassOrder) \in Nat
      /\ Len(ClassOrder) \in Nat \ {0} \/ Paths = {}
  BY DirectoryAssumption DEF Still, Reader, ReaderTypeOK
<1>3. dirs' \in 0 .. Len(ClassOrder)
  BY <1>1, <1>2, ConversionAssumption
<1>4. ReaderTypeOK' /\ steady' \subseteq Paths
  BY <1>1, <1>3, Looked DEF Still, Reader, ReaderTypeOK
<1>5. Phases' /\ Standing' /\ Covered' /\ Causes' /\ LeftAlone'
  BY <1>1, Looked DEF Still, Reader, Phases, Standing, Covered, Causes, LeftAlone, InHand
<1> QED BY <1>1, <1>4, <1>5, Looked, Undecided DEF Reader

LEMMA Inspected ==
  ASSUME Still, Inspect
  PROVE  Reader'
<1>1. /\ rpc = "scan" /\ rpc' = "scan" /\ unread' = {} /\ found' = found \cup unread
      /\ UNCHANGED <<kind, loaded, shown, todo, accounted, current, outcome, dirs, exit, files,
                     meddled>>
  BY DEF Inspect, checks, Still
<1>2. ReaderTypeOK' /\ steady' \subseteq Paths
  BY <1>1, Looked DEF Still, Reader, ReaderTypeOK
<1>3. Phases' /\ Standing' /\ Covered' /\ Causes'
  BY <1>1, Looked DEF Still, Reader, Phases, Standing, Covered, Causes, InHand
<1>4. LeftAlone'
  <2> SUFFICES ASSUME NEW p \in steady, ~faulted PROVE Sound(p)'
    BY <1>1, Looked DEF LeftAlone, Still
  <2>1. Sound(p) /\ ~InHand(p) /\ ~InHand(p)'
    BY <1>1 DEF Still, Reader, LeftAlone, InHand
  <2>2. /\ Truth(p, loaded)' = Truth(p, loaded) /\ Of(p, loaded)' = Of(p, loaded)
        /\ Of(p, EntriesNow)' = Of(p, EntriesNow)
    BY <1>1, Looked DEF Truth, Of, First
  <2> QED BY <1>1, <2>1, <2>2 DEF Sound
<1> QED BY <1>1, <1>2, <1>3, <1>4, Looked, Undecided DEF Reader

LEMMA Judged ==
  ASSUME Still, Judge
  PROVE  Reader'
<1>1. /\ rpc = "scan" /\ dirs = Len(ClassOrder) /\ unread = {} /\ rpc' = "done"
      /\ outcome' = [p \in Paths |-> IF p \in found \ accounted THEN "EXTRA" ELSE outcome[p]]
      /\ exit' \in Verdict(outcome') /\ dirs' = 0 /\ found' = {} /\ accounted' = {} /\ todo = {}
      /\ UNCHANGED <<kind, loaded, shown, todo, current, unread, files, meddled>>
  BY DEF Judge, Scanned, Ends, Still, Reader, Phases
<1>2. /\ exit' \in {"ok", "integrity"}
      /\ exit' = "ok" => \A p \in Paths : outcome'[p] \notin {"MISMATCH", "MISSING"}
  BY <1>1 DEF Verdict
<1>3. ReaderTypeOK' /\ steady' \subseteq Paths
  BY <1>1, <1>2, Looked, Cleared DEF Still, Reader, ReaderTypeOK
<1>4. Phases' /\ Standing' /\ Covered' /\ LeftAlone'
  BY <1>1, Looked DEF Still, Reader, Phases, Standing, Covered, LeftAlone
<1>5. Causes'
  BY <1>1 DEF Still, Reader, Causes
<1>6. EveryFindingHasACause'
  BY <1>1, <1>2, <1>5 DEF EveryFindingHasACause, Causes
<1>7. ReportCovers'
  <2> SUFFICES ASSUME exit' = "ok", kind = "report_verify", ~faulted, NEW e \in shown
               PROVE  e \in loaded /\ outcome'[e.record.path] = "MATCH"
    BY <1>1 DEF ReportCovers, Still
  <2>1. e \in loaded /\ e.record.path \in Paths /\ e.record.path \in accounted
    BY <1>1, Looked DEF Still, Reader, Standing, Covered
  <2>2. outcome[e.record.path] \in {"MATCH", "MISMATCH", "MISSING"}
    BY <1>1, <2>1 DEF Still, Reader, Covered, InHand
  <2> QED BY <1>1, <1>2, <2>1, <2>2
<1>8. VerdictIsTrue'
  <2> SUFFICES ASSUME NEW p \in steady, ~faulted
               PROVE  outcome'[p] = Truth(p, IF kind = "verify_one" THEN loaded ELSE EntriesNow)
    <3>1. ASSUME NEW p \in steady
          PROVE  Truth(p, IF kind = "verify_one" THEN loaded ELSE EntriesNow)'
                   = Truth(p, IF kind = "verify_one" THEN loaded ELSE EntriesNow)
      BY <1>1, Looked DEF Truth, Of, First
    <3>2. steady' = steady
      BY <1>1, Looked
    <3> QED BY <3>1, <3>2 DEF VerdictIsTrue, Still
  <2>1. Sound(p) /\ p \in Paths /\ ~InHand(p)
    BY <1>1, Looked DEF Still, Reader, LeftAlone, InHand
  <2>2. Truth(p, IF kind = "verify_one" THEN loaded ELSE EntriesNow) = Truth(p, loaded)
    BY <2>1 DEF Sound, Truth
  <2>3. CASE p \in accounted
    BY <1>1, <2>1, <2>2, <2>3 DEF Sound
  <2>4. CASE p \notin accounted
    <3>1. Of(p, loaded) = {} /\ outcome[p] = "none"
      BY <1>1, <2>1, <2>4, Looked DEF Sound, Still, Reader, Covered
    <3>2. PICK i \in 1 .. Len(ClassOrder) : ClassOf[p] = ClassOrder[i]
      BY <2>1, DirectoryAssumption
    <3>3. p \in found <=> files[p] # None
      BY <1>1, <2>1, <3>2 DEF Sound
    <3> QED BY <1>1, <2>1, <2>2, <2>4, <3>1, <3>3, Looked, TruthIs
  <2> QED BY <2>3, <2>4
<1> QED BY <1>3, <1>4, <1>5, <1>6, <1>7, <1>8, StillKeeps DEF Reader

-----------------------------------------------------------------------------
LEMMA ReaderEnds ==
  ASSUME Still,
         \/ Refused \/ Vanished \/ EntryGone \/ Cancelled
         \/ IoFails /\ faulted'
         \/ \E k \in Kinds : LoadFails(k)
  PROVE  Reader'
<1>1. kind \in Kinds
  BY DEF Still, Reader, ReaderTypeOK
<1>2. CASE Refused
  BY <1>1, <1>2, GivingUp DEF Refused
<1>3. CASE Cancelled
  BY <1>1, <1>3, GivingUp DEF Cancelled
<1>4. CASE \E k \in Kinds : LoadFails(k)
  BY <1>4, GivingUp DEF LoadFails
<1>5. CASE Vanished
  <2>1. /\ rpc = "hash" /\ files[current.record.path] \notin Contents /\ GivesUp("io")
        /\ kind' = kind
    BY <1>5 DEF Vanished
  <2>2. /\ current.record.path \in Paths /\ files[current.record.path] # Link
    BY <2>1, Looked DEF Still, Reader, Phases
  <2>3. files[current.record.path] = None
    BY <2>1, <2>2 DEF Still, Writers, WritersTypes, DirectoryTypeOK
  <2>4. faulted \/ current.record.path \notin steady
    BY <2>1 DEF Still, Reader, LeftAlone, Sound, InHand
  <2> QED BY <1>1, <2>1, <2>2, <2>3, <2>4, GivingUp DEF Still
<1>6. CASE EntryGone
  <2>1. rpc = "scan" /\ GivesUp("io") /\ kind' = kind
    BY <1>6 DEF EntryGone
  <2>2. PICK p \in unread : files[p] = None
    BY <1>6 DEF EntryGone
  <2>3. p \in Paths /\ (faulted \/ p \notin steady)
    BY <2>1, <2>2 DEF Still, Reader, ReaderTypeOK, LeftAlone, Sound
  <2> QED BY <1>1, <2>1, <2>2, <2>3, GivingUp DEF Still
<1>7. CASE IoFails /\ faulted'
  BY <1>1, <1>7, GivingUp DEF IoFails
<1> QED BY <1>2, <1>3, <1>4, <1>5, <1>6, <1>7

LEMMA ReaderReads ==
  ASSUME Still, ReaderStep \/ (ReaderFault /\ faulted')
  PROVE  Reader'
<1>1. ASSUME NEW k \in Kinds, NEW blind \in BOOLEAN, StartReport(k, blind)
      PROVE  Reader'
  BY <1>1, ListingEnds DEF StartReport
<1>2. ASSUME NEW blind \in BOOLEAN, ListManifests(blind)
      PROVE  Reader'
  BY <1>2, ListingEnds DEF ListManifests
<1>3. CASE PrintManifest
  BY <1>3, ListingEnds DEF PrintManifest
<1>4. CASE ReaderStep
  BY <1>1, <1>2, <1>3, <1>4, VerifyBegins, Reloading, Skipping, FileNotThere, FileOpened,
     FileHashed, DirectoryRead, Inspected, Judged, ReaderEnds
     DEF ReaderStep
<1>5. CASE ReaderFault /\ faulted'
  BY <1>1, <1>2, <1>5, VerifyBegins, Reloading, DirectoryPassedOver, ReaderEnds
     DEF ReaderFault
<1> QED BY <1>4, <1>5

LEMMA InvInit == Init => Inv
  BY WritersInit, ReaderInits DEF Inv

LEMMA InvNext == Inv /\ [Next]_vars => Inv'
<1> SUFFICES ASSUME Inv, [Next]_vars PROVE Inv'
  OBVIOUS
<1>1. CASE Next /\ Reads
  <2>1. \/ ReaderStep /\ faulted' = faulted
        \/ ReaderFault /\ faulted' = TRUE
    BY <1>1 DEF Next, Reads
  <2>2. faulted' \in BOOLEAN /\ (faulted => faulted') /\ (ReaderStep \/ (ReaderFault /\ faulted'))
    BY <2>1 DEF Inv, Reader
  <2>3. Still
    BY <1>1, <2>2 DEF Next, Reads, Still, Inv, stranger
  <2> QED BY <2>2, <2>3, ReaderReads, ReadsKeepWriters DEF Inv, Still
<1>2. CASE Next /\ (Converts \/ Acquires \/ Meddles)
  <2>1. WriterStep /\ Observe /\ rpc # "done"
    BY <1>2 DEF Next, WriterStep, Converts, Acquires, Meddles
  <2> QED BY <2>1, WritersProgress, ReaderWaits DEF Inv
<1>3. CASE UNCHANGED vars
  <2>1. /\ UNCHANGED <<files, manifests, rpc, kind, loaded, shown, todo, accounted, current,
                       outcome, dirs, unread, found, exit, steady, faulted>>
        /\ UNCHANGED <<evars, avars, stranger, unsettled, meddled>>
    BY <1>3 DEF vars, rvars, checks, scan, watch, stranger
  <2>2. Writers'
    BY <2>1, ReadsKeepWriters DEF Inv
  <2>3. EntriesNow' = EntriesNow
    BY <2>1 DEF EntriesNow, EntriesOf
  <2>4. \A p \in Paths : Sound(p)' <=> Sound(p)
    BY <2>1, <2>3 DEF Sound, Truth, Of, First, InHand
  <2>5. ReaderTypeOK' /\ steady' \subseteq Paths /\ faulted' \in BOOLEAN /\ Phases' /\ Standing' /\ Covered' /\ Causes'
    BY <2>1, <2>3 DEF Inv, Reader, ReaderTypeOK, Phases, Standing, Covered, Causes, InHand
  <2>6. LeftAlone'
    BY <2>1, <2>4, <2>5 DEF Inv, Reader, LeftAlone
  <2>7. EveryFindingHasACause' /\ ReportCovers'
    BY <2>1 DEF Inv, Reader, EveryFindingHasACause, ReportCovers
  <2>8. VerdictIsTrue'
    <3>1. ASSUME NEW p \in steady
          PROVE  Truth(p, IF kind = "verify_one" THEN loaded ELSE EntriesNow)'
                   = Truth(p, IF kind = "verify_one" THEN loaded ELSE EntriesNow)
      BY <2>1, <2>3 DEF Truth, Of, First
    <3> QED BY <2>1, <3>1 DEF Inv, Reader, VerdictIsTrue
  <2> QED BY <2>2, <2>5, <2>6, <2>7, <2>8 DEF Inv, Reader
<1> QED BY <1>1, <1>2, <1>3 DEF Next

LEMMA InvAlways == Spec => []Inv
  BY InvInit, InvNext, PTL DEF Spec

-----------------------------------------------------------------------------
(* The variables of the directory, of the reading command and of the       *)
(* conversion keep their types, and no conversion lists an empty container. *)
THEOREM TypeCorrect == Spec => []TypeOK
<1>1. Inv => TypeOK
  BY DEF Inv, Writers, WritersTypes, Reader, TypeOK
<1> QED BY <1>1, InvAlways, PTL

(* Whatever is written elsewhere in the case while it is verified, the     *)
(* verdict is the truth about every path that was left alone, if no stat   *)
(* failed.                                                                 *)
THEOREM VerdictsAreTrue == Spec => []VerdictIsTrue
<1>1. Inv => VerdictIsTrue
  BY DEF Inv, Reader
<1> QED BY <1>1, InvAlways, PTL

(* Only a file somebody else changed, or a .partial that was recorded by   *)
(* another acquisition while it was written, is ever said to be missing or *)
(* not to match; only a call that failed or a file that moved ends a       *)
(* command with an I/O error.                                              *)
THEOREM NoFalseAlarm == Spec => []EveryFindingHasACause
<1>1. Inv => EveryFindingHasACause
  BY DEF Inv, Reader
<1> QED BY <1>1, InvAlways, PTL

(* A report that passed lists nothing that was not compared and found to   *)
(* match, although it loaded the manifests twice, if no stat failed.       *)
THEOREM ReportsCompareAllTheyList == Spec => []ReportCovers
<1>1. Inv => ReportCovers
  BY DEF Inv, Reader
<1> QED BY <1>1, InvAlways, PTL

(* However often a conversion is killed and tried again, a manifest of a   *)
(* container names the whole of it and nothing else.                       *)
THEOREM ContainersAreSealed == Spec => []ContainerSealed
<1>1. Inv => ContainerSealed
  BY DEF Inv, Writers, Sealed, ContainerSealed, Own
<1> QED BY <1>1, InvAlways, PTL
=============================================================================
