----------------------------- MODULE Session_proofs -----------------------------
(***************************************************************************)
(* The properties of Session for sessions of any length, devices that      *)
(* change any number of times, and scopes of any size.  Inv strengthens    *)
(* them by what holds between the questions: which answers a run already   *)
(* has (Asked), how the estimate and the note about it go together         *)
(* (Measured), and what the token has already made impossible (Stopped).   *)
(* The questions of module Inquiry have an invariant of their own, Asking. *)
(***************************************************************************)
EXTENDS Session, TLAPS

AfterDevice == Running \ {"device"}
AfterRoot == {"target", "blockdev"}
AfterSize == {"metadata", "space", "transfer", "stream"}

(* What has been answered since the run began, and who agreed to it.       *)
Asked ==
    /\ apc \in AfterDevice => "authorized" \in held
    /\ apc = "uid" => job.method = "physical"
    /\ apc \in AfterRoot => job.method = "physical" /\ "root" \in held
    /\ apc \in {"resolve", "scope", "du"} => job.method = "logical"
    /\ apc \in AfterSize /\ job.method = "physical" => "root" \in held
    /\ apc # "idle" /\ shell = "guided" => accepted /\ job = chosen
    /\ apc # "idle" /\ shell = "preview" => job.dry

(* Either the size is known and the estimate is it, or a note says not.    *)
Measured ==
    apc \in AfterSize =>
        \/ plan.estimate = truth /\ truth \in Nat
        \/ plan.estimate = None /\ "size_unknown" \in notes

(* The token and what follows from it.                                     *)
Stopped ==
    /\ pressed = token
    /\ result = "interrupted" => token
    /\ late => token /\ apc \notin {"stream", "publish"}

Goals == ShortCaptureIsSaid /\ FreshlyAsked /\ CtrlCIsForGood /\ NeverClosedByAFailure

Inv == ShellTypeOK /\ Asked /\ Measured /\ Stopped /\ Goals

USE DEF Running, Steps, Results, Methods, Statuses, Complete, ShellStates, Prompts, Busy

LEMMA ConstantTypes ==
  /\ NoJob \in Jobs
  /\ NoPlan \in [path : {"requested", "target"}, estimate : Sizes \cup {None}]
  BY DEF NoJob, NoPlan, Jobs

LEMMA InitInv == Init => Inv
<1> SUFFICES ASSUME Init PROVE Inv
  OBVIOUS
<1> USE DEF Init, AcquisitionInit
<1>1. ShellTypeOK
  <2>1. stored \in [Methods -> {"nothing", "partial", "published"}]
    OBVIOUS
  <2>2. changes \in 0 .. MaxChanges /\ lines \in 0 .. MaxLines
    BY SessionAssumption, AcquisitionAssumption
  <2>3. AcquisitionTypeOK
    BY <2>1, <2>2, ConstantTypes DEF AcquisitionTypeOK
  <2> QED BY <2>2, <2>3, ConstantTypes DEF ShellTypeOK
<1>2. Asked /\ Measured /\ Stopped
  BY DEF Asked, Measured, Stopped, AfterDevice, AfterRoot, AfterSize
<1>3. Goals
  BY DEF Goals, ShortCaptureIsSaid, FreshlyAsked, CtrlCIsForGood, NeverClosedByAFailure
<1> QED BY <1>1, <1>2, <1>3 DEF Inv

(* While a run goes on, what was true of the device is not forgotten.      *)
LEMMA HeldGrows ==
  ASSUME Observe, held \subseteq {"authorized", "refused", "root"}
  PROVE  /\ held' \subseteq {"authorized", "refused", "root"}
         /\ apc # "idle" => held \subseteq held'
         /\ device'.state = "authorized" => "authorized" \in held'
         /\ device'.root => "root" \in held'
<1>1. /\ True' \subseteq {"authorized", "refused", "root"}
      /\ device'.state = "authorized" => "authorized" \in True'
      /\ device'.root => "root" \in True'
  BY DEF True
<1> QED BY <1>1 DEF Observe

(* The steps of acquire::run before anything is transferred.               *)
Question ==
    \/ RequireDevice \/ AskMetadata \/ CheckSpace
    \/ ResolveScope \/ RequireScope \/ EstimateScope
    \/ RequireRoot \/ RequireTarget \/ AskBlockSize

(* A question changes neither the report nor what is stored, and ends the  *)
(* run or goes on to another phase than that of a transfer under way.      *)
LEMMA QuestionShape ==
  ASSUME AcquisitionTypeOK, Question
  PROVE  /\ UNCHANGED <<job, stored, report>>
         /\ apc # "idle"
         /\ apc' \in (Running \ {"stream", "publish"}) \cup {"idle"}
         /\ apc' = "transfer" => ~job.dry
         /\ result' = result \/ result' \in Results \ {"interrupted"}
<1> USE DEF Unchanged, Fails, Returns, Goto, Learn, ReportDryRun
<1>1. CASE RequireDevice
  BY <1>1 DEF RequireDevice
<1>2. CASE AskMetadata
  BY <1>2 DEF AskMetadata
<1>3. CASE CheckSpace
  BY <1>3 DEF CheckSpace
<1>4. CASE ResolveScope
  BY <1>4 DEF ResolveScope
<1>5. CASE RequireScope
  BY <1>5 DEF RequireScope
<1>6. CASE EstimateScope
  BY <1>6 DEF EstimateScope
<1>7. CASE RequireRoot
  BY <1>7 DEF RequireRoot
<1>8. CASE RequireTarget
  BY <1>8 DEF RequireTarget
<1>9. CASE AskBlockSize
  BY <1>9 DEF AskBlockSize
<1> QED BY <1>1, <1>2, <1>3, <1>4, <1>5, <1>6, <1>7, <1>8, <1>9 DEF Question

(* A question keeps the types of what it learns, and a measured size is    *)
(* the estimate or a note says that there is none.                         *)
LEMMA QuestionLearns ==
  ASSUME AcquisitionTypeOK, Measured, Question
  PROVE  /\ plan' \in [path : {"requested", "target"}, estimate : Sizes \cup {None}]
         /\ notes' \subseteq Notes /\ truth' \in Sizes \cup {0}
         /\ Measured'
<1> USE DEF Unchanged, Fails, Returns, Goto, AfterSize, Measured, AcquisitionTypeOK
<1>1. CASE RequireDevice
  BY <1>1 DEF RequireDevice
<1>2. CASE AskMetadata
  BY <1>2 DEF AskMetadata
<1>3. CASE CheckSpace
  BY <1>3 DEF CheckSpace, ReportDryRun
<1>4. CASE ResolveScope
  <2>1. CASE Fails("device")
    BY <2>1
  <2>2. CASE apc' = "scope" /\ \E p \in Resolved : plan' = [plan EXCEPT !.path = p]
    <3>1. Resolved \subseteq {"requested", "target"}
      BY DEF Resolved
    <3> QED BY <1>4, <2>2, <3>1 DEF ResolveScope
  <2> QED BY <1>4, <2>1, <2>2 DEF ResolveScope
<1>5. CASE RequireScope \/ RequireRoot \/ RequireTarget
  BY <1>5 DEF RequireScope, RequireRoot, RequireTarget
<1>6. CASE \E n \in {None, device.holds} : Learn(n)
  <2>1. PICK n \in {None, device.holds} : Learn(n)
    BY <1>6
  <2>2. device.holds \in Sizes /\ device.holds \in Nat
    BY AcquisitionAssumption DEF Devices
  <2>3. /\ plan' = [plan EXCEPT !.estimate = n] /\ truth' = device.holds
        /\ notes' = IF n = None THEN notes \cup {"size_unknown"} ELSE notes
    BY <2>1 DEF Learn
  <2>4. plan'.estimate = n
    BY <2>3
  <2>5. plan' \in [path : {"requested", "target"}, estimate : Sizes \cup {None}]
    BY <2>1, <2>2, <2>3
  <2>6. notes' \subseteq Notes
    BY <2>3 DEF Notes
  <2> QED BY <2>1, <2>2, <2>3, <2>4, <2>5, <2>6
<1>7. CASE Fails("device")
  BY <1>7
<1>8. TreeSize \subseteq {None, device.holds} /\ BlockSize \subseteq {None, device.holds}
  BY DEF TreeSize, BlockSize
<1>9. CASE EstimateScope
  BY <1>6, <1>8, <1>9 DEF EstimateScope
<1>10. CASE AskBlockSize
  BY <1>6, <1>7, <1>8, <1>10 DEF AskBlockSize
<1> QED BY <1>1, <1>2, <1>3, <1>4, <1>5, <1>9, <1>10 DEF Question

(* Each phase is reached only with the answers of those before it.         *)
LEMMA QuestionAsks ==
  ASSUME AcquisitionTypeOK, Asked, Question, UNCHANGED <<device, svars>>, Observe,
         held \subseteq {"authorized", "refused", "root"}
  PROVE  Asked'
<1>1. UNCHANGED job /\ apc # "idle" /\ UNCHANGED <<shell, accepted, chosen>>
  BY QuestionShape DEF svars
<1>2. held \subseteq held'
  BY HeldGrows, <1>1
<1>3. device.state = "authorized" => "authorized" \in held'
  BY HeldGrows
<1>4. device.root = TRUE => "root" \in held'
  BY HeldGrows
<1>5. job.method \in {"logical", "physical"}
  BY DEF AcquisitionTypeOK, Jobs
<1> USE <1>1, <1>2, <1>3, <1>4, <1>5
    DEF Unchanged, Fails, Returns, Goto, AfterDevice, AfterRoot, AfterSize, Asked
<1>11. CASE RequireDevice
  BY <1>11 DEF RequireDevice
<1>12. CASE AskMetadata
  BY <1>12 DEF AskMetadata
<1>13. CASE CheckSpace
  BY <1>13 DEF CheckSpace, ReportDryRun
<1>14. CASE ResolveScope
  BY <1>14 DEF ResolveScope
<1>15. CASE RequireScope
  BY <1>15 DEF RequireScope
<1>16. CASE EstimateScope
  BY <1>16 DEF EstimateScope, Learn
<1>17. CASE RequireRoot
  BY <1>17 DEF RequireRoot, SaysRoot
<1>18. CASE RequireTarget
  BY <1>18 DEF RequireTarget
<1>19. CASE AskBlockSize
  BY <1>19 DEF AskBlockSize, Learn
<1> QED BY <1>11, <1>12, <1>13, <1>14, <1>15, <1>16, <1>17, <1>18, <1>19 DEF Question

(* Whoever transfers has the answers, and is no preview.                   *)
LEMMA AskedIsFresh ==
  ASSUME AcquisitionTypeOK', Asked' PROVE FreshlyAsked'
  BY DEF AcquisitionTypeOK, Asked, FreshlyAsked, AfterDevice, AfterSize, Jobs

(* pressed is what the token is.                                           *)
LEMMA TokenKept ==
  ASSUME Observe, Stopped, token \in BOOLEAN, UNCHANGED token
  PROVE  pressed' = pressed
<1>1. pressed' = (pressed \/ pressed) /\ pressed \in BOOLEAN
  BY DEF Observe, Stopped
<1> QED BY <1>1

LEMMA QuestionStep ==
  ASSUME Inv, Question, UNCHANGED <<token, device, changes, svars>>, Observe
  PROVE  Inv'
<1> USE DEF Inv
<1>1. AcquisitionTypeOK /\ held \subseteq {"authorized", "refused", "root"}
  BY DEF ShellTypeOK
<1>2. AcquisitionTypeOK'
  BY <1>1, QuestionShape, QuestionLearns DEF AcquisitionTypeOK
<1>3. /\ apc # "idle" /\ UNCHANGED <<shell, lines, chosen, accepted, left, token, report>>
      /\ pressed' = pressed /\ late' = late
  <2>1. apc # "idle" /\ UNCHANGED <<shell, lines, chosen, accepted, left, token, report>>
    BY <1>1, QuestionShape DEF svars
  <2> QED BY <2>1, TokenKept DEF Observe, ShellTypeOK, AcquisitionTypeOK
<1>4. ShellTypeOK'
  BY <1>1, <1>2, <1>3, HeldGrows DEF ShellTypeOK
<1>5. Asked' /\ Measured'
  BY <1>1, QuestionAsks, QuestionLearns
<1>6. Stopped'
  BY <1>1, <1>3, QuestionShape DEF Stopped
<1>7. Goals'
  BY <1>2, <1>3, <1>5, AskedIsFresh
     DEF Goals, ShortCaptureIsSaid, CtrlCIsForGood, NeverClosedByAFailure
<1> QED BY <1>4, <1>5, <1>6, <1>7

-----------------------------------------------------------------------------
(* What Record leaves in the report.                                       *)
LEMMA Recorded ==
  ASSUME AcquisitionTypeOK, NEW status \in Statuses, NEW n \in Nat, NEW more \in SUBSET Notes,
         Record(status, n, more)
  PROVE  /\ report' \in Reports /\ report' # None
         /\ report'.status = status /\ report'.captured = n
         /\ report'.truth = truth /\ report'.notes = notes \cup more
<1>1. truth \in Nat /\ notes \cup more \subseteq Notes
  BY AcquisitionAssumption DEF AcquisitionTypeOK
<1>2. report' = [status |-> status, captured |-> n, truth |-> truth, notes |-> notes \cup more]
  BY DEF Record
<1>3. report' \in Reports
  BY <1>1, <1>2 DEF Reports
<1> QED BY <1>2, <1>3, ReportAssumption

LEMMA DeliveredNat == \A n \in Delivered : n \in Nat
  BY AcquisitionAssumption DEF Delivered, Archive, Image

(* A capture far smaller than the scope raises a doubt.                    *)
LEMMA DoubtsSayShort ==
  ASSUME AcquisitionTypeOK, Measured, apc = "stream", NEW n \in Nat,
         8 * (n + 1) <= truth
  PROVE  {"shortfall", "no_data", "size_unknown"} \cap (notes \cup Doubts(n)) # {}
<1>1. CASE plan.estimate = None
  BY <1>1, AcquisitionAssumption DEF Measured, AfterSize
<1>2. CASE plan.estimate = truth /\ plan.estimate # None /\ truth \in Nat
  <2>1. n < truth \div 8 /\ n # truth
    BY <1>2
  <2>2. ShortArchive(n) \/ ShortImage(n)
    BY <1>2, <2>1 DEF ShortArchive, ShortImage, AcquisitionTypeOK, Jobs
  <2>3. "shortfall" \in Doubts(n)
    BY <1>2, <2>2 DEF Doubts
  <2> QED BY <2>3
<1>3. plan.estimate = None \/ (plan.estimate = truth /\ plan.estimate # None /\ truth \in Nat)
  BY AcquisitionAssumption DEF Measured, AfterSize
<1> QED BY <1>1, <1>2, <1>3

-----------------------------------------------------------------------------
(* What a step of a run keeps that leaves the shell and the device alone.  *)
LEMMA RunKeeps ==
  ASSUME Inv, apc # "idle", UNCHANGED <<token, device, changes, svars>>, Observe
  PROVE  /\ UNCHANGED <<shell, lines, chosen, accepted, left, token, device, changes>>
         /\ pressed' = pressed /\ late' = late
         /\ held \subseteq held' /\ held' \subseteq {"authorized", "refused", "root"}
<1>1. token \in BOOLEAN /\ held \subseteq {"authorized", "refused", "root"}
  BY DEF Inv, ShellTypeOK, AcquisitionTypeOK
<1>2. pressed' = pressed
  BY <1>1, TokenKept DEF Inv
<1> QED BY <1>1, <1>2, HeldGrows DEF Observe, svars

(* What the steps of the transfer have in common: they begin in one of its *)
(* phases, keep what was learnt, and end the run or go on in order.        *)
Proceeds ==
    /\ apc \in {"transfer", "stream", "publish"}
    /\ \/ apc' = "stream" /\ apc = "transfer"
       \/ apc' = "publish" /\ apc = "stream"
       \/ apc' = "idle"
    /\ UNCHANGED <<job, plan, notes, truth>>
    /\ stored' \in [Methods -> {"nothing", "partial", "published"}]
    /\ report' \in Reports \cup {None} /\ result' \in Results
    /\ apc' = "publish" => report' # None /\ report'.status \in Complete
    /\ apc' \in {"stream", "publish"} => ~token \/ apc = "stream"
    /\ result' = "interrupted" => token \/ result = "interrupted"
    /\ report' # None /\ report'.status \in Complete => report' = report \/ apc = "stream"
    /\ ShortCaptureIsSaid'

LEMMA ProceedsStep ==
  ASSUME Inv, Proceeds, UNCHANGED <<token, device, changes, svars>>, Observe
  PROVE  Inv'
<1> USE DEF Inv
<1>1. apc # "idle"
  BY DEF Proceeds
<1>2. /\ UNCHANGED <<shell, lines, chosen, accepted, left, token, device, changes>>
      /\ pressed' = pressed /\ late' = late
      /\ held \subseteq held' /\ held' \subseteq {"authorized", "refused", "root"}
  BY <1>1, RunKeeps
<1>3. AcquisitionTypeOK'
  BY <1>2 DEF Proceeds, ShellTypeOK, AcquisitionTypeOK
<1>4. ShellTypeOK'
  BY <1>1, <1>2, <1>3 DEF ShellTypeOK
<1>5. Asked'
  <2>1. \/ apc' = "stream" /\ apc = "transfer"
        \/ apc' = "publish" /\ apc = "stream"
        \/ apc' = "idle"
    BY DEF Proceeds
  <2>2. UNCHANGED job
    BY DEF Proceeds
  <2> QED BY <1>2, <2>1, <2>2 DEF Asked, AfterDevice, AfterRoot, AfterSize
<1>6. Measured'
  BY DEF Measured, Proceeds, AfterSize
<1>7. Stopped'
  BY <1>2 DEF Stopped, Proceeds
<1>8. CtrlCIsForGood'
  BY <1>2 DEF Stopped, Proceeds, Goals, CtrlCIsForGood
<1>9. Goals'
  BY <1>2, <1>3, <1>5, <1>8, AskedIsFresh DEF Goals, Proceeds, NeverClosedByAFailure
<1> QED BY <1>4, <1>5, <1>6, <1>7, <1>9

(* The steps that write to the case directory.                             *)
Transfer ==
    \/ NameTaken \/ TransferStarts
    \/ \E status \in Statuses \ {"cancelled"}, n \in Sizes \cup {0, LinkSize} :
          TransferEnds(status, n)
    \/ TransferCancelled \/ Publish \/ PublishCancelled

LEMMA TransferProceeds ==
  ASSUME Inv, Transfer
  PROVE  Proceeds
<1>1. AcquisitionTypeOK
  BY DEF Inv, ShellTypeOK
<1>2. /\ stored \in [Methods -> {"nothing", "partial", "published"}]
      /\ report \in Reports \cup {None} /\ result \in Results
      /\ job.method \in Methods
      /\ apc = "publish" => report # None /\ report.status \in Complete
  BY <1>1 DEF AcquisitionTypeOK, Jobs
<1>3. \A r : Ends(r) /\ r \in Statuses =>
        /\ apc' = "idle" /\ result' \in Results
        /\ result' = "interrupted" => r = "cancelled"
  BY DEF Ends, Returns
<1>4. ShortCaptureIsSaid
  BY DEF Inv, Goals
<1>5. CASE NameTaken
  <2>1. Record("failed", 0, {}) /\ Returns("destination") /\ apc = "transfer"
        /\ UNCHANGED <<job, plan, notes, truth, stored>>
    BY <1>5 DEF NameTaken
  <2>2. report' \in Reports /\ report'.status = "failed"
    BY <1>1, <2>1, Recorded
  <2> QED BY <1>2, <2>1, <2>2 DEF Proceeds, Returns, ShortCaptureIsSaid
<1>6. CASE TransferStarts
  BY <1>2, <1>4, <1>6 DEF TransferStarts, Goto, Unchanged, Proceeds, ShortCaptureIsSaid
<1>7. ASSUME NEW status \in Statuses \ {"cancelled"}, NEW n \in Sizes \cup {0, LinkSize},
             TransferEnds(status, n)
      PROVE  Proceeds
  <2>1. n \in Nat /\ apc = "stream" /\ UNCHANGED <<job, plan, notes, truth>>
    BY <1>7, AcquisitionAssumption DEF TransferEnds
  <2>2. Doubts(n) \subseteq Notes /\ {"read_errors"} \subseteq Notes /\ {} \subseteq Notes
    BY DEF Doubts, Notes
  <2>3. CASE status \in Complete
    <3>1. PICK errors \in {{}, {"read_errors"}} : Record(status, n, errors \cup Doubts(n))
      BY <1>7, <2>3 DEF TransferEnds
    <3>2. /\ stored' = [stored EXCEPT ![job.method] = "published"]
          /\ apc' = "publish" /\ result' = result
      BY <1>7, <2>3 DEF TransferEnds, Goto
    <3>3. /\ report' \in Reports /\ report' # None /\ report'.status = status
          /\ report'.captured = n /\ report'.truth = truth
          /\ report'.notes = notes \cup (errors \cup Doubts(n))
      BY <1>1, <2>1, <2>2, <3>1, Recorded
    <3>4. ShortCaptureIsSaid'
      <4>1. SUFFICES ASSUME 8 * (n + 1) <= truth
                     PROVE  {"shortfall", "no_data", "size_unknown"} \cap report'.notes # {}
        BY <3>3 DEF ShortCaptureIsSaid
      <4>2. {"shortfall", "no_data", "size_unknown"} \cap (notes \cup Doubts(n)) # {}
        BY <1>1, <2>1, <4>1, DoubtsSayShort DEF Inv
      <4> QED BY <3>3, <4>2
    <3> QED BY <1>2, <2>1, <2>3, <3>2, <3>3, <3>4 DEF Proceeds
  <2>4. CASE status \notin Complete
    <3>1. PICK errors \in {{}, {"read_errors"}} : Record(status, n, errors)
      BY <1>7, <2>4 DEF TransferEnds
    <3>2. Ends(status) /\ stored' = [stored EXCEPT ![job.method] = "partial"]
      BY <1>7, <2>4 DEF TransferEnds
    <3>3. report' \in Reports /\ report'.status = status
      BY <1>1, <2>1, <2>2, <3>1, Recorded
    <3> QED BY <1>2, <1>3, <2>1, <2>4, <3>2, <3>3 DEF Proceeds, ShortCaptureIsSaid
  <2> QED BY <2>3, <2>4
<1>8. CASE TransferCancelled
  <2>1. PICK n \in {0} \cup Delivered : Record("cancelled", n, {})
    BY <1>8 DEF TransferCancelled
  <2>2. /\ apc \in {"transfer", "stream"} /\ token /\ Ends("cancelled")
        /\ stored' = [stored EXCEPT ![job.method] = "partial"]
        /\ UNCHANGED <<job, plan, notes, truth>>
    BY <1>8 DEF TransferCancelled
  <2>3. report' \in Reports /\ report'.status = "cancelled"
    BY <1>1, <2>1, DeliveredNat, Recorded
  <2> QED BY <1>2, <1>3, <2>2, <2>3 DEF Proceeds, ShortCaptureIsSaid
<1>9. CASE Publish
  <2>1. apc = "publish" /\ Ends(report.status) /\ UNCHANGED <<job, plan, notes, truth, stored, report>>
    BY <1>9 DEF Publish, Unchanged
  <2> QED BY <1>2, <1>3, <1>4, <2>1 DEF Proceeds, ShortCaptureIsSaid
<1>10. CASE PublishCancelled
  BY <1>2, <1>10 DEF PublishCancelled, Returns, Proceeds, ShortCaptureIsSaid
<1> QED BY <1>5, <1>6, <1>7, <1>8, <1>9, <1>10 DEF Transfer

-----------------------------------------------------------------------------
(* The shell while no acquisition is under way: what it types, answers and *)
(* closes, and what it forgets of a run that is over.                      *)
Rests ==
    /\ apc = "idle" /\ apc' = "idle"
    /\ AcquisitionTypeOK'
    /\ report' = report \/ report' = None
    /\ result' = result \/ result' = "none"
    /\ shell' \in ShellStates /\ lines' \in 0 .. MaxLines
    /\ chosen' \in Jobs /\ accepted' \in BOOLEAN /\ left' \in {"no", "asked", "unreadable"}
    /\ shell' = "closed" => left' # "no" \/ (left' = left /\ (shell = "closed" \/ token))

LEMMA RestsStep ==
  ASSUME Inv, Rests, UNCHANGED <<token, device, changes>>, Observe
  PROVE  Inv'
<1> USE DEF Inv, Rests
<1>1. token \in BOOLEAN /\ held \subseteq {"authorized", "refused", "root"} /\ late \in BOOLEAN
  BY DEF ShellTypeOK, AcquisitionTypeOK
<1>2. pressed' = pressed /\ pressed = token
  BY <1>1, TokenKept DEF Stopped
<1>3. late' = late
  BY DEF Observe
<1>4. ShellTypeOK'
  BY <1>1, <1>2, <1>3, HeldGrows DEF ShellTypeOK
<1>5. Asked' /\ Measured' /\ FreshlyAsked'
  BY DEF Asked, Measured, FreshlyAsked, AfterDevice, AfterRoot, AfterSize
<1>6. Stopped'
  BY <1>2, <1>3 DEF Stopped
<1>7. CtrlCIsForGood' /\ ShortCaptureIsSaid'
  BY <1>3 DEF Goals, CtrlCIsForGood, ShortCaptureIsSaid
<1>8. NeverClosedByAFailure'
  BY <1>2 DEF Goals, NeverClosedByAFailure
<1> QED BY <1>4, <1>5, <1>6, <1>7, <1>8 DEF Goals

(* The shell while acquire::run begins.                                    *)
Begins ==
    /\ apc = "idle"
    /\ \E j \in Jobs : Start(j)
    /\ shell' \in {"preview", "guided", "typed"} /\ lines' \in 0 .. MaxLines
    /\ chosen' \in Jobs /\ accepted' \in BOOLEAN /\ left' \in {"no", "asked", "unreadable"}
    /\ shell' = "guided" => accepted' /\ job' = chosen'
    /\ shell' = "preview" => job'.dry

LEMMA BeginsStep ==
  ASSUME Inv, Begins, UNCHANGED <<token, device, changes>>, Observe
  PROVE  Inv'
<1> USE DEF Inv, Begins
<1>1. /\ AcquisitionTypeOK /\ token \in BOOLEAN /\ held \subseteq {"authorized", "refused", "root"}
      /\ stored \in [Methods -> {"nothing", "partial", "published"}]
  BY DEF ShellTypeOK, AcquisitionTypeOK
<1>2. pressed' = pressed /\ pressed = token
  BY <1>1, TokenKept DEF Stopped
<1>3. PICK j \in Jobs : Start(j)
  OBVIOUS
<1>4. /\ apc' = "device" /\ job' = j /\ plan' = NoPlan /\ notes' = {} /\ truth' = 0
      /\ report' = None /\ result' = "none" /\ stored' = stored
  BY <1>3 DEF Start
<1>5. late' = pressed
  BY <1>4 DEF Observe
<1>6. AcquisitionTypeOK'
  BY <1>1, <1>4, ConstantTypes DEF AcquisitionTypeOK
<1>7. ShellTypeOK'
  BY <1>1, <1>2, <1>5, <1>6, HeldGrows DEF ShellTypeOK
<1>8. Asked' /\ Measured' /\ FreshlyAsked'
  BY <1>4 DEF Asked, Measured, FreshlyAsked, AfterDevice, AfterRoot, AfterSize
<1>9. Stopped'
  BY <1>2, <1>4, <1>5 DEF Stopped
<1>10. CtrlCIsForGood' /\ ShortCaptureIsSaid' /\ NeverClosedByAFailure'
  BY <1>4 DEF CtrlCIsForGood, ShortCaptureIsSaid, NeverClosedByAFailure
<1> QED BY <1>7, <1>8, <1>9, <1>10 DEF Goals

LEMMA ShellSteps ==
  ASSUME Inv, ShellStep, UNCHANGED <<token, device, changes>>
  PROVE  Rests \/ Begins
<1>1. /\ AcquisitionTypeOK /\ shell \in ShellStates /\ lines \in 0 .. MaxLines
      /\ chosen \in Jobs /\ accepted \in BOOLEAN /\ left \in {"no", "asked", "unreadable"}
      /\ (apc # "idle" => shell \in {"preview", "guided", "typed"})
  BY DEF Inv, ShellTypeOK
<1>2. \A s : Types(s) => /\ apc = "idle" /\ shell' = s /\ lines' \in 0 .. MaxLines
  BY <1>1, SessionAssumption DEF Types
<1>3. UNCHANGED avars => AcquisitionTypeOK' /\ UNCHANGED <<apc, report, result>>
  BY <1>1 DEF avars, AcquisitionTypeOK
<1>4. apc = "idle" /\ Forget => AcquisitionTypeOK' /\ apc' = apc /\ report' = None /\ result' = "none"
  BY <1>1, ConstantTypes DEF Forget, AcquisitionTypeOK
<1>5. CASE Leave
  BY <1>1, <1>3, <1>5 DEF Leave, Rests
<1>13. CASE LineUnread \/ AnswerUnread
  BY <1>1, <1>3, <1>13, ConstantTypes DEF LineUnread, AnswerUnread, Rests
<1>6. CASE TypeQuery \/ TypeCaseCommand \/ TypeGuided
  BY <1>1, <1>2, <1>3, <1>6 DEF TypeQuery, TypeCaseCommand, TypeGuided, Rests
<1>7. CASE GiveArgument \/ CaseCommandEnds \/ Decline
  BY <1>1, <1>3, <1>7, ConstantTypes DEF GiveArgument, CaseCommandEnds, Decline, Rests
<1>8. CASE \E j \in Jobs : TypeAcquire(j)
  BY <1>1, <1>2, <1>8 DEF TypeAcquire, Begins
<1>9. ASSUME NEW m \in Methods, Preview(m)
      PROVE  Begins
  <2>1. /\ chosen' \in Jobs /\ [chosen' EXCEPT !.dry = TRUE] \in Jobs
        /\ [chosen' EXCEPT !.dry = TRUE].dry
    BY <1>9 DEF Preview, Jobs
  <2>2. Start([chosen' EXCEPT !.dry = TRUE]) /\ job' = [chosen' EXCEPT !.dry = TRUE]
    BY <1>9 DEF Preview, Start
  <2> QED BY <1>1, <1>9, <2>1, <2>2 DEF Preview, Begins
<1>10. CASE PreviewEnds
  BY <1>1, <1>4, <1>10, ConstantTypes DEF PreviewEnds, Rests
<1>11. CASE Accept
  BY <1>1, <1>11 DEF Accept, Begins, Start
<1>12. CASE AcquireEnds
  <2>1. result = "interrupted" => token
    BY DEF Inv, Stopped
  <2> QED BY <1>1, <1>4, <1>12, <2>1, ConstantTypes DEF AcquireEnds, Rests
<1> QED BY <1>5, <1>6, <1>7, <1>8, <1>9, <1>10, <1>11, <1>12, <1>13 DEF ShellStep

(* While the shell asks a question no acquisition is under way.            *)
LEMMA InquiresRests ==
  ASSUME Inv, Inquires, UNCHANGED <<token, device, changes>>
  PROVE  Rests
<1>1. /\ AcquisitionTypeOK /\ lines \in 0 .. MaxLines
      /\ chosen \in Jobs /\ accepted \in BOOLEAN /\ left \in {"no", "asked", "unreadable"}
      /\ (apc # "idle" => shell \in {"preview", "guided", "typed"})
  BY DEF Inv, ShellTypeOK
<1>2. Types("asking") => shell = "prompt" /\ shell' = "asking" /\ lines' \in 0 .. MaxLines
  BY <1>1, SessionAssumption DEF Types
<1>3. UNCHANGED avars => AcquisitionTypeOK' /\ UNCHANGED <<apc, report, result>>
  BY <1>1 DEF avars, AcquisitionTypeOK
<1>4. ASSUME NEW q \in Queries, TypeQuestion(q)
      PROVE  Rests
  BY <1>1, <1>2, <1>3, <1>4 DEF TypeQuestion, Rests
<1>5. CASE Questions
  BY <1>1, <1>3, <1>5 DEF Questions, Rests
<1> QED BY <1>4, <1>5 DEF Inquires

-----------------------------------------------------------------------------
(* Ctrl-C: from now on nothing new gets as far as a transfer.              *)
LEMMA CtrlCStep ==
  ASSUME Inv, CtrlC, UNCHANGED <<device, changes, avars>>, Observe
  PROVE  Inv'
<1> USE DEF Inv
<1>1. /\ ~token /\ token' = TRUE /\ shell # "closed"
      /\ UNCHANGED <<apc, job, plan, notes, truth, stored, report, result,
                     shell, lines, chosen, accepted, left, device, changes>>
  BY DEF CtrlC, avars
<1>2. /\ AcquisitionTypeOK /\ pressed \in BOOLEAN /\ ~late
      /\ held \subseteq {"authorized", "refused", "root"}
  BY <1>1 DEF ShellTypeOK, Stopped
<1>3. pressed' = TRUE /\ late' = late
  BY <1>1, <1>2 DEF Observe
<1>4. held' \subseteq {"authorized", "refused", "root"} /\ (apc # "idle" => held \subseteq held')
  BY <1>2, HeldGrows
<1>5. AcquisitionTypeOK'
  BY <1>1, <1>2 DEF AcquisitionTypeOK
<1>6. ShellTypeOK'
  BY <1>1, <1>2, <1>3, <1>4, <1>5 DEF ShellTypeOK
<1>7. Asked' /\ Measured'
  BY <1>1, <1>4 DEF Asked, Measured, AfterDevice, AfterRoot, AfterSize
<1>8. Stopped' /\ CtrlCIsForGood'
  BY <1>1, <1>2, <1>3 DEF Stopped, CtrlCIsForGood
<1>9. ShortCaptureIsSaid' /\ NeverClosedByAFailure'
  BY <1>1, <1>3 DEF Goals, ShortCaptureIsSaid, NeverClosedByAFailure
<1> QED BY <1>5, <1>6, <1>7, <1>8, <1>9, AskedIsFresh DEF Goals

(* The device changes under a run, and whatever it was is not forgotten.   *)
LEMMA DeviceStep ==
  ASSUME Inv, DeviceChanges, UNCHANGED <<token, avars, svars>>, Observe
  PROVE  Inv'
<1> USE DEF Inv
<1>1. UNCHANGED <<token, apc, job, plan, notes, truth, stored, report, result,
                  shell, lines, chosen, accepted, left>>
  BY DEF avars, svars
<1>2. /\ AcquisitionTypeOK /\ token \in BOOLEAN
      /\ held \subseteq {"authorized", "refused", "root"}
  BY DEF ShellTypeOK, AcquisitionTypeOK
<1>3. pressed' = pressed /\ late' = late
  BY <1>1, <1>2, TokenKept DEF Observe
<1>4. held' \subseteq {"authorized", "refused", "root"} /\ (apc # "idle" => held \subseteq held')
  BY <1>2, HeldGrows
<1>5. device' \in Devices /\ changes' \in 0 .. MaxChanges
  BY <1>2, AcquisitionAssumption DEF DeviceChanges, AcquisitionTypeOK
<1>6. AcquisitionTypeOK'
  BY <1>1, <1>2, <1>5 DEF AcquisitionTypeOK
<1>7. ShellTypeOK'
  BY <1>1, <1>3, <1>4, <1>6 DEF ShellTypeOK
<1>8. Asked' /\ Measured'
  BY <1>1, <1>4 DEF Asked, Measured, AfterDevice, AfterRoot, AfterSize
<1>9. Stopped'
  BY <1>1, <1>3 DEF Stopped
<1>10. ShortCaptureIsSaid' /\ NeverClosedByAFailure' /\ CtrlCIsForGood'
  BY <1>1, <1>3 DEF Goals, ShortCaptureIsSaid, NeverClosedByAFailure, CtrlCIsForGood
<1> QED BY <1>6, <1>7, <1>8, <1>9, <1>10, AskedIsFresh DEF Goals

LEMMA NextInv == Inv /\ [Next]_vars => Inv'
<1>1. ASSUME Inv, ShellStep, UNCHANGED <<token, device, changes>>, Observe
      PROVE  Inv'
  BY <1>1, ShellSteps, RestsStep, BeginsStep
<1>6. ASSUME Inv, Inquires, UNCHANGED <<token, device, changes>>, Observe
      PROVE  Inv'
  BY <1>6, InquiresRests, RestsStep
<1>2. ASSUME Inv, AcquireStep, UNCHANGED <<token, device, changes, svars>>, Observe
      PROVE  Inv'
  <2>1. Question \/ Transfer
    BY <1>2 DEF AcquireStep, Question, Transfer
  <2>2. CASE Question
    BY <1>2, <2>2, QuestionStep
  <2>3. CASE Transfer
    BY <1>2, <2>3, TransferProceeds, ProceedsStep
  <2> QED BY <2>1, <2>2, <2>3
<1>3. ASSUME Inv, CtrlC, UNCHANGED <<device, changes, avars>>, Observe
      PROVE  Inv'
  BY <1>3, CtrlCStep
<1>4. ASSUME Inv, DeviceChanges, UNCHANGED <<token, avars, svars>>, Observe
      PROVE  Inv'
  BY <1>4, DeviceStep
<1>5. ASSUME Inv, UNCHANGED vars
      PROVE  Inv'
  <2>1. UNCHANGED <<token, device, changes, apc, job, plan, notes, truth, stored, report,
                    result, shell, lines, chosen, accepted, left, pressed, late, held>>
    BY <1>5 DEF vars, avars, svars, ghosts
  <2>2. ShellTypeOK'
    BY <1>5, <2>1 DEF Inv, ShellTypeOK, AcquisitionTypeOK
  <2>3. Asked' /\ Measured' /\ Stopped'
    BY <1>5, <2>1 DEF Inv, Asked, Measured, Stopped, AfterDevice, AfterRoot, AfterSize
  <2>4. Goals'
    BY <1>5, <2>1
       DEF Inv, Goals, ShortCaptureIsSaid, FreshlyAsked, CtrlCIsForGood, NeverClosedByAFailure
  <2> QED BY <2>2, <2>3, <2>4 DEF Inv
<1> QED BY <1>1, <1>2, <1>3, <1>4, <1>5, <1>6 DEF Next

LEMMA InvAlways == Spec => []Inv
<1>1. Init => Inv
  BY InitInv
<1>2. Inv /\ [Next]_vars => Inv'
  BY NextInv
<1> QED BY <1>1, <1>2, PTL DEF Spec

-----------------------------------------------------------------------------
(* The questions.  What was listed was true then, and what was true since  *)
(* the question began is in held.                                          *)
Inquired ==
    /\ ipc \in {"version", "list"} => seen = "absent"
    /\ ipc = "destination" => query = "doctor"
    /\ ipc = "metadata" => query # "doctor" /\ "authorized" \in held
    /\ ipc = "destination" /\ seen = "authorized" => "authorized" \in held
    /\ ipc = "destination" /\ seen # "authorized" => "refused" \in held \/ worst = "fail"

Asking == InquiryTypeOK /\ (ipc # "idle" <=> shell = "asking") /\ Inquired

LEMMA ShellNeverAsks ==
  ASSUME ShellStep
  PROVE  shell' # "asking"
  BY DEF ShellStep, Leave, LineUnread, AnswerUnread, TypeQuery, TypeCaseCommand, GiveArgument,
         CaseCommandEnds,
         TypeAcquire, TypeGuided, Preview, PreviewEnds, Decline, Accept, AcquireEnds, Types

(* held over a question.                                                   *)
LEMMA HeldWhileAsking ==
  ASSUME Observe
  PROVE  /\ ipc # "idle" => held \subseteq held'
         /\ device'.state = "authorized" => "authorized" \in held'
         /\ device'.state # "authorized" => "refused" \in held'
  BY DEF Observe, True

LEMMA InquiryKeeps ==
  ASSUME Asking, InquiryStep, UNCHANGED device, device.state \in ConnectionStates, Observe
  PROVE  InquiryTypeOK' /\ Inquired'
<1> USE DEF Asking, Inquired, InquiryTypeOK, InquirySteps, Sayings, Queries, GoesTo, Says,
            CallFails
<1>1. CASE AskVersion
  BY <1>1, HeldWhileAsking DEF AskVersion
<1>2. CASE ListDevices
  <2>1. CASE CallFails("destination")
    BY <1>2, <2>1 DEF ListDevices
  <2>2. CASE /\ query = "doctor"
             /\ seen' = device.state /\ GoesTo("destination") /\ UNCHANGED worst
    BY <1>2, <2>2, HeldWhileAsking DEF ListDevices
  <2>3. CASE /\ query # "doctor" /\ device.state = "authorized"
             /\ seen' = device.state /\ GoesTo("metadata") /\ UNCHANGED worst
    BY <1>2, <2>3, HeldWhileAsking DEF ListDevices
  <2>4. CASE \E s \in {"error", "not acquirable"} : Says(s) /\ UNCHANGED worst
    BY <2>4
  <2> QED BY <1>2, <2>1, <2>2, <2>3, <2>4 DEF ListDevices
<1>3. CASE ReadMetadata
  BY <1>3, HeldWhileAsking DEF ReadMetadata
<1>4. CASE CheckDestination
  <2>1. PICK status \in {worst, "fail"} :
            /\ Says(IF ReadyToAcquire(status) THEN "ready" ELSE "not ready")
            /\ worst' = status
    BY <1>4 DEF CheckDestination
  <2>2. query = "doctor"
    BY <1>4 DEF CheckDestination
  <2> QED BY <2>1, <2>2 DEF CheckDestination
<1> QED BY <1>1, <1>2, <1>3, <1>4 DEF InquiryStep

LEMMA AskingKept == Inv /\ Asking /\ [Next]_vars => Asking'
<1> SUFFICES ASSUME Inv, Asking, [Next]_vars PROVE Asking'
  OBVIOUS
<1>1. device.state \in ConnectionStates
  BY DEF Inv, ShellTypeOK, AcquisitionTypeOK, Devices
<1>2. CASE ShellStep /\ Quiet
  BY <1>2, ShellNeverAsks
     DEF Quiet, Asking, Inquired, InquiryTypeOK, Queries, ConnectionStates, Sayings
<1>3. CASE UNCHANGED ivars /\ UNCHANGED shell /\ (Observe \/ UNCHANGED held)
  <2>1. UNCHANGED <<ipc, query, seen, worst, said, shell>>
    BY <1>3 DEF ivars
  <2>2. ipc # "idle" => held \subseteq held'
    BY <1>3, HeldWhileAsking
  <2>3. InquiryTypeOK'
    BY <2>1 DEF Asking, InquiryTypeOK
  <2> QED BY <2>1, <2>2, <2>3 DEF Asking, Inquired
<1>4. ASSUME NEW q \in Queries, TypeQuestion(q), Observe
      PROVE  Asking'
  BY <1>4 DEF TypeQuestion, Types, Ask, Asking, Inquired, InquiryTypeOK, Queries,
             InquirySteps, ConnectionStates, Sayings
<1>5. CASE Questions /\ Observe /\ UNCHANGED device
  <2>1. InquiryTypeOK' /\ Inquired'
    BY <1>1, <1>5, InquiryKeeps DEF Questions
  <2>2. ipc' # "idle" <=> shell' = "asking"
    BY <1>5 DEF Questions
  <2> QED BY <2>1, <2>2 DEF Asking
<1>6. CASE Next
  <2>1. CASE ShellStep /\ Quiet
    BY <1>2, <2>1
  <2>2. CASE Inquires /\ UNCHANGED <<token, device, changes>>
    BY <1>4, <1>5, <1>6, <2>2 DEF Inquires, Next
  <2>3. CASE \/ UNCHANGED <<token, device, changes, ivars, svars>>
             \/ CtrlC /\ UNCHANGED <<device, changes, avars, ivars>>
             \/ UNCHANGED <<token, avars, ivars, svars>>
    BY <1>3, <1>6, <2>3 DEF Next, CtrlC, svars
  <2> QED BY <1>6, <2>1, <2>2, <2>3 DEF Next
<1>7. CASE UNCHANGED vars
  BY <1>3, <1>7 DEF vars, svars, ghosts
<1> QED BY <1>6, <1>7

LEMMA AskingAlways == Spec => [](Inv /\ Asking)
<1>1. Init => Asking
  BY DEF Init, InquiryInit, Asking, Inquired, InquiryTypeOK, Queries, ConnectionStates, Sayings
<1>2. Inv /\ Asking /\ [Next]_vars => Asking'
  BY AskingKept
<1> QED BY <1>1, <1>2, InvAlways, PTL DEF Spec

-----------------------------------------------------------------------------
(* Every variable keeps its type, a preview never gets to a transfer, and  *)
(* an acquisition is under way only while the shell waits for it.          *)
THEOREM TypeCorrect == Spec => []TypeOK
<1>1. Inv /\ Asking => TypeOK
  BY DEF Inv, Asking, TypeOK
<1> QED BY <1>1, AskingAlways, PTL

(* What devices, info and doctor say of the device was so at some time     *)
(* since they began, whatever the device did between their questions.      *)
THEOREM AnswersTrueOnce == Spec => AnswersWereTrue
<1> DEFINE Said ==
             ipc # "idle" /\ ipc' = "idle" =>
               /\ said' \in {"acquirable", "ready"} => "authorized" \in held' /\ worst' # "fail"
               /\ said' \in {"not acquirable", "not ready"} => "refused" \in held' \/ worst' = "fail"
<1>1. ASSUME Inv, Asking, [Next]_vars PROVE [Said]_vars
  <2>1. CASE UNCHANGED ipc
    BY <2>1
  <2>2. CASE Quiet
    BY <2>2 DEF Quiet
  <2>3. ASSUME NEW q \in Queries, TypeQuestion(q) PROVE Said
    BY <2>3 DEF TypeQuestion, Ask
  <2>4. CASE Questions /\ Observe /\ UNCHANGED device
    <3> USE DEF GoesTo, Says, CallFails
    <3>1. /\ held \subseteq held' \/ ipc = "idle"
          /\ device.state # "authorized" => "refused" \in held'
          /\ device.state = "authorized" => "authorized" \in held'
      BY <2>4, HeldWhileAsking
    <3>2. CASE AskVersion
      BY <3>2 DEF AskVersion
    <3>3. CASE ListDevices
      BY <1>1, <3>1, <3>3 DEF ListDevices, Asking, InquiryTypeOK
    <3>4. CASE ReadMetadata
      <4>1. worst = "ok"
        BY <1>1, <3>4 DEF ReadMetadata, Asking, InquiryTypeOK, Inquired
      <4> QED BY <1>1, <3>1, <3>4, <4>1 DEF ReadMetadata, Asking, Inquired
    <3>5. CASE CheckDestination
      <4>1. PICK status \in {worst, "fail"} :
                /\ Says(IF ReadyToAcquire(status) THEN "ready" ELSE "not ready")
                /\ worst' = status
        BY <3>5 DEF CheckDestination
      <4>2. status \in {"ok", "fail"} /\ ipc = "destination"
        BY <1>1, <3>5 DEF CheckDestination, Asking, InquiryTypeOK
      <4>3. CASE ReadyToAcquire(status)
        BY <1>1, <3>1, <4>1, <4>2, <4>3 DEF ReadyToAcquire, Asking, Inquired
      <4>4. CASE ~ReadyToAcquire(status)
        BY <1>1, <3>1, <4>1, <4>2, <4>4 DEF ReadyToAcquire, Asking, Inquired
      <4> QED BY <4>3, <4>4
    <3> QED BY <2>4, <3>2, <3>3, <3>4, <3>5 DEF Questions, InquiryStep
  <2>5. CASE Next
    BY <2>1, <2>2, <2>3, <2>4, <2>5 DEF Next, Inquires, ivars
  <2> QED BY <1>1, <2>1, <2>5 DEF vars, ivars
<1> QED BY <1>1, AskingAlways, PTL DEF Spec, AnswersWereTrue

(* Whatever the device does between the questions and the transfer, a      *)
(* complete manifest of far less than the scope held says so, or says that *)
(* the size was not known.                                                 *)
THEOREM ShortfallStated == Spec => []ShortCaptureIsSaid
<1>1. Inv => ShortCaptureIsSaid
  BY DEF Inv, Goals
<1> QED BY <1>1, InvAlways, PTL

(* A transfer begins only from a device this very run found authorised     *)
(* (and root, for an image), and in the guided acquisition only after the  *)
(* operator agreed to a plan with these arguments.                         *)
THEOREM PreflightIsOfThisRun == Spec => []FreshlyAsked
<1>1. Inv => FreshlyAsked
  BY DEF Inv, Goals
<1> QED BY <1>1, InvAlways, PTL

(* No acquisition begun after Ctrl-C comes to a complete artifact.         *)
THEOREM NothingAfterCtrlC == Spec => []CtrlCIsForGood
<1>1. Inv => CtrlCIsForGood
  BY DEF Inv, Goals
<1> QED BY <1>1, InvAlways, PTL

(* No failure closes the shell, of whatever command or answer, in a        *)
(* session of any length: it closes because the operator left it, because  *)
(* no command could be read, or after Ctrl-C.                              *)
THEOREM ShellStaysOpen == Spec => []NeverClosedByAFailure
<1>1. Inv => NeverClosedByAFailure
  BY DEF Inv, Goals
<1> QED BY <1>1, InvAlways, PTL
=============================================================================
