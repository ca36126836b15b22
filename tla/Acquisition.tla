------------------------------ MODULE Acquisition ------------------------------
(***************************************************************************)
(* One `acquire` command seen from the device: commands/acquire.rs::run,   *)
(* the preflight and the transfer of the two backends (acquisition/        *)
(* logical.rs, physical.rs), and the questions AdbClient asks.  Every      *)
(* question is one adb call of its own, so the device may be unplugged,    *)
(* lose its authorisation, lose its root shell or change its content       *)
(* between any two of them, and each of them may fail.  What the command   *)
(* does to the case directory is the subject of EvidenceStore, how the     *)
(* bytes are relayed that of StreamTransfer.                               *)
(***************************************************************************)
EXTENDS Naturals, FiniteSets

CONSTANTS
    Sizes,       \* how much the scope on the device may hold
    LinkSize,    \* what an archive of nothing but a symbolic link holds
    FreeSpace,   \* what the destination may have free, or None
    MaxChanges,  \* bound: how often the device changes
    None

ASSUME AcquisitionAssumption ==
    /\ Sizes \subseteq Nat /\ LinkSize \in Nat
    /\ FreeSpace \subseteq Nat \cup {None} /\ None \notin Nat
    /\ MaxChanges \in Nat

VARIABLES
    token,    \* CancellationToken::flag
    device,   \* the device as it is
    changes,  \* how often it changed
    apc,      \* where acquire::run is
    job,      \* the arguments that matter here
    plan,     \* Preflight: the path that will be read, the estimate
    notes,    \* warnings and errors that are about the amount of data
    truth,    \* what the scope held when its size was asked
    stored,   \* what is under the name of the artifact of each method
    report,   \* what the manifest of the last run says
    result    \* how the last run ended

avars == <<apc, job, plan, notes, truth, stored, report, result>>

Methods == {"logical", "physical"}
(* ConnectionState: only `device` is_acquirable; "blocked" is all others.  *)
ConnectionStates == {"authorized", "blocked", "absent"}
Devices == [state : ConnectionStates, root : BOOLEAN, holds : Sizes, link : BOOLEAN]
Jobs == [method : Methods, dry : BOOLEAN, allow : BOOLEAN]
Steps == {"device", "uid", "target", "blockdev", "resolve", "scope", "du", "metadata", "space"}
Running == Steps \cup {"transfer", "stream", "publish"}
Results == {"none", "ok", "interrupted", "device", "unsupported", "space", "destination", "failed"}
Notes == {"size_unknown", "shortfall", "no_data", "read_errors"}
Statuses == {"completed", "completed_with_errors", "cancelled", "failed"}
Complete == {"completed", "completed_with_errors"}
Reports == [status : Statuses, captured : Nat, truth : Nat, notes : SUBSET Notes]
ASSUME ReportAssumption == None \notin Reports

NoJob == [method |-> "logical", dry |-> FALSE, allow |-> FALSE]
NoPlan == [path |-> "requested", estimate |-> None]

AcquisitionInit ==
    /\ token = FALSE /\ device \in Devices /\ changes = 0
    /\ apc = "idle" /\ job = NoJob /\ plan = NoPlan
    /\ notes = {} /\ truth = 0
    /\ stored = [m \in Methods |-> "nothing"]
    /\ report = None /\ result = "none"

-----------------------------------------------------------------------------
(* An adb call that reaches the device; whether it does is never certain.  *)
Answers == device.state = "authorized"

Start(j) ==
    /\ apc' = "device" /\ job' = j /\ plan' = NoPlan
    /\ notes' = {} /\ truth' = 0 /\ report' = None /\ result' = "none"
    /\ UNCHANGED stored

(* acquire::run returns.                                                   *)
Returns(r) == apc' = "idle" /\ result' = r

(* Its caller keeps nothing of it but the exit code.                       *)
Forget ==
    /\ job' = NoJob /\ plan' = NoPlan /\ notes' = {} /\ truth' = 0
    /\ report' = None /\ result' = "none"
    /\ UNCHANGED <<apc, stored>>

Unchanged == <<job, plan, notes, truth, stored, report>>
Goto(s) == apc' = s /\ UNCHANGED result
Fails(r) == Returns(r) /\ UNCHANGED Unchanged

(* find_device: the list of `adb devices -l`, where the device is by its   *)
(* serial; require_acquirable_device refuses every other state.            *)
RequireDevice ==
    /\ apc = "device"
    /\ \/ device.state = "authorized" /\ UNCHANGED Unchanged
            /\ Goto(IF job.method = "physical" THEN "uid" ELSE "resolve")
       \/ Fails("device")

(* `id -u` can say that the shell is root, or not.                         *)
SaysRoot(b) == Answers /\ device.root = b

(* A shell that is not root already is refused, never changed.             *)
RequireRoot ==
    /\ apc = "uid"
    /\ \/ SaysRoot(TRUE) /\ Goto("target") /\ UNCHANGED Unchanged
       \/ SaysRoot(FALSE) /\ Fails("unsupported")
       \/ Fails("device")

(* `readlink -f`: a symbolic link is followed; an answer that is no usable *)
(* path, and a command that exits with an error, leave the path as it was. *)
Resolved == {"requested"} \cup (IF Answers /\ device.link THEN {"target"} ELSE {})

ResolveScope ==
    /\ apc = "resolve"
    /\ \/ /\ \E p \in Resolved : plan' = [plan EXCEPT !.path = p]
          /\ Goto("scope")
          /\ UNCHANGED <<job, notes, truth, stored, report>>
       \/ Fails("device")

(* `tar` and the path are asked for, and the properties are read.          *)
RequireScope ==
    /\ apc = "scope"
    /\ \/ Answers /\ Goto("du") /\ UNCHANGED Unchanged
       \/ \E r \in {"unsupported", "device"} : Fails(r)

(* The same with `dd` and the block device.                                *)
RequireTarget ==
    /\ apc = "target"
    /\ \/ Answers /\ Goto("blockdev") /\ UNCHANGED Unchanged
       \/ \E r \in {"unsupported", "device"} : Fails(r)

(* `du -s -k -L`, where 0 counts as unknown, as does every failure.        *)
TreeSize == {None} \cup (IF Answers /\ device.holds > 0 THEN {device.holds} ELSE {})

(* `blockdev --getsize64`, or the sysfs attribute of the same device.      *)
BlockSize == {None} \cup (IF Answers THEN {device.holds} ELSE {})

(* What there is to be acquired is learnt, or that it cannot be.           *)
Learn(n) ==
    /\ plan' = [plan EXCEPT !.estimate = n]
    /\ notes' = IF n = None THEN notes \cup {"size_unknown"} ELSE notes
    /\ truth' = device.holds
    /\ Goto("metadata")
    /\ UNCHANGED <<job, stored, report>>

EstimateScope == apc = "du" /\ \E n \in TreeSize : Learn(n)

AskBlockSize == apc = "blockdev" /\ ((\E n \in BlockSize : Learn(n)) \/ Fails("device"))

(* acquire::run reads the properties once more; it goes on without them.   *)
AskMetadata == apc = "metadata" /\ Goto("space") /\ UNCHANGED Unchanged

(* EvidenceStore::ensure_space with 5 percent of headroom.                 *)
Needed(n) == n + (n * 5) \div 100

Fits(free) == plan.estimate = None \/ free = None \/ free >= Needed(plan.estimate)

(* Mutant: a dry run goes on.                                              *)
CheckSpaceOnly ==
    /\ apc = "space"
    /\ \E free \in FreeSpace :
         IF ~Fits(free) THEN Fails("space") ELSE Goto("transfer") /\ UNCHANGED Unchanged

(* A dry run ends with the plan.                                           *)
ReportDryRun == job.dry /\ Fails("ok")

CheckSpace ==
    /\ apc = "space"
    /\ \E free \in FreeSpace :
         IF ~Fits(free) THEN Fails("space")
         ELSE ReportDryRun \/ (~job.dry /\ Goto("transfer") /\ UNCHANGED Unchanged)

-----------------------------------------------------------------------------
(* build_manifest and the exit status that follows from it.                *)
Record(status, n, more) ==
    report' = [status |-> status, captured |-> n, truth |-> truth, notes |-> notes \cup more]

Ends(status) ==
    Returns(CASE status \in Complete -> "ok" [] status = "cancelled" -> "interrupted"
              [] OTHER -> "failed")

(* create_artifact refuses a name that is taken, by a .partial file too.   *)
NameTaken ==
    /\ apc = "transfer" /\ stored[job.method] # "nothing"
    /\ Record("failed", 0, {}) /\ Returns("destination")
    /\ UNCHANGED <<job, plan, notes, truth, stored>>

(* Mutant: the token is looked at only once something was read.            *)
TransferStartsBlindly ==
    /\ apc = "transfer" /\ stored[job.method] = "nothing"
    /\ Goto("stream") /\ UNCHANGED Unchanged

(* CommandRunner::stream looks at the token before each read, so before    *)
(* the first one, too.                                                     *)
TransferStarts ==
    /\ apc = "transfer" /\ stored[job.method] = "nothing" /\ ~token
    /\ Goto("stream") /\ UNCHANGED Unchanged

(* What can arrive: `dd` reads the device from its start; so does `tar`    *)
(* the tree, but an archive of a link is nothing but the link.             *)
Image == {0} \cup {n \in Sizes : n <= device.holds}
Archive == IF device.link /\ plan.path = "requested" THEN {0, LinkSize} ELSE Image
Delivered == IF job.method = "logical" THEN Archive ELSE Image

(* Mutant: a transfer that ends with status 0 is believed.                 *)
NoDoubts(n) == IF n = 0 THEN {"no_data"} ELSE {}

(* The checks of a complete transfer: an archive of less than an eighth of *)
(* the estimate, an image of another size than the block device reported.  *)
ShortArchive(n) == job.method = "logical" /\ n < plan.estimate \div 8
ShortImage(n) == job.method = "physical" /\ n # plan.estimate

Doubts(n) ==
    (IF n = 0 THEN {"no_data"} ELSE {})
      \cup (IF plan.estimate # None /\ (ShortArchive(n) \/ ShortImage(n))
              THEN {"shortfall"} ELSE {})

(* The remote command ends by itself, or the relay fails.  Status 0 is no  *)
(* proof that the device was still there.  The operator may have asked for *)
(* errors of the source to be recorded and no more.                        *)
TransferEnds(status, n) ==
    /\ apc = "stream" /\ n \in Delivered
    /\ status = "completed_with_errors" => job.allow /\ n > 0
    /\ LET errors == IF status = "completed" THEN {} ELSE {"read_errors"}
       IN  IF status \in Complete
             THEN /\ Record(status, n, errors \cup Doubts(n))
                  /\ stored' = [stored EXCEPT ![job.method] = "published"]
                  /\ Goto("publish")
             ELSE /\ Record(status, n, errors)
                  /\ stored' = [stored EXCEPT ![job.method] = "partial"]
                  /\ Ends(status)
    /\ UNCHANGED <<job, plan, notes, truth>>

TransferCancelled ==
    /\ apc \in {"transfer", "stream"} /\ stored[job.method] = "nothing" /\ token
    /\ \E n \in IF apc = "transfer" THEN {0} ELSE Delivered : Record("cancelled", n, {})
    /\ stored' = [stored EXCEPT ![job.method] = "partial"]
    /\ Ends("cancelled")
    /\ UNCHANGED <<job, plan, notes, truth>>

(* The published file is compared, and the manifest written.               *)
Publish == apc = "publish" /\ Ends(report.status) /\ UNCHANGED Unchanged

(* Ctrl-C while the file is compared: adopt_residue is interrupted, too,   *)
(* and there is no manifest.                                               *)
PublishCancelled ==
    /\ apc = "publish" /\ token
    /\ report' = None /\ Returns("interrupted")
    /\ UNCHANGED <<job, plan, notes, truth, stored>>

-----------------------------------------------------------------------------
(* The device (external).  What is a link stays one.                       *)
DeviceChanges ==
    /\ changes < MaxChanges /\ changes' = changes + 1
    /\ \E d \in Devices : d # device /\ d.link = device.link /\ device' = d

AcquireStep ==
    \/ RequireDevice \/ AskMetadata \/ CheckSpace
    \/ ResolveScope \/ RequireScope \/ EstimateScope
    \/ RequireRoot \/ RequireTarget \/ AskBlockSize
    \/ NameTaken \/ TransferStarts
    \/ \E status \in Statuses \ {"cancelled"}, n \in Sizes \cup {0, LinkSize} :
          TransferEnds(status, n)
    \/ TransferCancelled \/ Publish \/ PublishCancelled

AcquisitionTypeOK ==
    /\ token \in BOOLEAN /\ device \in Devices /\ changes \in 0 .. MaxChanges
    /\ apc \in Running \cup {"idle"} /\ job \in Jobs
    /\ plan \in [path : {"requested", "target"}, estimate : Sizes \cup {None}]
    /\ notes \subseteq Notes /\ truth \in Sizes \cup {0}
    /\ stored \in [Methods -> {"nothing", "partial", "published"}]
    /\ report \in Reports \cup {None} /\ result \in Results
    /\ (apc = "publish" => report # None /\ report.status \in Complete)
    /\ (apc \in {"transfer", "stream", "publish"} => ~job.dry)
=============================================================================
