-------------------------------- MODULE Inquiry --------------------------------
(***************************************************************************)
(* The commands that ask about a device and say something of it: `devices` *)
(* and `info` (commands/device.rs) and `doctor` (commands/doctor.rs).      *)
(* They transfer nothing and never look at the token.  Every question is   *)
(* an adb call of its own, as in module Acquisition, and what is said at   *)
(* the end rests on an answer that may be several calls old.  `methods`    *)
(* asks nothing and prints a list.                                         *)
(***************************************************************************)
EXTENDS Acquisition

VARIABLES
    ipc,     \* where the command is
    query,   \* which one it is
    seen,    \* the state list_devices gave
    worst,   \* the worst Status a check of doctor has, but Warn counts as Ok
    said     \* what was printed at the end

ivars == <<ipc, query, seen, worst, said>>

Queries == {"devices", "info", "doctor"}
InquirySteps == {"version", "list", "metadata", "destination"}
(* What is said of the device: whether it may be acquired from, or whether *)
(* an acquisition could start now; or the command fails.                   *)
Sayings == {"acquirable", "not acquirable", "ready", "not ready", "error"}

InquiryInit ==
    ipc = "idle" /\ query = "doctor" /\ seen = "absent" /\ worst = "ok" /\ said = "nothing"

(* No such command is under way, and what the last one said was read.      *)
Quiet ==
    ipc' = "idle" /\ query' = "doctor" /\ seen' = "absent" /\ worst' = "ok" /\ said' = "nothing"

(* The command begins; `info` does not ask for the version of adb.         *)
Ask(q) ==
    /\ ipc' = IF q = "info" THEN "list" ELSE "version"
    /\ query' = q /\ seen' = "absent" /\ worst' = "ok" /\ said' = "nothing"

(* On to the next question, or what is said at the end.                    *)
GoesTo(step) == ipc' = step /\ UNCHANGED <<query, said>>

Says(s) == ipc' = "idle" /\ said' = s /\ UNCHANGED <<query, seen>>

(* An adb call of doctor that fails is a check that fails, and doctor goes *)
(* on with the next one; in the others it is an error.                     *)
CallFails(step) ==
    IF query = "doctor" THEN GoesTo(step) /\ worst' = "fail" /\ UNCHANGED seen
    ELSE Says("error") /\ UNCHANGED worst

(* `adb version`                                                           *)
AskVersion ==
    /\ ipc = "version"
    /\ CallFails("list") \/ (GoesTo("list") /\ UNCHANGED <<seen, worst>>)

(* `adb devices -l`.  A device that is not listed is an error for info, an *)
(* empty list for devices, and a warning for doctor.                       *)
ListDevices ==
    /\ ipc = "list"
    /\ CallFails("destination")
       \/ /\ query = "doctor"
          /\ seen' = device.state /\ GoesTo("destination") /\ UNCHANGED worst
       \/ /\ query # "doctor" /\ device.state = "authorized"
          /\ seen' = device.state /\ GoesTo("metadata") /\ UNCHANGED worst
       \/ /\ query # "doctor" /\ device.state # "authorized"
          /\ Says(IF query = "info" /\ device.state = "absent" THEN "error"
                  ELSE "not acquirable")
          /\ UNCHANGED worst

(* getprop, and `id -u`, the failure of which is passed over.              *)
MetadataComes == Answers

(* devices says what it was going to say without the metadata, and with    *)
(* --no-details it does not ask; for info they are required.               *)
ReadMetadata ==
    /\ ipc = "metadata"
    /\ \/ MetadataComes /\ Says("acquirable")
       \/ Says(IF query = "devices" THEN "acquirable" ELSE "error")
    /\ UNCHANGED worst

(* Mutant: a device that is only warned of does not stand in the way.      *)
ReadyUnlessFailed(status) == status = "ok"

(* No check failed and some device is authorised.                          *)
ReadyToAcquire(status) == status = "ok" /\ seen = "authorized"

(* ewfacquire that is missing is a warning.  With --output the case        *)
(* directory is created there, which may fail; little space is a warning.  *)
CheckDestination ==
    /\ ipc = "destination"
    /\ \E status \in {worst, "fail"} :
          Says(IF ReadyToAcquire(status) THEN "ready" ELSE "not ready") /\ worst' = status

InquiryStep == AskVersion \/ ListDevices \/ ReadMetadata \/ CheckDestination

InquiryTypeOK ==
    /\ ipc \in InquirySteps \cup {"idle"} /\ query \in Queries
    /\ seen \in ConnectionStates /\ worst \in {"ok", "fail"}
    /\ said \in Sayings \cup {"nothing"}
    /\ (ipc # "idle" => said = "nothing") /\ (worst = "fail" => query = "doctor")
=============================================================================
