-------------------------------- MODULE Session --------------------------------
(***************************************************************************)
(* The interactive shell (interactive.rs) and the commands it dispatches   *)
(* (commands/mod.rs::run_command): what the operator types, the guided     *)
(* acquisition, which runs acquire::run twice, and Ctrl-C.  All lines      *)
(* share the one CancellationToken of the process; nothing resets it.  The *)
(* acquisition is the one of module Acquisition, on a device that changes  *)
(* meanwhile, and so are the questions of module Inquiry; of the other     *)
(* commands only their end and their use of the token are kept.            *)
(***************************************************************************)
EXTENDS Inquiry

CONSTANT MaxLines   \* bound: lines of a session

ASSUME SessionAssumption == MaxLines \in Nat

VARIABLES
    shell,    \* what the shell waits for or does
    lines,    \* how many lines were typed
    chosen,   \* the arguments of the guided acquisition
    accepted, \* the operator said yes to the plan
    left,     \* "asked": exit, quit or end of input; "unreadable": no line could be read
    pressed,  \* Ctrl-C was pressed in this session
    late,     \* the last run of acquire::run began after that
    held      \* what was true of the device since acquire::run or a question began

svars == <<shell, lines, chosen, accepted, left>>
ghosts == <<pressed, late, held>>
vars == <<token, device, changes, avars, ivars, svars, ghosts>>

Prompts == {"prompt", "argument", "answers", "confirm"}     \* waiting for the operator
Busy == {"asking", "case", "preview", "guided", "typed"}    \* running a command
ShellStates == Prompts \cup Busy \cup {"closed"}

Init ==
    /\ AcquisitionInit /\ InquiryInit
    /\ shell = "prompt" /\ lines = 0
    /\ chosen = NoJob /\ accepted = FALSE /\ left = "no"
    /\ pressed = FALSE /\ late = FALSE /\ held = {}

Types(s) == shell = "prompt" /\ lines < MaxLines /\ lines' = lines + 1 /\ shell' = s

(* exit, quit, and the end of input at any question.                       *)
Leave ==
    /\ shell \in Prompts
    /\ shell' = "closed" /\ left' = "asked"
    /\ UNCHANGED <<avars, lines, chosen, accepted>>

(* A line that cannot be read, as one that is not UTF-8, closes the shell  *)
(* with an error if it is a command,                                       *)
LineUnread ==
    /\ shell = "prompt"
    /\ shell' = "closed" /\ left' = "unreadable"
    /\ UNCHANGED <<avars, lines, chosen, accepted>>

(* and leads back to the prompt if it is an answer.                        *)
AnswerUnread ==
    /\ shell \in Prompts \ {"prompt"}
    /\ shell' = "prompt" /\ chosen' = NoJob
    /\ UNCHANGED <<avars, lines, accepted, left>>

(* What leads back to the prompt whatever comes of it: help, an empty      *)
(* line, an unterminated quote, a line clap refuses; methods, manifest and *)
(* report without --verify, which never look at the token; `acquire` alone *)
(* if pick_device finds no device.                                         *)
TypeQuery == Types("prompt") /\ UNCHANGED <<avars, chosen, accepted, left>>

(* devices, doctor, and info, the argument of which may be asked for.      *)
TypeQuestion(q) ==
    /\ Types("asking") \/ (shell = "argument" /\ q = "info" /\ shell' = "asking" /\ UNCHANGED lines)
    /\ Ask(q)
    /\ UNCHANGED <<avars, chosen, accepted, left>>

(* Whatever comes of a question, the shell stays open.                     *)
Questions ==
    /\ shell = "asking" /\ InquiryStep
    /\ shell' = IF ipc' = "idle" THEN "prompt" ELSE "asking"
    /\ UNCHANGED <<avars, lines, chosen, accepted, left>>

(* verify, report --verify, hash, extract, convert and copy; the argument  *)
(* is asked for if it is missing.                                          *)
TypeCaseCommand ==
    /\ Types("case") \/ Types("argument")
    /\ UNCHANGED <<avars, chosen, accepted, left>>

GiveArgument ==
    /\ shell = "argument" /\ shell' \in {"case", "prompt"}
    /\ UNCHANGED <<avars, lines, chosen, accepted, left>>

(* A command that is interrupted closes the shell; one that fails does not.*)
CaseCommandEnds ==
    /\ shell = "case"
    /\ shell' = "prompt" \/ (token /\ shell' = "closed")
    /\ UNCHANGED <<avars, lines, chosen, accepted, left>>

-----------------------------------------------------------------------------
(* `acquire` with all its arguments.                                       *)
TypeAcquire(j) ==
    /\ Types("typed") /\ Start(j)
    /\ UNCHANGED <<chosen, accepted, left>>

(* `acquire` alone: pick_device finds a device, and there are questions.   *)
TypeGuided ==
    /\ Types("answers") /\ device.state = "authorized"
    /\ UNCHANGED <<avars, chosen, accepted, left>>

(* guided_acquisition runs a dry run first.                                *)
Preview(m) ==
    /\ shell = "answers" /\ shell' = "preview"
    /\ chosen' = [method |-> m, dry |-> FALSE, allow |-> FALSE]
    /\ Start([chosen' EXCEPT !.dry = TRUE])
    /\ accepted' = FALSE
    /\ UNCHANGED <<lines, left>>

PreviewEnds ==
    /\ shell = "preview" /\ apc = "idle"
    /\ shell' = IF result = "ok" THEN "confirm" ELSE "prompt"
    /\ Forget
    /\ chosen' = IF result = "ok" THEN chosen ELSE NoJob
    /\ UNCHANGED <<lines, accepted, left>>

Decline ==
    /\ shell = "confirm" /\ shell' = "prompt" /\ chosen' = NoJob
    /\ UNCHANGED <<avars, lines, accepted, left>>

(* Mutant: the plan that was shown is carried out as it is.                *)
AcceptAsShown ==
    /\ shell = "confirm" /\ shell' = "guided"
    /\ apc' = "transfer" /\ job' = chosen /\ report' = None /\ result' = "none"
    /\ accepted' = TRUE
    /\ UNCHANGED <<plan, notes, truth, stored, lines, chosen, left>>

(* The acquisition is run from its beginning, preflight included.          *)
Accept ==
    /\ shell = "confirm" /\ shell' = "guided"
    /\ Start(chosen)
    /\ accepted' = TRUE
    /\ UNCHANGED <<lines, chosen, left>>

(* Mutant: every error ends the loop.                                      *)
AcquireEndsLoop ==
    /\ shell \in {"guided", "typed"} /\ apc = "idle"
    /\ shell' = IF result = "ok" THEN "prompt" ELSE "closed"
    /\ Forget /\ chosen' = NoJob /\ accepted' = FALSE
    /\ UNCHANGED <<lines, left>>

AcquireEnds ==
    /\ shell \in {"guided", "typed"} /\ apc = "idle"
    /\ shell' = IF result = "interrupted" THEN "closed" ELSE "prompt"
    /\ Forget /\ chosen' = NoJob /\ accepted' = FALSE
    /\ UNCHANGED <<lines, left>>

CtrlC ==
    /\ ~token /\ shell # "closed"
    /\ token' = TRUE
    /\ UNCHANGED <<avars, shell, lines, chosen, accepted, left>>

-----------------------------------------------------------------------------
ShellStep ==
    \/ Leave \/ LineUnread \/ AnswerUnread
    \/ TypeQuery \/ TypeCaseCommand \/ GiveArgument \/ CaseCommandEnds
    \/ (\E j \in Jobs : TypeAcquire(j))
    \/ TypeGuided \/ (\E m \in Methods : Preview(m))
    \/ PreviewEnds \/ Decline \/ Accept \/ AcquireEnds

Inquires == (\E q \in Queries : TypeQuestion(q)) \/ Questions

True == {IF device.state = "authorized" THEN "authorized" ELSE "refused"}
         \cup (IF device.root THEN {"root"} ELSE {})

(* held starts anew with each run and each question.                       *)
Observe ==
    /\ held' = IF apc = "idle" /\ ipc = "idle" THEN True' ELSE held \cup True'
    /\ pressed' = (pressed \/ token')
    /\ late' = IF apc = "idle" /\ apc' # "idle" THEN pressed ELSE late

Next ==
    /\ \/ ShellStep /\ Quiet /\ UNCHANGED <<token, device, changes>>
       \/ Inquires /\ UNCHANGED <<token, device, changes>>
       \/ AcquireStep /\ UNCHANGED <<token, device, changes, ivars, svars>>
       \/ CtrlC /\ UNCHANGED <<device, changes, avars, ivars>>
       \/ DeviceChanges /\ UNCHANGED <<token, avars, ivars, svars>>
    /\ Observe

Spec == Init /\ [][Next]_vars

-----------------------------------------------------------------------------
(* The part of the types that is about the shell and the acquisition.      *)
ShellTypeOK ==
    /\ AcquisitionTypeOK
    /\ shell \in ShellStates /\ lines \in 0 .. MaxLines
    /\ chosen \in Jobs /\ accepted \in BOOLEAN /\ left \in {"no", "asked", "unreadable"}
    /\ pressed \in BOOLEAN /\ late \in BOOLEAN
    /\ held \subseteq {"authorized", "refused", "root"}
    /\ (apc # "idle" => shell \in {"preview", "guided", "typed"})

(* Types; an acquisition or a question is under way exactly while the      *)
(* shell waits for it, and a dry run transfers nothing.                    *)
TypeOK == ShellTypeOK /\ InquiryTypeOK /\ (ipc # "idle" <=> shell = "asking")

(* logical.rs:249-252, physical.rs:221-222: a transfer that looks like     *)
(* success and is not is stated plainly.  Whatever the device did between  *)
(* the questions and the transfer (a link was not resolved, the root shell *)
(* or the cable was lost, the content changed), a manifest that says       *)
(* complete of an artifact far smaller than what the scope held when its   *)
(* size was asked says so, or says that the size could not be learnt.      *)
ShortCaptureIsSaid ==
    report # None /\ report.status \in Complete /\ 8 * (report.captured + 1) <= report.truth =>
        {"shortfall", "no_data", "size_unknown"} \cap report.notes # {}

(* interactive.rs:19-22, physical.rs:6-15.  Evidence is transferred only   *)
(* from a device that was authorised, and for an image root already, at    *)
(* some time since this very run began, and in the guided acquisition only *)
(* after the operator agreed to a plan with the same arguments: the        *)
(* answers the preview got do not count, minutes may have passed since.    *)
FreshlyAsked ==
    apc \in {"transfer", "stream"} =>
        /\ "authorized" \in held
        /\ job.method = "physical" => "root" \in held
        /\ shell = "guided" => accepted /\ job = chosen
        /\ shell # "preview"

(* After Ctrl-C, wherever it was pressed, even at the prompt or in a       *)
(* command that never looks at the token, no acquisition of the session    *)
(* begun later comes to a complete artifact.                               *)
CtrlCIsForGood == late /\ report # None => report.status \notin Complete

(* interactive.rs:80: a failed command is not a reason to close the shell, *)
(* nor is an answer that cannot be read.  It closes because the operator   *)
(* left, because no command could be read (line 74), or once Ctrl-C was    *)
(* pressed.                                                                *)
NeverClosedByAFailure == shell = "closed" => left \in {"asked", "unreadable"} \/ pressed

(* doctor.rs:101, device.rs:64: what is said of a device is not a promise, *)
(* but it was so.  A device called acquirable, or the environment ready,   *)
(* was authorised at some time since this command began, however long ago  *)
(* the state that was listed; and if it is called not acquirable, or the   *)
(* environment not ready, it was refused at such a time, or a check failed *)
(* that doctor names.                                                      *)
AnswersWereTrue ==
    [][ipc # "idle" /\ ipc' = "idle" =>
         /\ said' \in {"acquirable", "ready"} => "authorized" \in held' /\ worst' # "fail"
         /\ said' \in {"not acquirable", "not ready"} => "refused" \in held' \/ worst' = "fail"]_vars
=============================================================================
