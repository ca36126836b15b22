------------------------------- MODULE Delivery -------------------------------
(***************************************************************************)
(* What a transfer promises to the command that asked for it, without      *)
(* pipes, threads or processes: this is all that EvidenceStore and         *)
(* Acquisition know of one.                                                *)
(*                                                                         *)
(* Data is given by the other side and taken, never given back, and never  *)
(* more than was given; then one verdict is told, once, and nothing moves  *)
(* after it.  A complete verdict is told only when all that was given was  *)
(* taken, "completed_with_errors" only when there is something to keep,    *)
(* and "cancelled" only to somebody who cancelled.  Whether all there was  *)
(* has been given nobody knows here: Acquisition asks (ShortCaptureIsSaid).*)
(* StreamTransfer is the implementation.                                   *)
(***************************************************************************)
EXTENDS Naturals

CONSTANTS MaxBlocks

VARIABLES
    given,    \* blocks the remote command wrote
    token,    \* the caller has cancelled
    taken,    \* blocks the artifact holds
    verdict   \* what the caller was told

vars == <<given, token, taken, verdict>>

Init == given = 0 /\ token = FALSE /\ taken = 0 /\ verdict = "none"

Give ==
    /\ verdict = "none" /\ given < MaxBlocks
    /\ given' = given + 1
    /\ UNCHANGED <<token, taken, verdict>>

Take ==
    /\ verdict = "none"
    /\ \E n \in taken + 1 .. given : taken' = n
    /\ UNCHANGED <<given, token, verdict>>

Cancel ==
    /\ verdict = "none" /\ ~token
    /\ token' = TRUE
    /\ UNCHANGED <<given, taken, verdict>>

Tell(v) ==
    /\ verdict = "none"
    /\ v \in {"completed", "completed_with_errors"} => taken = given
    /\ v = "completed_with_errors" => taken > 0
    /\ v = "cancelled" => token
    /\ verdict' = v
    /\ UNCHANGED <<given, token, taken>>

Next ==
    \/ Give \/ Take \/ Cancel
    \/ \E v \in {"completed", "completed_with_errors", "cancelled", "failed", "relay_error"} :
         Tell(v)

Spec == Init /\ [][Next]_vars
====
