---------------------------- MODULE StreamTransfer ----------------------------
(***************************************************************************)
(* SystemRunner::stream of adb/runner.rs, and the status that              *)
(* stream_to_artifact of acquisition/adb.rs gives to what it returned.     *)
(*                                                                         *)
(* The calling thread relays the child's stdout block by block, asking the *)
(* cancellation token before each read; a second thread drains stderr; the *)
(* child (`adb exec-out`) may hang, may lose the device, may leave an heir *)
(* that holds its pipes, and shares the terminal: Ctrl-C is delivered to   *)
(* it as well as to the tool, in either order.  EvidenceStore takes from   *)
(* here which ends a stream may have.                                      *)
(***************************************************************************)
EXTENDS Naturals

CONSTANTS
    PipeCapacity,  \* blocks a kernel pipe holds
    MaxBlocks,     \* bound: blocks a source may have
    MaxNoise       \* bound: blocks the child writes to stderr

ASSUME StreamAssumption ==
    PipeCapacity \in Nat \ {0} /\ MaxBlocks \in Nat /\ MaxNoise \in Nat

Streams == {"out", "err"}

VARIABLES
    main,       \* where the calling thread is
    cancel,     \* the CancellationToken
    cancelled,  \* the local of `stream`: the loop saw the token
    relayError, \* relay_error is Some
    relayed,    \* blocks on_chunk took (ArtifactWriter::bytes_written)
    late,       \* history: blocks taken after the token was set
    status,     \* AcquisitionStatus, or "relay_error"
    reader,     \* the stderr thread
    child,      \* "none", "running", or how it ended: "zero", "nonzero", "signal"
    doomed,     \* a signal that ends it has been sent to it
    heir,       \* a descendant of it that holds both pipes: "none", "alive", "gone"
    source,     \* what it has to read, and to say on stderr
    sent,       \* blocks it wrote, per stream
    wants,      \* the stream it is writing to
    pipe,       \* blocks in each pipe
    terminal,   \* the tool and the child share a terminal
    allow       \* options.allow_source_read_errors

hostVars == <<main, cancelled, relayError, relayed, late, status>>
childVars == <<child, doomed, heir, source, sent, wants>>
vars == <<hostVars, childVars, cancel, reader, pipe, terminal, allow>>

Statuses == {"none", "completed", "completed_with_errors", "cancelled", "failed", "relay_error"}
CompleteStatuses == {"completed", "completed_with_errors"}

(* What there is to read, and what the remote command would say of it.     *)
Sources == [blocks : 0 .. MaxBlocks, noise : 0 .. MaxNoise]

Init ==
    /\ main = "spawn"
    /\ cancel = FALSE /\ cancelled = FALSE /\ relayError = FALSE
    /\ relayed = 0 /\ late = 0
    /\ status = "none"
    /\ reader = "none"
    /\ child = "none" /\ doomed = FALSE /\ heir = "none"
    /\ source \in Sources
    /\ sent = [s \in Streams |-> 0]
    /\ wants = "nothing"
    /\ pipe = [s \in Streams |-> 0]
    /\ terminal \in BOOLEAN /\ allow \in BOOLEAN

Goto(m) == main' = m

-----------------------------------------------------------------------------
(* The calling thread starts the child and the stderr thread.              *)
Spawn ==
    /\ main = "spawn"
    /\ child' = "running" /\ reader' = "reading"
    /\ Goto("check")
    /\ UNCHANGED <<cancelled, relayError, relayed, late, status, doomed, heir, source, sent, wants,
                   cancel, pipe, terminal, allow>>

SpawnFails ==
    /\ main = "spawn"
    /\ status' = "relay_error"
    /\ Goto("done")
    /\ UNCHANGED <<cancelled, relayError, relayed, late, childVars, cancel, reader, pipe, terminal,
                   allow>>

(* The top of the loop, then one blocking read.                            *)
(* Mutant: the token is asked only when there is nothing to read.          *)
CheckWhenIdle ==
    /\ main = "check" /\ cancel /\ pipe["out"] = 0
    /\ cancelled' = TRUE
    /\ Goto("kill")
    /\ UNCHANGED <<relayError, relayed, late, status, childVars, cancel, reader, pipe, terminal,
                   allow>>
CheckIdleOrGo ==
    \/ CheckWhenIdle
    \/ /\ main = "check" /\ ~(cancel /\ pipe["out"] = 0)
       /\ Goto("read")
       /\ UNCHANGED <<cancelled, relayError, relayed, late, status, childVars, cancel, reader,
                      pipe, terminal, allow>>

Check ==
    /\ main = "check"
    /\ cancelled' = cancel
    /\ Goto(IF cancel THEN "kill" ELSE "read")
    /\ UNCHANGED <<relayError, relayed, late, status, childVars, cancel, reader, pipe, terminal,
                   allow>>

(* Mutant: all of the buffer is taken, not the part that was read.         *)
RelayWholeBuffer ==
    /\ main = "read" /\ pipe["out"] > 0
    /\ pipe' = [pipe EXCEPT !["out"] = 0]
    /\ relayed' = relayed + PipeCapacity + 1
    /\ late' = IF cancel THEN late + 1 ELSE late
    /\ Goto("check")
    /\ UNCHANGED <<cancelled, relayError, status, childVars, cancel, reader, terminal, allow>>

Relay ==
    /\ main = "read"
    /\ \E n \in 1 .. pipe["out"] :
         /\ pipe' = [pipe EXCEPT !["out"] = @ - n]
         /\ relayed' = relayed + n
    /\ late' = IF cancel THEN late + 1 ELSE late
    /\ Goto("check")
    /\ UNCHANGED <<cancelled, relayError, status, childVars, cancel, reader, terminal, allow>>

(* The read, or write_chunk on a full disk.                                *)
RelayFails ==
    /\ main = "read"
    /\ relayError' = TRUE
    /\ Goto("kill")
    /\ UNCHANGED <<cancelled, relayed, late, status, childVars, cancel, reader, pipe, terminal,
                   allow>>

(* Mutant: the stream is over as soon as the child is.                     *)
EndWithChild ==
    /\ main = "read" /\ child # "running"
    /\ Goto("reap")
    /\ UNCHANGED <<cancelled, relayError, relayed, late, status, childVars, cancel, reader, pipe,
                   terminal, allow>>

(* A read returns 0 when nobody is left who could write.                   *)
AtEnd(s) == child # "running" /\ heir # "alive" /\ pipe[s] = 0

EndOfOut ==
    /\ main = "read" /\ AtEnd("out")
    /\ Goto("reap")
    /\ UNCHANGED <<cancelled, relayError, relayed, late, status, childVars, cancel, reader, pipe,
                   terminal, allow>>

(* Mutant: only a cancelled child is killed.                               *)
KillIfCancelled ==
    /\ main = "kill"
    /\ doomed' = (doomed \/ (child = "running" /\ cancelled))
    /\ Goto("reap")
    /\ UNCHANGED <<cancelled, relayError, relayed, late, status, child, heir, source, sent,
                   wants, cancel, reader, pipe, terminal, allow>>

Kill ==
    /\ main = "kill"
    /\ doomed' = (doomed \/ child = "running")
    /\ Goto("reap")
    /\ UNCHANGED <<cancelled, relayError, relayed, late, status, child, heir, source, sent,
                   wants, cancel, reader, pipe, terminal, allow>>

(* stdout is dropped, then try_wait is polled; the token is not asked here.*)
Reap ==
    /\ main = "reap" /\ child # "running"
    /\ Goto("join")
    /\ UNCHANGED <<cancelled, relayError, relayed, late, status, childVars, cancel, reader, pipe,
                   terminal, allow>>

(* try_wait fails: the child's fate is not known, its stderr is awaited.   *)
WaitFails ==
    /\ main = "reap"
    /\ relayError' = TRUE
    /\ Goto("join")
    /\ UNCHANGED <<cancelled, relayed, late, status, childVars, cancel, reader, pipe, terminal,
                   allow>>

(* Mutant: a child that a signal ended counts as one that ended well.      *)
StatusIgnoringSignal ==
    IF relayError THEN "relay_error"
    ELSE IF cancelled THEN "cancelled"
    ELSE IF child # "nonzero" THEN "completed"
    ELSE IF allow /\ relayed > 0 THEN "completed_with_errors"
    ELSE "failed"

(* Mutant: a transfer with errors allowed completes, however little came.  *)
StatusWhenEmpty ==
    IF relayError THEN "relay_error"
    ELSE IF cancelled THEN "cancelled"
    ELSE IF child = "zero" THEN "completed"
    ELSE IF allow THEN "completed_with_errors"
    ELSE "failed"

StatusOf ==
    IF relayError THEN "relay_error"
    ELSE IF cancelled THEN "cancelled"
    ELSE IF child = "zero" THEN "completed"
    ELSE IF allow /\ relayed > 0 THEN "completed_with_errors"
    ELSE "failed"

Join ==
    /\ main = "join" /\ reader \in {"ended", "failed"}
    /\ status' = StatusOf
    /\ Goto("done")
    /\ UNCHANGED <<cancelled, relayError, relayed, late, childVars, cancel, reader, pipe, terminal,
                   allow>>

Main == Spawn \/ SpawnFails \/ Check \/ Relay \/ RelayFails \/ EndOfOut \/ Kill \/ Reap
        \/ WaitFails \/ Join
MainNoFault == Spawn \/ Check \/ Relay \/ EndOfOut \/ Kill \/ Reap \/ Join

(* Mutant: stderr is drained after stdout, by the calling thread.          *)
ReadErrAfterOut ==
    /\ reader = "reading" /\ main = "join"
    /\ \E n \in 1 .. pipe["err"] : pipe' = [pipe EXCEPT !["err"] = @ - n]
    /\ UNCHANGED <<hostVars, childVars, cancel, reader, terminal, allow>>

ReadErr ==
    /\ reader = "reading"
    /\ \E n \in 1 .. pipe["err"] : pipe' = [pipe EXCEPT !["err"] = @ - n]
    /\ UNCHANGED <<hostVars, childVars, cancel, reader, terminal, allow>>

EndOfErr ==
    /\ reader = "reading" /\ AtEnd("err")
    /\ reader' = "ended"
    /\ UNCHANGED <<hostVars, childVars, cancel, pipe, terminal, allow>>

(* stderr cannot be read: unwrap_or_else forgets it, and nobody drains it. *)
ReadErrFails ==
    /\ reader = "reading"
    /\ reader' = "failed"
    /\ UNCHANGED <<hostVars, childVars, cancel, pipe, terminal, allow>>

ReaderNoFault == ReadErr \/ EndOfErr
Reader == ReaderNoFault \/ ReadErrFails

-----------------------------------------------------------------------------
(* The child.                                                              *)
ToSend(s) == IF s = "out" THEN source.blocks ELSE source.noise

BeginWrite ==
    /\ child = "running" /\ wants = "nothing"
    /\ \E s \in Streams : sent[s] < ToSend(s) /\ wants' = s
    /\ UNCHANGED <<hostVars, child, doomed, heir, source, sent, cancel, reader, pipe, terminal,
                   allow>>

(* The tool has closed its end of the pipe.                                *)
StdoutDropped == main \in {"reap", "join", "done"}
Closed(s) == IF s = "out" THEN StdoutDropped ELSE reader = "failed"

Write ==
    /\ child = "running" /\ wants \in Streams
    /\ pipe[wants] < PipeCapacity
    /\ ~Closed(wants)
    /\ pipe' = [pipe EXCEPT ![wants] = @ + 1]
    /\ sent' = [sent EXCEPT ![wants] = @ + 1]
    /\ wants' = "nothing"
    /\ UNCHANGED <<hostVars, child, doomed, heir, source, cancel, reader, terminal, allow>>

(* It ends, with whatever code, whether or not it sent all there was: a    *)
(* lost device may be reported or not, and exit code 0 proves nothing      *)
(* (logical.rs:245, physical.rs:221).                                      *)
Exit ==
    /\ child = "running" /\ wants = "nothing"
    /\ child' \in {"zero", "nonzero"}
    /\ UNCHANGED <<hostVars, doomed, heir, source, sent, wants, cancel, reader, pipe, terminal,
                   allow>>

(* SIGPIPE.                                                                *)
BrokenPipe ==
    /\ child = "running" /\ wants \in Streams /\ Closed(wants)
    /\ child' = "signal"
    /\ UNCHANGED <<hostVars, doomed, heir, source, sent, wants, cancel, reader, pipe, terminal,
                   allow>>

(* The child never ends by itself only when it hangs.                      *)
Child == BeginWrite \/ Write \/ Exit \/ BrokenPipe

(* It leaves a descendant that keeps both pipes open.  One stands for any  *)
(* number of them: a pipe is open from the first to the last.              *)
Fork ==
    /\ child = "running" /\ wants = "nothing" /\ heir = "none"
    /\ heir' = "alive"
    /\ UNCHANGED <<hostVars, child, doomed, source, sent, wants, cancel, reader, pipe, terminal,
                   allow>>

HeirExits ==
    /\ heir = "alive"
    /\ heir' = "gone"
    /\ UNCHANGED <<hostVars, child, doomed, source, sent, wants, cancel, reader, pipe, terminal,
                   allow>>

Die ==
    /\ child = "running" /\ doomed
    /\ child' = "signal"
    /\ UNCHANGED <<hostVars, doomed, heir, source, sent, wants, cancel, reader, pipe, terminal,
                   allow>>

(* Ctrl-C: the handler sets the token; on a terminal the child gets SIGINT *)
(* of its own, before or after.                                            *)
SetToken ==
    /\ ~cancel /\ main # "done"
    /\ cancel' = TRUE
    /\ UNCHANGED <<hostVars, childVars, reader, pipe, terminal, allow>>

InterruptChild ==
    /\ terminal /\ child = "running" /\ ~doomed
    /\ doomed' = TRUE
    /\ UNCHANGED <<hostVars, child, heir, source, sent, wants, cancel, reader, pipe, terminal,
                   allow>>

Next == Main \/ Reader \/ Child \/ Fork \/ HeirExits \/ Die \/ SetToken \/ InterruptChild

(* The threads of the tool are scheduled, and a signal arrives.  The child *)
(* and its heir are not trusted to do anything, nothing need fail, and the *)
(* operator may never interrupt.                                           *)
Spec ==
    /\ Init /\ [][Next]_vars
    /\ WF_vars(MainNoFault) /\ WF_vars(ReaderNoFault) /\ WF_vars(Die)

-----------------------------------------------------------------------------
(* Types.                                                                  *)
TypeOK ==
    /\ main \in {"spawn", "check", "read", "kill", "reap", "join", "done"}
    /\ cancel \in BOOLEAN /\ cancelled \in BOOLEAN /\ relayError \in BOOLEAN
    /\ doomed \in BOOLEAN /\ terminal \in BOOLEAN /\ allow \in BOOLEAN
    /\ relayed \in 0 .. MaxBlocks /\ late \in 0 .. MaxBlocks
    /\ status \in Statuses
    /\ reader \in {"none", "reading", "ended", "failed"}
    /\ child \in {"none", "running", "zero", "nonzero", "signal"}
    /\ heir \in {"none", "alive", "gone"}
    /\ source \in Sources
    /\ sent \in [Streams -> Nat] /\ \A s \in Streams : sent[s] <= ToSend(s)
    /\ wants \in Streams \cup {"nothing"}
    /\ pipe \in [Streams -> 0 .. PipeCapacity]

(* ARCHITECTURE.md:93: a transfer that stopped short never completes.      *)
(* Of a child that ended, whenever and with whatever code, a complete      *)
(* status says that every block it wrote reached the artifact: none was    *)
(* left in the pipe it is no longer there to fill.  Whether it wrote all   *)
(* of the source is not for the stream to know (ShortCaptureIsSaid).       *)
CompletedHoldsAllSent ==
    status \in CompleteStatuses => child # "running" /\ relayed = sent["out"]

(* ARCHITECTURE.md:128: the worker sees the token "within one buffer": no  *)
(* more than the one read in flight is still written.                      *)
CancelWithinOneBuffer == late <= 1

(* A stream is, to the command above it, a Delivery: whatever the order in *)
(* which the token, the child, the two pipes and the two threads move, the *)
(* one status it returns is true of the token, of what was sent and of     *)
(* what was taken.                                                         *)
D == INSTANCE Delivery WITH given <- sent["out"], token <- cancel, taken <- relayed,
                            verdict <- status
RefinesDelivery == D!Spec

(* A stream that was cancelled or could not be written ends, even when the *)
(* child hangs: it is killed, and the kill frees the two waits after it.   *)
(* Only an heir, whom nobody kills, can keep the stderr thread waiting.    *)
StoppedMeansEnded == WF_vars(HeirExits) => ((main = "kill") ~> (main = "done"))

(* A child that keeps running its program is never stopped by a full pipe. *)
NoStreamDeadlock == (WF_vars(Child) /\ WF_vars(HeirExits)) => <>(main = "done")

(* RESUMABILITY.md:57: an interrupted transfer exits 4 or 130, "Never 0":  *)
(* the status of a stream whose child died of the operator's Ctrl-C before *)
(* it was through (and not for want of a reader of its stderr) is not one  *)
(* of the complete ones.                                                   *)
InterruptedNeverComplete ==
    cancel /\ child = "signal" /\ reader # "failed" /\ relayed < source.blocks =>
        status \notin CompleteStatuses
====
