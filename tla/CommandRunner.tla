---------------------------- MODULE CommandRunner ----------------------------
(***************************************************************************)
(* SystemRunner::run of adb/runner.rs: one external command, run to        *)
(* completion with bounded capture and a wall-clock limit.                 *)
(*                                                                         *)
(* Four parties share the child: the calling thread (reads stdout to its   *)
(* end, then waits for the child while it holds the mutex of Watchdog),    *)
(* the stderr thread, the watchdog thread, and the child itself, which     *)
(* writes into two kernel pipes of bounded capacity and blocks when the    *)
(* one it writes to is full.  The child may close its stdout long before   *)
(* it exits, and may leave a descendant (an heir) holding both pipes.      *)
(***************************************************************************)
EXTENDS Naturals

CONSTANTS
    PipeCapacity,  \* what a kernel pipe holds
    OutputLimit,   \* output_limit: what is captured of each stream
    MaxOutput      \* bound: what a child writes to each of its streams

ASSUME PipeAssumption ==
    PipeCapacity \in Nat \ {0} /\ OutputLimit \in Nat /\ MaxOutput \in Nat

Streams == {"out", "err"}

VARIABLES
    main,      \* where `run` is
    result,    \* what it returned
    armed,     \* SystemRunner::timeout is Some
    watchdog,  \* where the watchdog thread is
    finished,  \* Watchdog::finished
    timedOut,  \* Watchdog::timed_out
    lockedBy,  \* who holds Watchdog::child
    child,     \* the child process
    plan,      \* what the child has to write, per stream
    written,   \* what it wrote
    wants,     \* the stream it is writing to
    heir,      \* a descendant holds the pipes
    holds,     \* the child holds the write end of the pipe
    pipe,      \* bytes in the pipe
    captured,  \* read_capped: captured.len()
    truncated, \* read_capped: truncated
    failed,    \* a read of the stream failed, and the tool closed its end
    reader     \* the stderr thread

hostVars == <<main, result, finished, captured, truncated, failed>>
childVars == <<child, plan, written, wants, heir, holds, pipe>>
vars == <<hostVars, childVars, armed, watchdog, timedOut, lockedBy, reader>>

Init ==
    /\ main = "spawn"
    /\ result = "none"
    /\ armed \in BOOLEAN
    /\ watchdog = "idle"
    /\ finished = FALSE
    /\ timedOut = FALSE
    /\ lockedBy = "nobody"
    /\ child = "none"
    /\ plan \in [Streams -> 0 .. MaxOutput]
    /\ written = [s \in Streams |-> 0]
    /\ wants = "nothing"
    /\ heir = FALSE
    /\ holds = [s \in Streams |-> TRUE]
    /\ pipe = [s \in Streams |-> 0]
    /\ captured = [s \in Streams |-> 0]
    /\ truncated = [s \in Streams |-> FALSE]
    /\ failed = [s \in Streams |-> FALSE]
    /\ reader = "none"

-----------------------------------------------------------------------------
(* Mutant: the child is waited for before its output is read.              *)
SpawnAndWait ==
    /\ main = "spawn"
    /\ child' = "running"
    /\ reader' = "reading"
    /\ watchdog' = IF armed THEN "sleeping" ELSE "idle"
    /\ main' = "wait"
    /\ lockedBy' = "main"
    /\ UNCHANGED <<result, armed, finished, timedOut, plan, written, wants, heir, holds, pipe,
                   captured, truncated, failed>>

(* The calling thread.                                                     *)
Spawn ==
    /\ main = "spawn"
    /\ child' = "running"
    /\ reader' = "reading"
    /\ watchdog' = IF armed THEN "sleeping" ELSE "idle"
    /\ main' = "read"
    /\ UNCHANGED <<result, armed, finished, timedOut, lockedBy, plan, written, wants, heir, holds,
                   pipe, captured, truncated, failed>>

SpawnFails ==
    /\ main = "spawn"
    /\ main' = "done"
    /\ result' = "spawn_error"
    /\ UNCHANGED <<armed, finished, captured, truncated, failed, childVars, watchdog, timedOut,
                   lockedBy, reader>>

(* How a child may have ended.                                             *)
Gone == {"exited", "killed", "broken"}
AtEnd(s) == pipe[s] = 0 /\ ~holds[s] /\ ~heir

(* One turn of read_capped: up to the limit is kept, the rest is drained.  *)
(* Mutants: the last block is kept whole; a full capture counts as cut.    *)
KeptWhole(s, n) == IF captured[s] < OutputLimit THEN captured[s] + n ELSE captured[s]
Kept(s, n) == IF captured[s] + n <= OutputLimit THEN captured[s] + n ELSE OutputLimit
DrainFlaggingFull(s) ==
    \E n \in 1 .. pipe[s] :
        /\ pipe' = [pipe EXCEPT ![s] = @ - n]
        /\ captured' = [captured EXCEPT ![s] = Kept(s, n)]
        /\ truncated' = [truncated EXCEPT ![s] = @ \/ captured[s] + n >= OutputLimit]
Drain(s) ==
    \E n \in 1 .. pipe[s] :
        /\ pipe' = [pipe EXCEPT ![s] = @ - n]
        /\ captured' = [captured EXCEPT ![s] = Kept(s, n)]
        /\ truncated' = [truncated EXCEPT ![s] = @ \/ captured[s] + n > OutputLimit]

ReadOut ==
    /\ main = "read"
    /\ Drain("out")
    /\ UNCHANGED <<main, result, finished, failed, armed, watchdog, timedOut, lockedBy, reader,
                   child, plan, written, wants, heir, holds>>

EndOfOut ==
    /\ main = "read" /\ AtEnd("out")
    /\ main' = "lock"
    /\ UNCHANGED <<result, finished, captured, truncated, failed, childVars, armed, watchdog,
                   timedOut, lockedBy, reader>>

(* The error is kept until the child was waited for.                       *)
ReadOutFails ==
    /\ main = "read"
    /\ failed' = [failed EXCEPT !["out"] = TRUE]
    /\ main' = "lock"
    /\ UNCHANGED <<result, finished, captured, truncated, childVars, armed, watchdog, timedOut,
                   lockedBy, reader>>

(* with_child(Child::wait): the mutex is held until the child is reaped.   *)
TakeChild ==
    /\ main = "lock" /\ lockedBy = "nobody"
    /\ lockedBy' = "main"
    /\ main' = "wait"
    /\ UNCHANGED <<result, finished, captured, truncated, failed, childVars, armed, watchdog,
                   timedOut, reader>>

Reap ==
    /\ main = "wait" /\ child \in Gone
    /\ lockedBy' = "nobody"
    /\ main' = "disarm"
    /\ UNCHANGED <<result, finished, captured, truncated, failed, childVars, armed, watchdog,
                   timedOut, reader>>

(* The error leaves `run` at once: the watchdog is not told to stand down. *)
WaitFails ==
    /\ main = "wait"
    /\ lockedBy' = "nobody"
    /\ main' = "done"
    /\ result' = "io_error"
    /\ UNCHANGED <<finished, captured, truncated, failed, childVars, armed, watchdog, timedOut,
                   reader>>

Disarm ==
    /\ main = "disarm"
    /\ finished' = TRUE
    /\ main' = "check"
    /\ UNCHANGED <<result, captured, truncated, failed, childVars, armed, watchdog, timedOut,
                   lockedBy, reader>>

(* After a timeout the stderr thread is left behind, not joined.           *)
TimedOut ==
    /\ main = "check" /\ timedOut
    /\ main' = "done"
    /\ result' = "timeout"
    /\ UNCHANGED <<finished, captured, truncated, failed, childVars, armed, watchdog, timedOut,
                   lockedBy, reader>>

NotTimedOut ==
    /\ main = "check" /\ ~timedOut /\ ~failed["out"]
    /\ main' = "join"
    /\ UNCHANGED <<result, finished, captured, truncated, failed, childVars, armed, watchdog,
                   timedOut, lockedBy, reader>>

OutNotRead ==
    /\ main = "check" /\ ~timedOut /\ failed["out"]
    /\ main' = "done"
    /\ result' = "io_error"
    /\ UNCHANGED <<finished, captured, truncated, failed, childVars, armed, watchdog, timedOut,
                   lockedBy, reader>>

Join ==
    /\ main = "join" /\ reader = "ended"
    /\ main' = "done"
    /\ result' = IF failed["err"] THEN "io_error" ELSE "output"
    /\ UNCHANGED <<finished, captured, truncated, failed, childVars, armed, watchdog, timedOut,
                   lockedBy, reader>>

MainNoFault == Spawn \/ ReadOut \/ EndOfOut \/ TakeChild \/ Reap \/ Disarm
               \/ TimedOut \/ NotTimedOut \/ OutNotRead \/ Join
Main == MainNoFault \/ SpawnFails \/ ReadOutFails \/ WaitFails

(* Mutant: stderr is read once stdout has ended, by the same thread.       *)
ReadErrAfterOut ==
    /\ reader = "reading" /\ main = "join"
    /\ Drain("err")
    /\ UNCHANGED <<main, result, finished, failed, armed, watchdog, timedOut, lockedBy, reader,
                   child, plan, written, wants, heir, holds>>

(* The stderr thread.                                                      *)
ReadErr ==
    /\ reader = "reading"
    /\ Drain("err")
    /\ UNCHANGED <<main, result, finished, failed, armed, watchdog, timedOut, lockedBy, reader,
                   child, plan, written, wants, heir, holds>>

EndOfErr ==
    /\ reader = "reading" /\ AtEnd("err")
    /\ reader' = "ended"
    /\ UNCHANGED <<hostVars, childVars, armed, watchdog, timedOut, lockedBy>>

ReadErrFails ==
    /\ reader = "reading"
    /\ failed' = [failed EXCEPT !["err"] = TRUE]
    /\ reader' = "ended"
    /\ UNCHANGED <<main, result, finished, captured, truncated, childVars, armed, watchdog,
                   timedOut, lockedBy>>

ReaderNoFault == ReadErr \/ EndOfErr
Reader == ReaderNoFault \/ ReadErrFails

(* Mutant: the kill comes before timed_out is set.                         *)
ExpireUnflagged ==
    /\ watchdog = "sleeping" /\ ~finished
    /\ watchdog' = "kill"
    /\ UNCHANGED <<hostVars, childVars, armed, timedOut, lockedBy, reader>>

(* The watchdog thread: poll `finished` until the deadline, look once      *)
(* more, set timed_out, then take the mutex and kill.                      *)
StandDown ==
    /\ watchdog = "sleeping" /\ finished
    /\ watchdog' = "gone"
    /\ UNCHANGED <<hostVars, childVars, armed, timedOut, lockedBy, reader>>

Expire ==
    /\ watchdog = "sleeping" /\ ~finished
    /\ watchdog' = "expired"
    /\ UNCHANGED <<hostVars, childVars, armed, timedOut, lockedBy, reader>>

Flag ==
    /\ watchdog = "expired"
    /\ timedOut' = TRUE
    /\ watchdog' = "kill"
    /\ UNCHANGED <<hostVars, childVars, armed, lockedBy, reader>>

(* Killing a child that was reaped does nothing (std remembers its status).*)
Kill ==
    /\ watchdog = "kill" /\ lockedBy = "nobody"
    /\ watchdog' = "gone"
    /\ IF child = "running"
         THEN child' = "killed" /\ holds' = [s \in Streams |-> FALSE]
         ELSE UNCHANGED <<child, holds>>
    /\ UNCHANGED <<hostVars, plan, written, wants, heir, pipe, armed, timedOut, lockedBy, reader>>

Dog == StandDown \/ Expire \/ Flag \/ Kill

-----------------------------------------------------------------------------
(* The child: it must finish a write it began before it does anything else.*)
BeginWrite ==
    /\ child = "running" /\ wants = "nothing"
    /\ \E s \in Streams : written[s] < plan[s] /\ holds[s] /\ wants' = s
    /\ UNCHANGED <<hostVars, child, plan, written, heir, holds, pipe, armed, watchdog, timedOut,
                   lockedBy, reader>>

Write ==
    /\ child = "running" /\ wants \in Streams
    /\ pipe[wants] < PipeCapacity /\ ~failed[wants]
    /\ pipe' = [pipe EXCEPT ![wants] = @ + 1]
    /\ written' = [written EXCEPT ![wants] = @ + 1]
    /\ wants' = "nothing"
    /\ UNCHANGED <<hostVars, child, plan, heir, holds, armed, watchdog, timedOut, lockedBy, reader>>

CloseOut ==
    /\ child = "running" /\ wants = "nothing" /\ written["out"] = plan["out"] /\ holds["out"]
    /\ holds' = [holds EXCEPT !["out"] = FALSE]
    /\ UNCHANGED <<hostVars, child, plan, written, wants, heir, pipe, armed, watchdog, timedOut,
                   lockedBy, reader>>

Fork ==
    /\ child = "running" /\ wants = "nothing" /\ holds["out"]
    /\ heir' = TRUE
    /\ UNCHANGED <<hostVars, child, plan, written, wants, holds, pipe, armed, watchdog, timedOut,
                   lockedBy, reader>>

Exit ==
    /\ child = "running" /\ wants = "nothing" /\ written = plan
    /\ child' = "exited"
    /\ holds' = [s \in Streams |-> FALSE]
    /\ UNCHANGED <<hostVars, plan, written, wants, heir, pipe, armed, watchdog, timedOut, lockedBy,
                   reader>>

(* SIGPIPE: it writes to a pipe that nobody reads any more.                *)
BrokenPipe ==
    /\ child = "running" /\ wants \in Streams /\ failed[wants]
    /\ child' = "broken"
    /\ holds' = [s \in Streams |-> FALSE]
    /\ UNCHANGED <<hostVars, plan, written, wants, heir, pipe, armed, watchdog, timedOut, lockedBy,
                   reader>>

Child == BeginWrite \/ Write \/ Exit \/ BrokenPipe
Whim == CloseOut \/ Fork

HeirExits ==
    /\ heir
    /\ heir' = FALSE
    /\ UNCHANGED <<hostVars, child, plan, written, wants, holds, pipe, armed, watchdog, timedOut,
                   lockedBy, reader>>

Next == Main \/ Reader \/ Dog \/ Child \/ Whim \/ HeirExits

(* The operating system schedules every thread of the tool.  The child and *)
(* its heir are not trusted to do anything: a device may hang.  Nothing    *)
(* need fail.                                                              *)
Spec ==
    /\ Init /\ [][Next]_vars
    /\ WF_vars(MainNoFault) /\ WF_vars(ReaderNoFault) /\ WF_vars(Dog)

-----------------------------------------------------------------------------
(* Types.  The capture never exceeds its cap, whatever the child writes:   *)
(* runner.rs promises that unbounded output cannot exhaust host memory.    *)
TypeOK ==
    /\ main \in {"spawn", "read", "lock", "wait", "disarm", "check", "join", "done"}
    /\ result \in {"none", "spawn_error", "timeout", "io_error", "output"}
    /\ watchdog \in {"idle", "sleeping", "expired", "kill", "gone"}
    /\ armed \in BOOLEAN /\ finished \in BOOLEAN /\ timedOut \in BOOLEAN /\ heir \in BOOLEAN
    /\ lockedBy \in {"nobody", "main"}
    /\ child \in {"none", "running"} \cup Gone
    /\ plan \in [Streams -> 0 .. MaxOutput]
    /\ written \in [Streams -> 0 .. MaxOutput]
    /\ wants \in Streams \cup {"nothing"}
    /\ holds \in [Streams -> BOOLEAN]
    /\ pipe \in [Streams -> 0 .. PipeCapacity]
    /\ captured \in [Streams -> 0 .. OutputLimit]
    /\ truncated \in [Streams -> BOOLEAN]
    /\ failed \in [Streams -> BOOLEAN]
    /\ reader \in {"none", "reading", "ended"}

(* What `run` returns is all the child wrote, or its first OutputLimit     *)
(* bytes and the flag that says so; exactly the limit is not a truncation. *)
OutputFaithful ==
    result = "output" =>
        \A s \in Streams :
            /\ captured[s] = IF plan[s] < OutputLimit THEN plan[s] ELSE OutputLimit
            /\ truncated[s] <=> plan[s] > OutputLimit

(* The output of a command the watchdog killed is never returned as that   *)
(* of one that ended, however the kill, the wait and the two flags         *)
(* interleave: timed_out is set before the kill, and read after the wait.  *)
KilledNeverReturned == result = "output" => child = "exited"

(* The limit holds for any child that keeps its stdout open as long as it  *)
(* runs and leaves no heir, while its stdout can be read: the call returns *)
(* whatever else the child does.                                           *)
TimeoutBoundsRun ==
    (armed /\ []~heir /\ [](child = "running" => holds["out"] /\ ~failed["out"])) =>
        <>(main = "done")

(* With no limit, a child that keeps running its program is never stopped  *)
(* by a full pipe: the call returns.                                       *)
NoPipeDeadlock == (WF_vars(Child) /\ WF_vars(HeirExits)) => <>(main = "done")

(* runner.rs:48: the timeout covers the whole command.                     *)
TimeoutCoversWholeCommand ==
    (armed /\ []~heir /\ [](\A s \in Streams : ~failed[s])) => <>(main = "done")
====
