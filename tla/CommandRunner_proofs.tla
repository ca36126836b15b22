------------------------- MODULE CommandRunner_proofs -------------------------
(***************************************************************************)
(* CommandRunner, for every pipe capacity, output limit and amount of      *)
(* output: what a call returns, and that it never comes to a standstill.   *)
(*                                                                         *)
(* Inv says what the four parties may rely on at each point: who has set   *)
(* timed_out, what a closed pipe implies, and that what was captured is a  *)
(* function of what has left the pipe.  Parties adds who is there and who  *)
(* holds the mutex and the pipes, from which the last part concludes that  *)
(* somebody can always move.                                               *)
(***************************************************************************)
EXTENDS CommandRunner, Integers, TLAPS

(* timed_out is set before the kill, so a killed child implies it.         *)
Flagged == (watchdog = "kill" \/ child = "killed") => timedOut

(* Past the wait the child has ended, and past the check it ended itself.  *)
Waited ==
    /\ main = "done" <=> result # "none"
    /\ main = "spawn" \/ result = "spawn_error" => child = "none"
    /\ main \in {"disarm", "check"} => child \in Gone
    /\ main = "join" => child \in {"exited", "broken"} /\ ~failed["out"]
    /\ child = "broken" => failed["out"] \/ failed["err"]
    /\ result = "output" => child = "exited" /\ ~failed["out"] /\ ~failed["err"]

(* A stream the child no longer holds carries all it had to write, unless  *)
(* a signal ended the child.                                               *)
Wrote ==
    /\ child = "none" => wants = "nothing" /\ \A s \in Streams : holds[s]
    /\ \A s \in Streams :
         /\ child = "running" /\ wants = s => written[s] < plan[s] /\ holds[s]
         /\ ~holds[s] /\ child \notin {"killed", "broken"} => written[s] = plan[s]

(* What has left the pipe of s, and what read_capped makes of it.          *)
Out(s) == written[s] - pipe[s]
Capture ==
    \A s \in Streams :
        /\ Out(s) \in Nat
        /\ captured[s] = IF Out(s) <= OutputLimit THEN Out(s) ELSE OutputLimit
        /\ truncated[s] <=> Out(s) > OutputLimit

(* A reader stops only at the end of its stream or at an error, and the end*)
(* is final.                                                               *)
Drained ==
    /\ main \in {"lock", "wait", "disarm", "check", "join"} \/ result = "output" =>
         failed["out"] \/ (pipe["out"] = 0 /\ ~holds["out"])
    /\ reader = "ended" => failed["err"] \/ (pipe["err"] = 0 /\ ~holds["err"])
    /\ result = "output" => reader = "ended"

Inv == TypeOK /\ Flagged /\ Waited /\ Wrote /\ Capture /\ Drained

LEMMA InitInv == Init => Inv
<1> SUFFICES ASSUME Init PROVE Inv
  OBVIOUS
<1>1. TypeOK
  <2>1. 0 \in 0 .. OutputLimit /\ 0 \in 0 .. PipeCapacity /\ 0 \in 0 .. MaxOutput
    BY PipeAssumption
  <2>2. /\ written \in [Streams -> 0 .. MaxOutput]
        /\ pipe \in [Streams -> 0 .. PipeCapacity]
        /\ captured \in [Streams -> 0 .. OutputLimit]
        /\ holds \in [Streams -> BOOLEAN]
        /\ truncated \in [Streams -> BOOLEAN] /\ failed \in [Streams -> BOOLEAN]
    BY <2>1 DEF Init
  <2> QED BY <2>2 DEF Init, TypeOK
<1>2. Flagged /\ Waited /\ Drained
  BY DEF Init, Streams, Gone, Flagged, Waited, Drained
<1>3. Wrote
  BY DEF Init, Wrote
<1>4. ASSUME NEW s \in Streams
      PROVE  Out(s) = 0 /\ captured[s] = 0 /\ ~truncated[s]
  <2>1. written[s] = 0 /\ pipe[s] = 0 /\ captured[s] = 0 /\ truncated[s] = FALSE
    BY DEF Init
  <2> QED BY <2>1 DEF Out
<1>5. Capture
  <2>1. 0 \in Nat /\ 0 <= OutputLimit /\ ~(0 > OutputLimit)
    BY PipeAssumption
  <2> QED BY <1>4, <2>1 DEF Capture
<1> QED BY <1>1, <1>2, <1>3, <1>5 DEF Inv

(* Draining one block keeps the capture in step with what left the pipe.   *)
LEMMA DrainKeepsCapture ==
  ASSUME TypeOK, Capture, NEW s \in Streams, Drain(s), UNCHANGED written
  PROVE  /\ Capture'
         /\ pipe' \in [Streams -> 0 .. PipeCapacity]
         /\ captured' \in [Streams -> 0 .. OutputLimit]
         /\ truncated' \in [Streams -> BOOLEAN]
         /\ \A r \in Streams : pipe[r] = 0 => pipe'[r] = 0
<1>1. PICK n \in 1 .. pipe[s] :
         /\ pipe' = [pipe EXCEPT ![s] = @ - n]
         /\ captured' = [captured EXCEPT ![s] = Kept(s, n)]
         /\ truncated' = [truncated EXCEPT ![s] = @ \/ captured[s] + n > OutputLimit]
  BY DEF Drain
<1>2. n \in Nat /\ n > 0 /\ n <= pipe[s] /\ pipe[s] \in Nat /\ captured[s] \in Nat
      /\ pipe[s] <= PipeCapacity /\ captured[s] <= OutputLimit
  BY PipeAssumption DEF TypeOK
<1>3. Kept(s, n) \in 0 .. OutputLimit
  BY <1>2, PipeAssumption DEF Kept
<1>4. pipe[s] - n \in 0 .. PipeCapacity
  BY <1>2, PipeAssumption
<1>5. /\ pipe' \in [Streams -> 0 .. PipeCapacity]
      /\ captured' \in [Streams -> 0 .. OutputLimit]
      /\ truncated' \in [Streams -> BOOLEAN]
  BY <1>1, <1>3, <1>4 DEF TypeOK
<1>6. ASSUME NEW r \in Streams
      PROVE  /\ Out(r)' \in Nat
             /\ captured'[r] = IF Out(r)' <= OutputLimit THEN Out(r)' ELSE OutputLimit
             /\ truncated'[r] <=> Out(r)' > OutputLimit
             /\ pipe[r] = 0 => pipe'[r] = 0
  <2>1. CASE r # s
    BY <1>1, <2>1 DEF Capture, Out, TypeOK
  <2>2. CASE r = s
    <3>1. Out(s) \in Nat /\ written[s] \in Nat
      BY DEF Capture, TypeOK
    <3>2. Out(s)' = Out(s) + n
      BY <1>1, <1>2, <3>1 DEF Out, TypeOK
    <3>3. captured'[s] = Kept(s, n)
      BY <1>1 DEF TypeOK
    <3>4. captured'[s] = IF Out(s)' <= OutputLimit THEN Out(s)' ELSE OutputLimit
      BY <1>2, <3>1, <3>2, <3>3, PipeAssumption DEF Capture, Kept
    <3>5. truncated'[s] <=> (truncated[s] \/ captured[s] + n > OutputLimit)
      BY <1>1 DEF TypeOK
    <3>6. (captured[s] + n > OutputLimit) <=> Out(s)' > OutputLimit
      BY <1>2, <3>1, <3>2, PipeAssumption DEF Capture
    <3>7. truncated[s] => Out(s)' > OutputLimit
      BY <1>2, <3>1, <3>2, PipeAssumption DEF Capture
    <3> QED BY <2>2, <1>2, <3>1, <3>2, <3>4, <3>5, <3>6, <3>7
  <2> QED BY <2>1, <2>2
<1> QED BY <1>5, <1>6 DEF Capture

(* The steps of the calling thread and of the watchdog that touch neither  *)
(* a pipe nor the child.                                                   *)
LEMMA HostStep ==
  ASSUME Inv,
         \/ SpawnFails \/ EndOfOut \/ ReadOutFails \/ TakeChild \/ Reap \/ WaitFails \/ Disarm
         \/ TimedOut \/ NotTimedOut \/ OutNotRead \/ Join \/ EndOfErr \/ ReadErrFails
         \/ StandDown \/ Expire \/ Flag
  PROVE  Inv'
<1> USE DEF Inv, Gone
<1>0. UNCHANGED <<plan, written, wants, heir, holds, pipe, captured, truncated, child, armed>>
  BY DEF SpawnFails, EndOfOut, ReadOutFails, WaitFails, OutNotRead, ReadErrFails, TakeChild, Reap,
         Disarm, TimedOut, NotTimedOut, Join, EndOfErr, StandDown, Expire, Flag, childVars, hostVars
<1>1. TypeOK'
  <2>1. main' \in {"spawn", "read", "lock", "wait", "disarm", "check", "join", "done"}
    BY DEF TypeOK, SpawnFails, EndOfOut, ReadOutFails, WaitFails, OutNotRead, ReadErrFails,
           TakeChild, Reap, Disarm, TimedOut, NotTimedOut, Join, EndOfErr, StandDown, Expire, Flag,
           hostVars
  <2>2. result' \in {"none", "spawn_error", "timeout", "io_error", "output"}
    BY DEF TypeOK, SpawnFails, EndOfOut, ReadOutFails, WaitFails, OutNotRead, ReadErrFails,
           TakeChild, Reap, Disarm, TimedOut, NotTimedOut, Join, EndOfErr, StandDown, Expire, Flag,
           hostVars
  <2>3. watchdog' \in {"idle", "sleeping", "expired", "kill", "gone"}
    BY DEF TypeOK, SpawnFails, EndOfOut, ReadOutFails, WaitFails, OutNotRead, ReadErrFails,
           TakeChild, Reap, Disarm, TimedOut, NotTimedOut, Join, EndOfErr, StandDown, Expire, Flag,
           hostVars
  <2>4. finished' \in BOOLEAN /\ timedOut' \in BOOLEAN
    BY DEF TypeOK, SpawnFails, EndOfOut, ReadOutFails, WaitFails, OutNotRead, ReadErrFails,
           TakeChild, Reap, Disarm, TimedOut, NotTimedOut, Join, EndOfErr, StandDown, Expire, Flag,
           hostVars
  <2>5. lockedBy' \in {"nobody", "main"} /\ reader' \in {"none", "reading", "ended"}
    BY DEF TypeOK, SpawnFails, EndOfOut, ReadOutFails, WaitFails, OutNotRead, ReadErrFails,
           TakeChild, Reap, Disarm, TimedOut, NotTimedOut, Join, EndOfErr, StandDown, Expire, Flag,
           hostVars
  <2>6. failed' \in [Streams -> BOOLEAN]
    BY DEF TypeOK, SpawnFails, EndOfOut, TakeChild, Reap, Disarm, TimedOut, NotTimedOut, Join,
           EndOfErr, StandDown, Expire, Flag, ReadOutFails, WaitFails, OutNotRead, ReadErrFails,
           hostVars
  <2> QED BY <1>0, <2>1, <2>2, <2>3, <2>4, <2>5, <2>6 DEF TypeOK
<1>2. Flagged'
  BY <1>0 DEF Flagged, TypeOK, SpawnFails, EndOfOut, ReadOutFails, WaitFails, OutNotRead,
              ReadErrFails, TakeChild, Reap, Disarm, TimedOut, NotTimedOut, Join, EndOfErr,
              StandDown, Expire, Flag
<1>3. Waited'
  BY <1>0 DEF Waited, Drained, Flagged, TypeOK, Streams, SpawnFails, EndOfOut, ReadOutFails,
              WaitFails, OutNotRead, ReadErrFails, TakeChild, Reap, Disarm, TimedOut, NotTimedOut,
              Join, EndOfErr, StandDown, Expire, Flag, hostVars
<1>4. Wrote' /\ Capture'
  BY <1>0 DEF Wrote, Capture, Out
<1>5. Drained'
  BY <1>0 DEF Drained, Waited, AtEnd, TypeOK, Streams, SpawnFails, EndOfOut, ReadOutFails,
              WaitFails, OutNotRead, ReadErrFails, TakeChild, Reap, Disarm, TimedOut, NotTimedOut,
              Join, EndOfErr, StandDown, Expire, Flag, hostVars
<1> QED BY <1>1, <1>2, <1>3, <1>4, <1>5

(* The two readers.                                                        *)
LEMMA ReadStep ==
  ASSUME Inv, ReadOut \/ ReadErr
  PROVE  Inv'
<1> USE DEF Inv
<1>0. UNCHANGED <<main, result, finished, failed, armed, watchdog, timedOut, lockedBy, reader,
                  child, plan, written, wants, heir, holds>>
  BY DEF ReadOut, ReadErr
<1>1. /\ Capture'
      /\ pipe' \in [Streams -> 0 .. PipeCapacity]
      /\ captured' \in [Streams -> 0 .. OutputLimit]
      /\ truncated' \in [Streams -> BOOLEAN]
      /\ \A r \in Streams : pipe[r] = 0 => pipe'[r] = 0
  BY <1>0, DrainKeepsCapture DEF ReadOut, ReadErr, Streams
<1>2. TypeOK'
  BY <1>0, <1>1 DEF TypeOK
<1>3. Flagged' /\ Waited' /\ Wrote'
  BY <1>0 DEF Flagged, Waited, Wrote
<1>4. Drained'
  BY <1>0, <1>1 DEF Drained, Streams
<1> QED BY <1>1, <1>2, <1>3, <1>4

(* The child, its start, its end, and the kill.                            *)
LEMMA ChildStep ==
  ASSUME Inv,
         Spawn \/ Kill \/ BeginWrite \/ Write \/ CloseOut \/ Fork \/ Exit \/ BrokenPipe \/ HeirExits
  PROVE  Inv'
<1> USE DEF Inv, Gone
<1>1. CASE Spawn
  <2>1. TypeOK'
    BY <1>1 DEF Spawn, TypeOK
  <2>2. Flagged' /\ Waited' /\ Drained'
    BY <1>1 DEF Spawn, Flagged, Waited, Drained, TypeOK
  <2>3. Wrote'
    BY <1>1 DEF Spawn, Wrote, Waited, Streams
  <2>4. Capture'
    BY <1>1 DEF Spawn, Capture, Out
  <2> QED BY <2>1, <2>2, <2>3, <2>4
<1>2. CASE Kill
  <2>1. TypeOK'
    <3>1. child' \in {child, "killed"} /\ holds' \in [Streams -> BOOLEAN]
      BY <1>2 DEF Kill, TypeOK
    <3>2. QED BY <1>2, <3>1 DEF Kill, TypeOK, hostVars
  <2>2. Flagged' /\ Waited'
    BY <1>2 DEF Kill, TypeOK, Flagged, Waited, hostVars
  <2>3. Wrote' /\ Capture' /\ Drained'
    BY <1>2 DEF Kill, TypeOK, Flagged, Wrote, Capture, Out, Drained, Waited, Streams, hostVars
  <2> QED BY <2>1, <2>2, <2>3
<1>3. CASE BeginWrite
  BY <1>3 DEF BeginWrite, TypeOK, Flagged, Waited, Wrote, Capture, Out, Drained, Streams, hostVars
<1>4. CASE Write
  <2>0. wants \in Streams /\ child = "running" /\ written[wants] < plan[wants] /\ holds[wants]
    BY <1>4 DEF Write, Wrote
  <2>1. TypeOK'
    BY <1>4, <2>0, PipeAssumption DEF Write, TypeOK, hostVars
  <2>2. Flagged' /\ Waited'
    BY <1>4 DEF Write, Flagged, Waited, hostVars
  <2>3. Wrote'
    BY <1>4, <2>0 DEF Write, Wrote, TypeOK, Streams
  <2>4. Capture'
    <3>1. ASSUME NEW s \in Streams PROVE Out(s)' = Out(s)
      BY <1>4, <2>0, PipeAssumption DEF Write, TypeOK, Out
    <3> QED BY <1>4, <3>1 DEF Write, hostVars, Capture
  <2>5. Drained'
    BY <1>4, <2>0 DEF Write, Drained, TypeOK, Streams, hostVars
  <2> QED BY <2>1, <2>2, <2>3, <2>4, <2>5
<1>5. CASE CloseOut
  BY <1>5 DEF CloseOut, TypeOK, Flagged, Waited, Wrote, Capture, Out, Drained, Streams, hostVars
<1>6. CASE Fork \/ HeirExits
  <2>1. UNCHANGED <<hostVars, child, plan, written, wants, holds, pipe, armed, watchdog,
                    timedOut, lockedBy, reader>>
    BY <1>6 DEF Fork, HeirExits
  <2>2. heir' \in BOOLEAN
    BY <1>6 DEF Fork, HeirExits
  <2>3. TypeOK'
    BY <2>1, <2>2 DEF TypeOK, hostVars
  <2>4. Flagged' /\ Waited' /\ Wrote' /\ Drained'
    BY <2>1 DEF Flagged, Waited, Wrote, Drained, hostVars
  <2>5. Capture'
    BY <2>1 DEF Capture, Out, hostVars
  <2> QED BY <2>3, <2>4, <2>5
<1>7. CASE Exit
  BY <1>7 DEF Exit, TypeOK, Flagged, Waited, Wrote, Capture, Out, Drained, Streams, hostVars
<1>8. CASE BrokenPipe
  <2>1. TypeOK' BY <1>8 DEF BrokenPipe, TypeOK, hostVars
  <2>2. Flagged' /\ Waited' BY <1>8 DEF BrokenPipe, Flagged, Waited, Streams, hostVars
  <2>3. Wrote' /\ Capture' /\ Drained'
    BY <1>8 DEF BrokenPipe, Wrote, Capture, Out, Drained, Waited, Streams, hostVars
  <2> QED BY <2>1, <2>2, <2>3
<1> QED BY <1>1, <1>2, <1>3, <1>4, <1>5, <1>6, <1>7, <1>8

LEMMA StepInv == Inv /\ [Next]_vars => Inv'
<1> SUFFICES ASSUME Inv, [Next]_vars PROVE Inv'
  OBVIOUS
<1>1. CASE Next
  BY <1>1, HostStep, ReadStep, ChildStep
  DEF Next, Main, MainNoFault, Reader, ReaderNoFault, Dog, Child, Whim
<1>2. CASE UNCHANGED vars
  BY <1>2 DEF vars, hostVars, childVars, Inv, TypeOK, Flagged, Waited, Wrote, Capture, Out, Drained
<1> QED BY <1>1, <1>2

LEMMA Inductive == Spec => []Inv
<1> QED BY InitInv, StepInv, PTL DEF Spec

(* What is captured of each stream stays within the limit that was given,  *)
(* whatever the child writes: the tool's memory is bounded.                *)
THEOREM CaptureBounded == Spec => []TypeOK
<1>1. Inv => TypeOK
  BY DEF Inv
<1> QED BY <1>1, Inductive, PTL

(* The output of a command that the watchdog killed is never returned as   *)
(* that of a command that ended.                                           *)
THEOREM KilledIsTimeout == Spec => []KilledNeverReturned
<1>1. Inv => KilledNeverReturned
  BY DEF Inv, Waited, KilledNeverReturned
<1> QED BY <1>1, Inductive, PTL

(* What `run` returns is all the child wrote, or its first OutputLimit     *)
(* bytes and the flag that says so.                                        *)
THEOREM ReturnsWhatWasWritten == Spec => []OutputFaithful
<1>1. Inv => OutputFaithful
  <2> SUFFICES ASSUME Inv, result = "output", NEW s \in Streams
               PROVE  /\ captured[s] = IF plan[s] < OutputLimit THEN plan[s] ELSE OutputLimit
                      /\ truncated[s] <=> plan[s] > OutputLimit
    BY DEF OutputFaithful
  <2>1. child = "exited" /\ pipe[s] = 0 /\ ~holds[s]
    BY DEF Inv, Waited, Drained, Streams
  <2>2. Out(s) = plan[s] /\ plan[s] \in Nat
    BY <2>1 DEF Inv, Wrote, Out, TypeOK
  <2> QED BY <2>2, PipeAssumption DEF Inv, Capture
<1> QED BY <1>1, Inductive, PTL

-----------------------------------------------------------------------------
(* Termination, up to fairness.  NoPipeDeadlock and TimeoutBoundsRun are   *)
(* beyond the prover as they stand; what makes them true is not: a party   *)
(* that can move is there until the call returns, and every step, other    *)
(* than the comings and goings of an heir, uses up one of finitely many.   *)

(* What a step of each party asks of the state: the guards of MainNoFault, *)
(* ReaderNoFault, Dog and Child.                                           *)
MainCanMove ==
    \/ main \in {"spawn", "disarm", "check"}
    \/ main = "read" /\ (pipe["out"] > 0 \/ AtEnd("out"))
    \/ main = "lock" /\ lockedBy = "nobody"
    \/ main = "wait" /\ child \in Gone
    \/ main = "join" /\ reader = "ended"
ReaderCanMove == reader = "reading" /\ (pipe["err"] > 0 \/ AtEnd("err"))
DogCanMove ==
    \/ watchdog \in {"sleeping", "expired"}
    \/ watchdog = "kill" /\ lockedBy = "nobody"
ChildCanMove ==
    /\ child = "running"
    /\ \/ wants = "nothing"
          /\ \/ written = plan
             \/ \E s \in Streams : written[s] < plan[s] /\ holds[s]
       \/ wants \in Streams /\ (failed[wants] \/ pipe[wants] < PipeCapacity)

(* Who is there, and who holds the mutex and the pipes.                    *)
Parties ==
    /\ lockedBy = "main" <=> main = "wait"
    /\ child = "none" => reader = "none" /\ watchdog = "idle"
    /\ child # "none" => main # "spawn" /\ reader # "none" /\ (armed => watchdog # "idle")
    /\ main # "spawn" /\ result # "spawn_error" => child # "none"
    /\ finished => main \in {"check", "join", "done"}
    /\ watchdog = "gone" => finished \/ child \in Gone
    /\ child \in Gone => \A s \in Streams : ~holds[s]
    /\ \A s \in Streams : written[s] <= plan[s]

LEMMA PartiesInit == Init => Parties
BY PipeAssumption DEF Init, Parties, Streams, Gone

LEMMA PartiesHost ==
    ASSUME Inv, Parties, Main \/ Reader PROVE Parties'
<1> USE DEF Gone
<1>0. UNCHANGED <<plan, written, holds, armed>>
  BY DEF Main, MainNoFault, Reader, ReaderNoFault, Spawn, ReadOutFails, WaitFails, OutNotRead,
         ReadErrFails, SpawnFails, ReadOut, EndOfOut, TakeChild, Reap, Disarm, TimedOut,
         NotTimedOut, Join, ReadErr, EndOfErr, hostVars, childVars
<1>1. CASE Spawn BY <1>0, <1>1 DEF Spawn, Parties, Inv, Waited
<1>2. CASE SpawnFails BY <1>0, <1>2 DEF SpawnFails, Parties, Inv, Waited, childVars
<1>3. CASE ReadOut \/ ReadErr \/ EndOfErr \/ ReadErrFails
  BY <1>0, <1>3 DEF ReadOut, ReadErr, EndOfErr, ReadErrFails, Parties, hostVars, childVars
<1>4. CASE EndOfOut \/ ReadOutFails \/ TakeChild \/ Reap \/ Disarm
  BY <1>0, <1>4 DEF EndOfOut, ReadOutFails, TakeChild, Reap, Disarm, Parties, childVars
<1>5. CASE WaitFails \/ TimedOut \/ NotTimedOut \/ OutNotRead \/ Join
  BY <1>0, <1>5
  DEF WaitFails, TimedOut, NotTimedOut, OutNotRead, Join, Parties, childVars, Inv, Waited
<1>6. QED BY <1>1, <1>2, <1>3, <1>4, <1>5 DEF Main, MainNoFault, Reader, ReaderNoFault

LEMMA PartiesOthers ==
    ASSUME Inv, Parties, Dog \/ Child \/ Whim \/ HeirExits PROVE Parties'
<1> USE DEF Gone
<1>1. CASE Dog
  BY <1>1 DEF Dog, StandDown, Expire, Flag, Kill, Parties, Inv, TypeOK, hostVars, childVars
<1>2. CASE BeginWrite \/ CloseOut \/ Fork \/ HeirExits
  BY <1>2 DEF BeginWrite, CloseOut, Fork, HeirExits, Parties, Inv, TypeOK, Streams, hostVars
<1>3. CASE Write
  <2>1. wants \in Streams /\ written[wants] < plan[wants] BY <1>3 DEF Write, Inv, Wrote
  <2>2. \A s \in Streams : written'[s] <= plan'[s]
    BY <1>3, <2>1 DEF Write, Parties, Inv, TypeOK
  <2>3. QED BY <1>3, <2>2 DEF Write, Parties, hostVars
<1>4. CASE Exit \/ BrokenPipe BY <1>4 DEF Exit, BrokenPipe, Parties, Inv, TypeOK, hostVars
<1>5. QED BY <1>1, <1>2, <1>3, <1>4 DEF Child, Whim

LEMMA PartiesInvariance == Spec => [](Inv /\ Parties)
<1>1. Inv /\ Parties /\ [Next]_vars => Parties'
  BY PartiesHost, PartiesOthers DEF Next, Parties, vars, hostVars, childVars
<1>2. QED BY <1>1, PartiesInit, Inductive, PTL DEF Spec

(* A child that is running can move, or is blocked on a pipe that somebody *)
(* can drain.                                                              *)
LEMMA RunningChild ==
    ASSUME Inv, Parties, child = "running", main # "read" \/ pipe["out"] = 0,
           main \in {"read", "lock", "wait"}
    PROVE  ChildCanMove \/ ReaderCanMove
<1>1. CASE wants = "nothing"
  <2>1. CASE written = plan BY <1>1, <2>1 DEF ChildCanMove
  <2>2. CASE written # plan
    <3>1. PICK s \in Streams : written[s] # plan[s] BY <2>2 DEF Inv, TypeOK
    <3>2. written[s] < plan[s] BY <3>1 DEF Parties, Inv, TypeOK
    <3>3. holds[s] BY <3>1 DEF Inv, Wrote, TypeOK
    <3>4. QED BY <1>1, <3>2, <3>3 DEF ChildCanMove
  <2>3. QED BY <2>1, <2>2
<1>2. CASE wants = "out"
  <2>1. holds["out"] BY <1>2 DEF Inv, Wrote, Streams
  <2>2. failed["out"] \/ (main = "read" /\ pipe["out"] = 0) BY <2>1 DEF Inv, Drained
  <2>3. QED BY <1>2, <2>2, PipeAssumption DEF ChildCanMove, Streams
<1>3. CASE wants = "err"
  <2>1. holds["err"] BY <1>3 DEF Inv, Wrote, Streams
  <2>2. reader = "reading" \/ failed["err"] BY <2>1 DEF Inv, Drained, Parties, TypeOK
  <2>3. pipe["err"] \in 0 .. PipeCapacity BY DEF Inv, TypeOK, Streams
  <2>4. pipe["err"] < PipeCapacity \/ pipe["err"] > 0 BY <2>3, PipeAssumption
  <2>5. QED BY <1>3, <2>2, <2>4 DEF ChildCanMove, ReaderCanMove, Streams
<1>4. QED BY <1>1, <1>2, <1>3 DEF Inv, TypeOK, Streams

LEMMA SomebodyMoves ==
    ASSUME Inv, Parties, main # "done", ~heir
    PROVE  MainCanMove \/ ReaderCanMove \/ ChildCanMove
<1>1. CASE main \in {"spawn", "disarm", "check"} BY <1>1 DEF MainCanMove
<1>2. CASE main = "lock"
  BY <1>2 DEF MainCanMove, Parties, Inv, TypeOK
<1>3. CASE main = "wait"
  <2>1. child \in {"running"} \cup Gone BY <1>3 DEF Inv, Parties, Waited, TypeOK, Gone
  <2>2. QED BY <1>3, <2>1, RunningChild DEF MainCanMove
<1>4. CASE main = "read"
  <2>1. child \in {"running"} \cup Gone BY <1>4 DEF Inv, Parties, Waited, TypeOK, Gone
  <2>2. pipe["out"] \in Nat BY DEF Inv, TypeOK, Streams
  <2>3. CASE pipe["out"] > 0 BY <1>4, <2>3 DEF MainCanMove
  <2>4. CASE pipe["out"] = 0 /\ child = "running" BY <1>4, <2>4, RunningChild
  <2>5. CASE pipe["out"] = 0 /\ child # "running"
    BY <1>4, <2>1, <2>5 DEF MainCanMove, AtEnd, Parties, Streams, Gone
  <2>6. QED BY <2>2, <2>3, <2>4, <2>5
<1>5. CASE main = "join"
  <2>1. child \in {"exited", "broken"} /\ ~holds["err"] BY <1>5
      DEF Inv, Waited, Parties, Streams, Gone
  <2>2. reader \in {"reading", "ended"} BY <2>1 DEF Inv, TypeOK, Parties
  <2>3. pipe["err"] \in Nat BY DEF Inv, TypeOK, Streams
  <2>4. QED BY <1>5, <2>1, <2>2, <2>3 DEF MainCanMove, ReaderCanMove, AtEnd
<1>6. QED BY <1>1, <1>2, <1>3, <1>4, <1>5 DEF Inv, TypeOK

(* Until the call returns, the calling thread, the stderr thread or the    *)
(* child can move, or an heir of the child holds a pipe: the two pipes and *)
(* the mutex never make everybody wait for everybody.  No use is made of   *)
(* the watchdog.                                                           *)
SomebodyCanMove == main # "done" => MainCanMove \/ ReaderCanMove \/ ChildCanMove \/ heir

(* The two pipes and the mutex of `run` never leave everybody waiting for  *)
(* everybody, whatever the child writes and in whichever order.            *)
THEOREM NeverAllBlocked == Spec => []SomebodyCanMove
<1>1. Inv /\ Parties => SomebodyCanMove BY SomebodyMoves DEF SomebodyCanMove
<1>2. QED BY <1>1, PartiesInvariance, PTL

(* With a time limit, no heir, and a child that keeps stdout open while it *)
(* runs, the tool needs nothing of the child: one of its own three threads *)
(* can move until the call returns.  The hypothesis on stdout is the       *)
(* hypothesis of TimeoutBoundsRun, and it is needed: a child that closed   *)
(* stdout, or whose stdout cannot be read, is waited for with the mutex    *)
(* held, which blocks the watchdog.                                        *)
ToolCanMove ==
    main # "done" /\ armed /\ ~heir /\ (child = "running" => holds["out"] /\ ~failed["out"]) =>
        MainCanMove \/ ReaderCanMove \/ DogCanMove

(* Until `run` with a time limit returns, a thread of its own can move, if *)
(* the child keeps stdout open and readable while it runs, and no heir.    *)
THEOREM LimitNeedsNoChild == Spec => []ToolCanMove
<1>1. ASSUME Inv, Parties PROVE ToolCanMove
  <2> SUFFICES ASSUME main # "done", armed, ~heir, child = "running" => holds["out"] /\ ~failed["out"]
               PROVE  MainCanMove \/ ReaderCanMove \/ DogCanMove
    BY DEF ToolCanMove
  <2>1. CASE child # "running"
    BY <1>1, <2>1, SomebodyMoves DEF ChildCanMove
  <2>2. CASE child = "running"
    <3>1. main \in {"spawn", "read", "disarm", "check"}
      BY <1>1, <2>2 DEF Inv, TypeOK, Waited, Drained, Gone
    <3>2. lockedBy = "nobody" BY <1>1, <3>1 DEF Parties, Inv, TypeOK
    <3>3. watchdog \in {"sleeping", "expired", "kill"} \/ finished
      BY <1>1, <2>2 DEF Parties, Inv, TypeOK, Gone
    <3>4. finished => main = "check" BY <1>1, <3>1 DEF Parties
    <3>5. QED BY <3>2, <3>3, <3>4 DEF DogCanMove, MainCanMove
  <2>3. QED BY <2>1, <2>2
<1>2. QED BY <1>1, PartiesInvariance, PTL

(* What is left to do, of each party and in all; an heir may come and go.  *)
MainLeft ==
    CASE main = "spawn" -> 7 [] main = "read" -> 6 [] main = "lock" -> 5 [] main = "wait" -> 4
      [] main = "disarm" -> 3 [] main = "check" -> 2 [] main = "join" -> 1 [] OTHER -> 0
DogLeft ==
    CASE watchdog = "idle" -> 4 [] watchdog = "sleeping" -> 3 [] watchdog = "expired" -> 2
      [] watchdog = "kill" -> 1 [] OTHER -> 0
ReaderLeft == CASE reader = "none" -> 2 [] reader = "reading" -> 1 [] OTHER -> 0
ChildLeft == CASE child = "none" -> 2 [] child = "running" -> 1 [] OTHER -> 0
Bit(b) == IF b THEN 1 ELSE 0
StreamLeft(s) == 3 * (plan[s] - written[s]) + pipe[s]
Left ==
    MainLeft + DogLeft + ReaderLeft + ChildLeft + Bit(wants = "nothing") + Bit(holds["out"])
      + StreamLeft("out") + StreamLeft("err")
MostSteps == 17 + 6 * MaxOutput
butHeir == <<hostVars, child, plan, written, wants, holds, pipe, armed, watchdog, timedOut,
             lockedBy, reader>>

LEMMA LeftInts ==
    ASSUME TypeOK
    PROVE  /\ MainLeft \in 0 .. 7 /\ DogLeft \in 0 .. 4 /\ ReaderLeft \in 0 .. 2
           /\ ChildLeft \in 0 .. 2
           /\ Bit(wants = "nothing") \in 0 .. 1 /\ Bit(holds["out"]) \in 0 .. 1
           /\ \A s \in Streams : plan[s] \in 0 .. MaxOutput /\ written[s] \in Nat /\ pipe[s] \in Nat
           /\ StreamLeft("out") \in Int /\ StreamLeft("err") \in Int
<1>1. MainLeft \in 0 .. 7 BY DEF MainLeft, TypeOK
<1>2. DogLeft \in 0 .. 4 BY DEF DogLeft, TypeOK
<1>3. ReaderLeft \in 0 .. 2 BY DEF ReaderLeft, TypeOK
<1>4. ChildLeft \in 0 .. 2 BY DEF ChildLeft, TypeOK
<1>5. Bit(wants = "nothing") \in 0 .. 1 /\ Bit(holds["out"]) \in 0 .. 1 BY DEF Bit
<1>6. ASSUME NEW s \in Streams
      PROVE  plan[s] \in 0 .. MaxOutput /\ written[s] \in Nat /\ pipe[s] \in Nat
  BY DEF TypeOK
<1>7. StreamLeft("out") \in Int /\ StreamLeft("err") \in Int BY <1>6 DEF StreamLeft, Streams
<1>8. QED BY <1>1, <1>2, <1>3, <1>4, <1>5, <1>6, <1>7

LEMMA LeftBounded == ASSUME Inv, Parties PROVE Left \in 0 .. MostSteps
<1>1. ASSUME NEW s \in Streams PROVE StreamLeft(s) \in 0 .. 3 * MaxOutput
  <2>1. plan[s] \in 0 .. MaxOutput /\ written[s] \in Nat /\ pipe[s] \in Nat
    BY LeftInts DEF Inv
  <2>2. written[s] <= plan[s] BY DEF Parties
  <2>3. pipe[s] <= written[s] BY <2>1 DEF Inv, Capture, Out
  <2>4. QED BY <2>1, <2>2, <2>3, PipeAssumption DEF StreamLeft
<1>2. StreamLeft("out") \in 0 .. 3 * MaxOutput /\ StreamLeft("err") \in 0 .. 3 * MaxOutput
  BY <1>1 DEF Streams
<1>3. TypeOK BY DEF Inv
<1>4. QED BY <1>2, <1>3, LeftInts, PipeAssumption DEF Left, MostSteps

(* A block that is drained leaves the pipe of its stream.                  *)
LEMMA DrainCounts ==
    ASSUME TypeOK, TypeOK', NEW s \in Streams, Drain(s),
           UNCHANGED <<main, watchdog, reader, child, plan, written, wants, holds>>
    PROVE  Left' < Left
<1>1. PICK n \in 1 .. pipe[s] : pipe' = [pipe EXCEPT ![s] = @ - n] BY DEF Drain
<1>2. n \in Nat /\ n > 0 BY <1>1, LeftInts
<1>3. StreamLeft(s)' < StreamLeft(s) BY <1>1, <1>2, LeftInts DEF StreamLeft, TypeOK
<1>4. \A r \in Streams : r # s => StreamLeft(r)' = StreamLeft(r)
  BY <1>1 DEF StreamLeft, TypeOK
<1>5. UNCHANGED <<MainLeft, DogLeft, ReaderLeft, ChildLeft, Bit(wants = "nothing"),
                  Bit(holds["out"])>>
  BY DEF MainLeft, DogLeft, ReaderLeft, ChildLeft, Bit
<1>6. StreamLeft("out")' \in Int /\ StreamLeft("err")' \in Int
  BY PipeAssumption DEF StreamLeft, TypeOK, Streams
<1>7. QED BY <1>3, <1>4, <1>5, <1>6, LeftInts DEF Left, Streams

(* Steps that only move a thread.                                          *)
LEMMA ThreadCounts ==
    ASSUME TypeOK,
           SpawnFails \/ EndOfOut \/ ReadOutFails \/ TakeChild \/ Reap \/ WaitFails \/ Disarm
             \/ TimedOut \/ NotTimedOut \/ OutNotRead \/ Join \/ EndOfErr \/ ReadErrFails
             \/ StandDown \/ Expire \/ Flag
    PROVE  Left' < Left
<1>1. UNCHANGED <<ChildLeft, Bit(wants = "nothing"), Bit(holds["out"]), StreamLeft("out"),
                  StreamLeft("err")>>
  BY DEF SpawnFails, EndOfOut, ReadOutFails, TakeChild, Reap, WaitFails, Disarm, TimedOut,
         NotTimedOut, OutNotRead, Join, EndOfErr, ReadErrFails, StandDown, Expire, Flag, childVars,
         ChildLeft, Bit, StreamLeft
<1>2. /\ MainLeft' \in Int /\ MainLeft' <= MainLeft
      /\ DogLeft' \in Int /\ DogLeft' <= DogLeft
      /\ ReaderLeft' \in Int /\ ReaderLeft' <= ReaderLeft
      /\ MainLeft' < MainLeft \/ DogLeft' < DogLeft \/ ReaderLeft' < ReaderLeft
  <2>1. CASE \/ SpawnFails \/ EndOfOut \/ ReadOutFails \/ TakeChild \/ Reap \/ WaitFails \/ Disarm
             \/ TimedOut \/ NotTimedOut \/ OutNotRead \/ Join
    <3>1. UNCHANGED <<watchdog, reader>>
      BY <2>1
      DEF SpawnFails, EndOfOut, ReadOutFails, TakeChild, Reap, WaitFails, Disarm, TimedOut,
          NotTimedOut, OutNotRead, Join
    <3>2. UNCHANGED <<DogLeft, ReaderLeft>> BY <3>1 DEF DogLeft, ReaderLeft
    <3>3. MainLeft' \in Int /\ MainLeft' < MainLeft
      BY <2>1
      DEF SpawnFails, EndOfOut, ReadOutFails, TakeChild, Reap, WaitFails, Disarm, TimedOut,
          NotTimedOut, OutNotRead, Join, MainLeft
    <3>4. QED BY <3>2, <3>3, LeftInts
  <2>2. CASE EndOfErr \/ ReadErrFails
    BY <2>2, LeftInts DEF EndOfErr, ReadErrFails, hostVars, MainLeft, DogLeft, ReaderLeft
  <2>3. CASE StandDown \/ Expire \/ Flag
    BY <2>3, LeftInts DEF StandDown, Expire, Flag, hostVars, MainLeft, DogLeft, ReaderLeft
  <2>4. QED BY <2>1, <2>2, <2>3
<1>3. QED BY <1>1, <1>2, LeftInts DEF Left

(* Steps of the child, its start and its end.                              *)
LEMMA ChildCounts ==
    ASSUME Inv, Inv', Parties, Spawn \/ Kill \/ BeginWrite \/ Write \/ CloseOut \/ Exit \/ BrokenPipe
    PROVE  Left' < Left
<1>0. TypeOK /\ TypeOK' BY DEF Inv
<1>1. CASE Spawn
  <2>1. child = "none" /\ reader = "none" /\ watchdog = "idle"
    BY <1>1 DEF Spawn, Inv, Waited, Parties
  <2>2. MainLeft' = MainLeft - 1 BY <1>1 DEF Spawn, MainLeft
  <2>3. DogLeft' \in Int /\ DogLeft' <= DogLeft BY <1>1, <2>1 DEF Spawn, DogLeft
  <2>4. ReaderLeft' = ReaderLeft - 1 BY <1>1, <2>1 DEF Spawn, ReaderLeft
  <2>5. ChildLeft' = ChildLeft - 1 BY <1>1, <2>1 DEF Spawn, ChildLeft
  <2>6. UNCHANGED <<Bit(wants = "nothing"), Bit(holds["out"]), StreamLeft("out"), StreamLeft("err")>>
    BY <1>1 DEF Spawn, Bit, StreamLeft
  <2>7. QED BY <1>0, <2>2, <2>3, <2>4, <2>5, <2>6, LeftInts DEF Left
<1>2. CASE Kill
  <2>1. UNCHANGED <<MainLeft, ReaderLeft, Bit(wants = "nothing"), StreamLeft("out"), StreamLeft("err")>>
    BY <1>2 DEF Kill, hostVars, MainLeft, ReaderLeft, Bit, StreamLeft
  <2>2. DogLeft' = DogLeft - 1 BY <1>2 DEF Kill, DogLeft
  <2>3. ChildLeft' \in Int /\ ChildLeft' <= ChildLeft BY <1>2 DEF Kill, ChildLeft
  <2>4. Bit(holds["out"])' \in Int /\ Bit(holds["out"])' <= Bit(holds["out"])
    BY <1>2 DEF Kill, Bit, Streams
  <2>5. QED BY <1>0, <2>1, <2>2, <2>3, <2>4, LeftInts DEF Left
<1>3. CASE BeginWrite
  <2>1. UNCHANGED <<MainLeft, DogLeft, ReaderLeft, ChildLeft, Bit(holds["out"]),
                    StreamLeft("out"), StreamLeft("err")>>
    BY <1>3 DEF BeginWrite, hostVars, MainLeft, DogLeft, ReaderLeft, ChildLeft, Bit, StreamLeft
  <2>2. Bit(wants = "nothing")' = Bit(wants = "nothing") - 1
    BY <1>3 DEF BeginWrite, Bit, Streams
  <2>3. QED BY <1>0, <2>1, <2>2, LeftInts DEF Left
<1>4. CASE Write
  <2>1. UNCHANGED <<MainLeft, DogLeft, ReaderLeft, ChildLeft, Bit(holds["out"])>>
    BY <1>4 DEF Write, hostVars, MainLeft, DogLeft, ReaderLeft, ChildLeft, Bit
  <2>2. Bit(wants = "nothing") = 0 /\ Bit(wants = "nothing")' = 1
    BY <1>4 DEF Write, Bit, Streams
  <2>3. ASSUME NEW s \in Streams
        PROVE  StreamLeft(s)' = IF s = wants THEN StreamLeft(s) - 2 ELSE StreamLeft(s)
    BY <1>0, <1>4, LeftInts DEF Write, StreamLeft, TypeOK
  <2>4. wants \in {"out", "err"} BY <1>4 DEF Write, Streams
  <2>5. StreamLeft("out")' + StreamLeft("err")' = StreamLeft("out") + StreamLeft("err") - 2
    BY <1>0, <2>3, <2>4, LeftInts DEF Streams
  <2>6. StreamLeft("out")' \in Int /\ StreamLeft("err")' \in Int
    BY <1>0, <2>3, LeftInts DEF Streams
  <2>7. QED BY <1>0, <2>1, <2>2, <2>5, <2>6, LeftInts DEF Left
<1>5. CASE CloseOut
  <2>1. UNCHANGED <<MainLeft, DogLeft, ReaderLeft, ChildLeft, Bit(wants = "nothing"),
                    StreamLeft("out"), StreamLeft("err")>>
    BY <1>5 DEF CloseOut, hostVars, MainLeft, DogLeft, ReaderLeft, ChildLeft, Bit, StreamLeft
  <2>2. Bit(holds["out"])' = Bit(holds["out"]) - 1
    BY <1>0, <1>5 DEF CloseOut, Bit, TypeOK, Streams
  <2>3. QED BY <1>0, <2>1, <2>2, LeftInts DEF Left
<1>6. CASE Exit \/ BrokenPipe
  <2>1. UNCHANGED <<MainLeft, DogLeft, ReaderLeft, Bit(wants = "nothing"), StreamLeft("out"),
                    StreamLeft("err")>>
    BY <1>6 DEF Exit, BrokenPipe, hostVars, MainLeft, DogLeft, ReaderLeft, Bit, StreamLeft
  <2>2. ChildLeft' = ChildLeft - 1 BY <1>6 DEF Exit, BrokenPipe, ChildLeft
  <2>3. Bit(holds["out"])' \in Int /\ Bit(holds["out"])' <= Bit(holds["out"])
    BY <1>6 DEF Exit, BrokenPipe, Bit, Streams
  <2>4. QED BY <1>0, <2>1, <2>2, <2>3, LeftInts DEF Left
<1>7. QED BY <1>1, <1>2, <1>3, <1>4, <1>5, <1>6

(* Every step uses up at least one of what is left, but for those of an    *)
(* heir, and there are never more than MostSteps left: a call whose child  *)
(* leaves no heir takes at most that many steps, whoever takes them.       *)
EveryStepCounts == [][Left' < Left \/ UNCHANGED butHeir]_vars

(* A call of `run` has a bounded number of steps, the watchdog's and the   *)
(* child's included; only an heir can prolong it.                          *)
THEOREM CallsAreFinite == Spec => [](Left \in 0 .. MostSteps) /\ EveryStepCounts
<1>1. Inv /\ Parties => Left \in 0 .. MostSteps BY LeftBounded
<1>2. ASSUME Inv, Inv', Parties, [Next]_vars PROVE [Left' < Left \/ UNCHANGED butHeir]_vars
  <2>0. TypeOK /\ TypeOK' BY <1>2 DEF Inv
  <2>1. CASE ReadOut \/ ReadErr
    BY <2>0, <2>1, DrainCounts DEF ReadOut, ReadErr, Streams
  <2>2. CASE Fork \/ HeirExits BY <2>2 DEF Fork, HeirExits, butHeir
  <2>3. QED
    BY <1>2, <2>0, <2>1, <2>2, ThreadCounts, ChildCounts
    DEF Next, Main, MainNoFault, Reader, ReaderNoFault, Dog, Child, Whim
<1>3. QED BY <1>1, <1>2, Inductive, PartiesInvariance, PTL DEF Spec, EveryStepCounts
====
