------------------------ MODULE StreamTransfer_proofs ------------------------
(***************************************************************************)
(* StreamTransfer, for every pipe capacity and amount of data: a complete  *)
(* status means that the whole stream reached the artifact, a cancellation *)
(* lets at most one more block through, a stream is a Delivery to its      *)
(* caller, it never comes to a standstill, and a signal that ends the      *)
(* child is mistaken for its end on a terminal only.                       *)
(***************************************************************************)
EXTENDS StreamTransfer, Integers, TLAPS

(* Every block the child wrote was relayed or is still in the pipe.        *)
Conserved == relayed + pipe["out"] = sent["out"]

(* A block was taken after the token was set only if the token was set     *)
(* while the read was in flight, and then the loop is past its last read.  *)
Late ==
    /\ late \in {0, 1} /\ late <= relayed
    /\ late = 1 => cancel /\ main # "read"

(* What the child still intends to write.                                  *)
Honest == \A s \in Streams : wants = s => sent[s] < ToSend(s)

(* The loop was left by the end of the stream, or says why not.            *)
Ended ==
    /\ main = "kill" => cancelled \/ relayError
    /\ main \in {"reap", "join"} /\ ~cancelled /\ ~relayError =>
         child # "running" /\ pipe["out"] = 0
    /\ status # "none" => main = "done"
    /\ main = "join" /\ child = "running" => relayError
    /\ status \in CompleteStatuses => child # "running" /\ pipe["out"] = 0
    /\ status = "completed" => child = "zero"

Inv == TypeOK /\ Conserved /\ Late /\ Honest /\ Ended

LEMMA InitInv == Init => Inv
<1> SUFFICES ASSUME Init PROVE Inv
  OBVIOUS
<1>1. sent["out"] = 0 /\ pipe["out"] = 0 /\ sent["err"] = 0 /\ pipe["err"] = 0
  BY DEF Init, Streams
<1>2. source.blocks \in Nat /\ source.noise \in Nat /\ source \in Sources
  BY StreamAssumption DEF Init, Sources
<1>3. TypeOK
  <2>1. sent \in [Streams -> Nat] /\ pipe \in [Streams -> 0 .. PipeCapacity]
    BY StreamAssumption DEF Init
  <2>2. \A s \in Streams : sent[s] <= ToSend(s)
    BY <1>1, <1>2 DEF Streams, ToSend
  <2>3. relayed \in 0 .. MaxBlocks /\ late \in 0 .. MaxBlocks
    BY StreamAssumption DEF Init
  <2> QED BY <1>2, <2>1, <2>2, <2>3 DEF Init, TypeOK, Statuses
<1>4. Conserved /\ Late
  BY <1>1 DEF Init, Conserved, Late
<1>5. Honest /\ Ended
  BY DEF Init, Honest, Ended, Streams, CompleteStatuses
<1> QED BY <1>3, <1>4, <1>5 DEF Inv

(* The steps of the two threads that move no block.                        *)
LEMMA ThreadStep ==
  ASSUME Inv,
         \/ SpawnFails \/ Check \/ RelayFails \/ EndOfOut \/ Kill \/ Reap \/ WaitFails \/ Join
         \/ EndOfErr \/ ReadErrFails \/ Fork \/ HeirExits \/ SetToken \/ InterruptChild
  PROVE  Inv'
<1> USE DEF Inv
<1>0. UNCHANGED <<relayed, late, child, source, sent, wants, pipe, terminal, allow>>
  BY DEF SpawnFails, Check, RelayFails, EndOfOut, Kill, Reap, WaitFails, Join, EndOfErr,
         ReadErrFails, Fork, HeirExits, SetToken, InterruptChild, hostVars, childVars
<1>1. TypeOK'
  <2>1. main' \in {"spawn", "check", "read", "kill", "reap", "join", "done"}
    BY DEF TypeOK, SpawnFails, Check, RelayFails, EndOfOut, Kill, Reap, WaitFails, Join, EndOfErr,
           ReadErrFails, Fork, HeirExits, SetToken, InterruptChild, hostVars, Goto
  <2>2. cancel' \in BOOLEAN /\ cancelled' \in BOOLEAN /\ relayError' \in BOOLEAN
        /\ doomed' \in BOOLEAN /\ heir' \in {"none", "alive", "gone"}
    BY DEF TypeOK, SpawnFails, Check, RelayFails, EndOfOut, Kill, Reap, WaitFails, Join, EndOfErr,
           ReadErrFails, Fork, HeirExits, SetToken, InterruptChild, hostVars, childVars
  <2>3. status' \in Statuses /\ reader' \in {"none", "reading", "ended", "failed"}
    BY DEF TypeOK, SpawnFails, Check, RelayFails, EndOfOut, Kill, Reap, WaitFails, Join, EndOfErr,
           ReadErrFails, Fork, HeirExits, SetToken, InterruptChild, hostVars, StatusOf, Statuses
  <2>4. \A s \in Streams : ToSend(s)' = ToSend(s)
    BY <1>0 DEF ToSend
  <2> QED BY <1>0, <2>1, <2>2, <2>3, <2>4 DEF TypeOK
<1>2. Conserved'
  BY <1>0 DEF Conserved
<1>3. Late'
  BY <1>0 DEF Late, TypeOK, SpawnFails, Check, RelayFails, EndOfOut, Kill, Reap, WaitFails, Join, EndOfErr,
         ReadErrFails, Fork, HeirExits, SetToken, InterruptChild, hostVars, Goto
<1>4. Honest'
  BY <1>0 DEF Honest, ToSend
<1>5. Ended'
  <2>1. CASE Check
    BY <2>1, <1>0 DEF Check, Ended, Goto, TypeOK, CompleteStatuses
  <2>2. CASE SpawnFails \/ RelayFails \/ EndOfOut
    BY <2>2, <1>0 DEF SpawnFails, RelayFails, EndOfOut, AtEnd, Ended, Goto, CompleteStatuses
  <2>3. CASE Kill \/ Reap
    BY <2>3, <1>0 DEF Kill, Reap, Ended, Goto, CompleteStatuses
  <2>4. CASE WaitFails
    BY <2>4, <1>0 DEF WaitFails, Ended, Goto, CompleteStatuses
  <2>5. CASE Join
    BY <2>5, <1>0 DEF Join, Ended, Goto, StatusOf, CompleteStatuses, TypeOK
  <2>6. CASE EndOfErr \/ ReadErrFails \/ Fork \/ HeirExits \/ SetToken \/ InterruptChild
    BY <2>6, <1>0 DEF EndOfErr, ReadErrFails, Fork, HeirExits, SetToken, InterruptChild, Ended, hostVars, CompleteStatuses
  <2> QED BY <2>1, <2>2, <2>3, <2>4, <2>5, <2>6
<1> QED BY <1>1, <1>2, <1>3, <1>4, <1>5

LEMMA ReadStep ==
  ASSUME Inv, Relay \/ ReadErr
  PROVE  Inv'
<1> USE DEF Inv
<1>1. CASE Relay
  <2>1. PICK n \in 1 .. pipe["out"] :
          pipe' = [pipe EXCEPT !["out"] = @ - n] /\ relayed' = relayed + n
    BY <1>1 DEF Relay
  <2>2. UNCHANGED <<cancelled, relayError, status, childVars, cancel, reader, terminal, allow>>
        /\ main = "read" /\ main' = "check" /\ late' = IF cancel THEN late + 1 ELSE late
    BY <1>1 DEF Relay, Goto
  <2>3. /\ pipe["out"] \in Nat /\ pipe["err"] \in 0 .. PipeCapacity /\ relayed \in Nat
        /\ n \in Nat /\ n > 0 /\ n <= pipe["out"] /\ pipe["out"] <= PipeCapacity
        /\ sent["out"] \in Nat
    BY <2>1, StreamAssumption DEF TypeOK, Streams
  <2>4. pipe'["out"] = pipe["out"] - n /\ pipe' \in [Streams -> 0 .. PipeCapacity]
    BY <2>1, <2>3, StreamAssumption DEF TypeOK, Streams
  <2>5. Conserved'
    BY <2>1, <2>2, <2>3, <2>4 DEF Conserved, childVars
  <2>6. late = 0
    BY <2>2 DEF Late
  <2>7. Late'
    BY <2>1, <2>2, <2>3, <2>6 DEF Late, TypeOK
  <2>8. sent["out"] <= source.blocks /\ source.blocks \in 0 .. MaxBlocks
    BY DEF TypeOK, ToSend, Streams, Sources
  <2>9. relayed' \in 0 .. MaxBlocks
    BY <2>1, <2>3, <2>8, StreamAssumption DEF Conserved
  <2>10. late' \in 0 .. MaxBlocks
    BY <2>2, <2>3, <2>6, <2>7, <2>9, <2>1, StreamAssumption DEF Late
  <2>11. TypeOK'
    BY <2>2, <2>4, <2>9, <2>10 DEF TypeOK, childVars, ToSend
  <2>12. Honest'
    BY <2>2 DEF Honest, ToSend, childVars
  <2>13. Ended'
    BY <2>2 DEF Ended, childVars, CompleteStatuses
  <2> QED BY <2>5, <2>7, <2>11, <2>12, <2>13
<1>2. CASE ReadErr
  <2>1. PICK n \in 1 .. pipe["err"] : pipe' = [pipe EXCEPT !["err"] = @ - n]
    BY <1>2 DEF ReadErr
  <2>2. UNCHANGED <<hostVars, childVars, cancel, reader, terminal, allow>>
    BY <1>2 DEF ReadErr
  <2>3. pipe' \in [Streams -> 0 .. PipeCapacity] /\ pipe'["out"] = pipe["out"]
    BY <2>1, StreamAssumption DEF TypeOK, Streams
  <2>4. TypeOK'
    BY <2>2, <2>3 DEF TypeOK, hostVars, childVars, ToSend
  <2>5. Conserved' /\ Late' /\ Ended'
    BY <2>2, <2>3 DEF Conserved, Late, Ended, hostVars, childVars
  <2>6. Honest'
    BY <2>2 DEF Honest, ToSend, childVars
  <2> QED BY <2>4, <2>5, <2>6
<1> QED BY <1>1, <1>2

LEMMA ChildStep ==
  ASSUME Inv, Spawn \/ Child \/ Die
  PROVE  Inv'
<1> USE DEF Inv
<1>4. CASE Spawn
  <2>1. /\ main = "spawn" /\ main' = "check" /\ child' = "running" /\ reader' = "reading"
        /\ UNCHANGED <<cancelled, relayError, relayed, late, status, doomed, heir, source, sent,
                       wants, cancel, pipe, terminal, allow>>
    BY <1>4 DEF Spawn, Goto
  <2>2. TypeOK' /\ Conserved' /\ Late'
    BY <2>1 DEF TypeOK, ToSend, Conserved, Late
  <2>3. Honest' BY <2>1 DEF Honest, ToSend
  <2>4. Ended' BY <2>1 DEF Ended, CompleteStatuses
  <2> QED BY <2>2, <2>3, <2>4
<1>1. CASE Write
  <2>1. /\ child = "running" /\ wants \in Streams /\ pipe[wants] < PipeCapacity
        /\ ~Closed(wants)
        /\ pipe' = [pipe EXCEPT ![wants] = @ + 1] /\ sent' = [sent EXCEPT ![wants] = @ + 1]
        /\ wants' = "nothing"
        /\ UNCHANGED <<hostVars, child, doomed, heir, source, cancel, reader, terminal, allow>>
    BY <1>1 DEF Write
  <2>2. sent[wants] < ToSend(wants) /\ sent[wants] \in Nat /\ pipe[wants] \in 0 .. PipeCapacity
    BY <2>1 DEF Honest, TypeOK
  <2>3. \A s \in Streams : ToSend(s)' = ToSend(s) /\ ToSend(s) \in Nat
    BY <2>1, StreamAssumption DEF ToSend, TypeOK, Sources
  <2>4. TypeOK'
    <3>1. sent' \in [Streams -> Nat] /\ pipe' \in [Streams -> 0 .. PipeCapacity]
      BY <2>1, <2>2, StreamAssumption DEF TypeOK
    <3>2. \A s \in Streams : sent'[s] <= ToSend(s)'
      BY <2>1, <2>2, <2>3 DEF TypeOK
    <3> QED BY <2>1, <3>1, <3>2 DEF TypeOK, hostVars
  <2>5. Conserved'
    BY <2>1, <2>2 DEF Conserved, TypeOK, hostVars, Streams
  <2>6. Late'
    BY <2>1 DEF Late, hostVars
  <2>7. Honest'
    BY <2>1 DEF Honest, Streams
  <2>8. Ended'
    BY <2>1 DEF Ended, hostVars, StdoutDropped, Closed, CompleteStatuses, TypeOK, Streams
  <2> QED BY <2>4, <2>5, <2>6, <2>7, <2>8
<1>2. CASE BeginWrite
  <2>1. PICK s \in Streams : sent[s] < ToSend(s) /\ wants' = s
    BY <1>2 DEF BeginWrite
  <2>2. UNCHANGED <<hostVars, child, doomed, heir, source, sent, cancel, reader, pipe, terminal, allow>>
    BY <1>2 DEF BeginWrite
  <2>3. TypeOK'
    BY <2>1, <2>2 DEF TypeOK, hostVars, ToSend
  <2>4. Conserved' /\ Late' /\ Ended'
    BY <2>2 DEF Conserved, Late, Ended, hostVars
  <2>5. Honest'
    BY <2>1, <2>2 DEF Honest, ToSend
  <2> QED BY <2>3, <2>4, <2>5
<1>3. CASE Exit \/ BrokenPipe \/ Die
  <2>1. /\ child = "running" /\ child' \in {"zero", "nonzero", "signal"}
        /\ UNCHANGED <<hostVars, doomed, heir, source, sent, wants, cancel, reader, pipe, terminal,
                       allow>>
    BY <1>3 DEF Exit, BrokenPipe, Die
  <2>2. TypeOK'
    BY <2>1 DEF TypeOK, hostVars, ToSend
  <2>3. Conserved' /\ Late'
    BY <2>1 DEF Conserved, Late, hostVars
  <2>4. Honest'
    BY <2>1 DEF Honest, ToSend, Streams
  <2>5. Ended'
    BY <2>1 DEF Ended, hostVars, CompleteStatuses
  <2> QED BY <2>2, <2>3, <2>4, <2>5
<1> QED BY <1>1, <1>2, <1>3, <1>4 DEF Child

LEMMA StepInv == Inv /\ [Next]_vars => Inv'
<1> SUFFICES ASSUME Inv, [Next]_vars PROVE Inv'
  OBVIOUS
<1>1. CASE Next
  BY <1>1, ThreadStep, ReadStep, ChildStep DEF Next, Main, Reader, ReaderNoFault
<1>2. CASE UNCHANGED vars
  <2>1. TypeOK'
    BY <1>2 DEF vars, hostVars, childVars, Inv, TypeOK, ToSend
  <2>2. Conserved' /\ Late' /\ Honest' /\ Ended'
    BY <1>2 DEF vars, hostVars, childVars, Inv, Conserved, Late, Honest, Ended, ToSend
  <2> QED BY <2>1, <2>2 DEF Inv
<1> QED BY <1>1, <1>2

LEMMA Inductive == Spec => []Inv
<1> QED BY InitInv, StepInv, PTL DEF Spec

(* No pipe ever holds more than its capacity, no stream has more than its  *)
(* source gave, and the two threads are where run leaves them.             *)
THEOREM TransferTypes == Spec => []TypeOK
<1>1. Inv => TypeOK
  BY DEF Inv
<1> QED BY <1>1, Inductive, PTL

(* A status that counts as complete means that the child has ended and     *)
(* that the artifact holds all it wrote, whenever and however it ended.    *)
THEOREM CompleteStreams == Spec => []CompletedHoldsAllSent
<1>1. Inv => CompletedHoldsAllSent
  BY DEF Inv, Ended, Conserved, TypeOK, Streams, CompletedHoldsAllSent
<1> QED BY <1>1, Inductive, PTL

(* After the token is set, at most the block of the read in flight is      *)
(* still written.                                                          *)
THEOREM PromptCancel == Spec => []CancelWithinOneBuffer
<1>1. Inv => CancelWithinOneBuffer
  BY DEF Inv, Late, CancelWithinOneBuffer
<1> QED BY <1>1, Inductive, PTL

(* The loop believes that it was cancelled only when it was: with Inv, the *)
(* invariant under which a stream is a Delivery.                           *)
SawToken == cancelled => cancel

LEMMA SawTokenStep == Inv /\ SawToken /\ [Next]_vars => SawToken'
<1> SUFFICES ASSUME Inv, SawToken, [Next]_vars PROVE SawToken'
  OBVIOUS
<1>1. CASE Check
  BY <1>1 DEF Check, SawToken
<1>2. CASE SetToken
  BY <1>2 DEF SetToken, SawToken, hostVars
<1>3. CASE UNCHANGED <<cancelled, cancel>>
  BY <1>3 DEF SawToken
<1>4. CASE \/ Spawn \/ SpawnFails \/ Relay \/ RelayFails \/ EndOfOut \/ Kill \/ Reap
           \/ WaitFails \/ Join
  BY <1>4, <1>3 DEF Spawn, SpawnFails, Relay, RelayFails, EndOfOut, Kill, Reap, WaitFails, Join
<1>5. CASE Reader \/ Child \/ Fork \/ HeirExits \/ Die \/ InterruptChild
  BY <1>5, <1>3 DEF Reader, ReaderNoFault, ReadErr, EndOfErr, ReadErrFails, Child, BeginWrite,
                    Write, Exit, BrokenPipe, Fork, HeirExits, Die, InterruptChild, hostVars
<1>6. CASE UNCHANGED vars
  BY <1>6, <1>3 DEF vars, hostVars
<1> QED BY <1>1, <1>2, <1>4, <1>5, <1>6 DEF Next, Main

(* A read takes no more than the child wrote.                              *)
LEMMA TakeStep == ASSUME Inv, Relay PROVE D!Take
<1>1. PICK n \in 1 .. pipe["out"] : relayed' = relayed + n
  BY DEF Relay
<1>2. /\ relayed \in Nat /\ pipe["out"] \in Nat /\ sent["out"] \in Nat
      /\ relayed + pipe["out"] = sent["out"]
  BY StreamAssumption DEF Inv, TypeOK, Streams, Conserved
<1>3. relayed + n \in relayed + 1 .. sent["out"]
  BY <1>1, <1>2
<1>4. status = "none"
  BY DEF Inv, TypeOK, Ended, Relay
<1>5. UNCHANGED <<sent, cancel, status>>
  BY DEF Relay, childVars
<1> QED BY <1>1, <1>3, <1>4, <1>5 DEF D!Take

(* A block the child writes is one more given, and none is given once the  *)
(* stream is over.                                                         *)
LEMMA GiveStep == ASSUME Inv, Write PROVE D!Give \/ UNCHANGED D!vars
<1>1. /\ child = "running" /\ wants \in Streams /\ ~Closed(wants)
      /\ sent' = [sent EXCEPT ![wants] = @ + 1]
      /\ UNCHANGED <<cancel, relayed, status>>
  BY DEF Write, hostVars
<1>2. CASE wants = "err"
  <2>1. sent'["out"] = sent["out"] BY <1>1, <1>2 DEF Inv, TypeOK, Streams
  <2> QED BY <1>1, <2>1 DEF D!vars
<1>3. CASE wants = "out"
  <2>1. sent'["out"] = sent["out"] + 1 /\ sent["out"] \in Nat
    BY <1>1, <1>3 DEF Inv, TypeOK, Streams
  <2>2. sent["out"] < source.blocks /\ source.blocks \in 0 .. MaxBlocks
    BY <1>1, <1>3 DEF Inv, TypeOK, Honest, ToSend, Sources, Streams
  <2>3. sent["out"] < MaxBlocks BY <2>1, <2>2, StreamAssumption
  <2>4. status = "none" BY <1>1, <1>3 DEF Inv, Ended, Closed, StdoutDropped
  <2> QED BY <1>1, <2>1, <2>3, <2>4 DEF D!Give
<1> QED BY <1>1, <1>2, <1>3 DEF Streams

(* The status is given at the join, when the stream is over, or when there *)
(* is no child to be had.                                                  *)
LEMMA TellStep ==
  ASSUME Inv, Inv', SawToken, Join \/ SpawnFails
  PROVE  \E v \in {"completed", "completed_with_errors", "cancelled", "failed", "relay_error"} :
           D!Tell(v)
<1>1. status = "none"
  BY DEF Inv, TypeOK, Ended, Join, SpawnFails
<1>2. CASE SpawnFails
  <2>1. D!Tell("relay_error") BY <1>1, <1>2 DEF SpawnFails, childVars, D!Tell
  <2> QED BY <2>1
<1>3. CASE Join
  <2>1. status' = StatusOf /\ UNCHANGED <<sent, cancel, relayed>>
    BY <1>3 DEF Join, childVars
  <2>2. StatusOf \in {"completed", "completed_with_errors", "cancelled", "failed", "relay_error"}
    BY DEF StatusOf
  <2>3. StatusOf \in CompleteStatuses => relayed = sent["out"]
    BY <1>3 DEF StatusOf, CompleteStatuses, Inv, Ended, Join, Conserved, TypeOK, Streams
  <2>4. StatusOf = "completed_with_errors" => relayed > 0
    BY DEF StatusOf
  <2>5. StatusOf = "cancelled" => cancel
    BY DEF StatusOf, SawToken
  <2>6. D!Tell(StatusOf)
    BY <1>1, <2>1, <2>3, <2>4, <2>5 DEF D!Tell, CompleteStatuses
  <2> QED BY <2>2, <2>6
<1> QED BY <1>2, <1>3

(* Every other step is one the command above the stream does not see.      *)
LEMMA DeliveryStep == Inv /\ Inv' /\ SawToken /\ [Next]_vars => [D!Next]_(D!vars)
<1> SUFFICES ASSUME Inv, Inv', SawToken, [Next]_vars PROVE D!Next \/ UNCHANGED D!vars
  OBVIOUS
<1>1. CASE Relay
  BY <1>1, TakeStep DEF D!Next
<1>2. CASE Join \/ SpawnFails
  BY <1>2, TellStep DEF D!Next
<1>3. CASE SetToken
  <2>1. ~cancel /\ cancel' = TRUE /\ UNCHANGED <<sent, relayed, status>> /\ main # "done"
    BY <1>3 DEF SetToken, hostVars, childVars
  <2>2. status = "none"
    BY <2>1 DEF Inv, Ended
  <2> QED BY <2>1, <2>2 DEF D!Cancel, D!Next
<1>4. CASE UNCHANGED <<sent, cancel, relayed, status>>
  BY <1>4 DEF D!vars
<1>5. CASE Spawn \/ Check \/ RelayFails \/ EndOfOut \/ Kill \/ Reap \/ WaitFails
  BY <1>5, <1>4 DEF Spawn, Check, RelayFails, EndOfOut, Kill, Reap, WaitFails, childVars
<1>6. CASE Write
  BY <1>6, GiveStep DEF D!Next
<1>7. CASE \/ Reader \/ BeginWrite \/ Exit \/ BrokenPipe \/ Fork \/ HeirExits \/ Die
           \/ InterruptChild
  BY <1>7, <1>4 DEF Reader, ReaderNoFault, ReadErr, EndOfErr, ReadErrFails, BeginWrite, Exit,
                    BrokenPipe, Fork, HeirExits, Die, InterruptChild, hostVars, childVars
<1>8. CASE UNCHANGED vars
  BY <1>8, <1>4 DEF vars, hostVars, childVars
<1> QED BY <1>1, <1>2, <1>3, <1>5, <1>6, <1>7, <1>8 DEF Next, Main, Child

LEMMA DeliveryInit == Init => D!Init
BY DEF Init, D!Init, Streams

(* Whatever its threads, its child and the operator do, a stream gives one *)
(* verdict, and the verdict is true of what was given, of what was taken   *)
(* and of the token.                                                       *)
THEOREM ImplementsDelivery == Spec => RefinesDelivery
<1>1. Init => SawToken
  BY DEF Init, SawToken
<1> QED BY <1>1, Inductive, StepInv, SawTokenStep, DeliveryStep, DeliveryInit, InitInv,
           PTL DEF Spec, RefinesDelivery, D!Spec

-----------------------------------------------------------------------------
(* Termination, up to fairness.  StoppedMeansEnded and NoStreamDeadlock    *)
(* are beyond the prover as they stand; what makes them true is not: a     *)
(* party that can move is there until the stream is over, and every step   *)
(* uses up one of finitely many.                                           *)

(* What a step of each party asks of the state: the guards of MainNoFault, *)
(* ReaderNoFault, Child and Die.                                           *)
MainCanMove ==
    \/ main \in {"spawn", "check", "kill"}
    \/ main = "read" /\ (pipe["out"] > 0 \/ AtEnd("out"))
    \/ main = "reap" /\ child # "running"
    \/ main = "join" /\ reader \in {"ended", "failed"}
ReaderCanMove == reader = "reading" /\ (pipe["err"] > 0 \/ AtEnd("err"))
ChildCanMove ==
    /\ child = "running"
    /\ \/ wants = "nothing"
       \/ wants \in Streams /\ (Closed(wants) \/ pipe[wants] < PipeCapacity)
HeirHolds == heir = "alive"
SignalPending == child = "running" /\ doomed

(* Past the kill a child that still runs has its signal; the stderr thread *)
(* stays until the child has ended; what is in a pipe was sent.            *)
Parties ==
    /\ reader = "none" => main \in {"spawn", "done"}
    /\ main = "spawn" => reader = "none" /\ child = "none"
    /\ main \in {"reap", "join"} /\ child = "running" => doomed
    /\ reader = "ended" => child # "running"
    /\ pipe["err"] <= sent["err"]

LEMMA PartiesInit == Init => Parties
BY DEF Init, Parties, Streams

LEMMA PartiesStep == Inv /\ Parties /\ [Next]_vars => Parties'
<1> SUFFICES ASSUME Inv, Parties, [Next]_vars PROVE Parties'
  OBVIOUS
<1>1. CASE UNCHANGED vars BY <1>1 DEF vars, hostVars, childVars, Parties
<1>8. CASE Spawn BY <1>8 DEF Spawn, Parties, Goto
<1>9. CASE SpawnFails BY <1>9 DEF SpawnFails, Parties, Goto, childVars
<1>2. CASE Main /\ ~Spawn /\ ~SpawnFails
  <2>1. UNCHANGED <<child, reader, sent>> /\ (doomed => doomed')
    <3>1. CASE Kill BY <3>1 DEF Kill
    <3>2. CASE ~Kill
      <4>1. UNCHANGED childVars /\ UNCHANGED reader
        BY <1>2, <3>2 DEF Main, Check, Relay, RelayFails, EndOfOut, Reap, WaitFails, Join
      <4>2. QED BY <4>1 DEF childVars
    <3>3. QED BY <3>1, <3>2
  <2>2. pipe'["err"] = pipe["err"]
    <3>1. CASE Relay BY <3>1 DEF Relay, Inv, TypeOK, Streams
    <3>2. CASE ~Relay
      BY <1>2, <3>2 DEF Main, Check, RelayFails, EndOfOut, Kill, Reap, WaitFails, Join
    <3>3. QED BY <3>1, <3>2
  <2>3. main' \in {"reap", "join"} /\ child' = "running" => doomed'
    BY <1>2, <2>1 DEF Main, Check, Relay, RelayFails, EndOfOut, AtEnd, Kill, Reap, WaitFails, Join,
                      Goto, Parties
  <2>4. main \notin {"spawn", "done"} /\ main' # "spawn"
    BY <1>2 DEF Main, Check, Relay, RelayFails, EndOfOut, Kill, Reap, WaitFails, Join, Goto
  <2>5. QED BY <2>1, <2>2, <2>3, <2>4 DEF Parties
<1>3. CASE Reader
  <2>1. pipe'["err"] \in Nat /\ pipe'["err"] <= pipe["err"] /\ UNCHANGED sent
    BY <1>3, StreamAssumption
    DEF Reader, ReaderNoFault, ReadErr, EndOfErr, ReadErrFails, Inv, TypeOK, Streams, childVars
  <2>2. pipe["err"] \in Nat /\ sent["err"] \in Nat BY DEF Inv, TypeOK, Streams
  <2>3. reader = "reading" /\ reader' # "none" /\ (reader' = "ended" => child # "running")
    BY <1>3 DEF Reader, ReaderNoFault, ReadErr, EndOfErr, ReadErrFails, AtEnd
  <2>4. UNCHANGED <<main, child, doomed>>
    BY <1>3 DEF Reader, ReaderNoFault, ReadErr, EndOfErr, ReadErrFails, hostVars, childVars
  <2>5. QED BY <2>1, <2>2, <2>3, <2>4 DEF Parties
<1>4. CASE Write BY <1>4 DEF Write, Parties, Inv, TypeOK, Streams, hostVars
<1>5. CASE BeginWrite \/ Exit \/ BrokenPipe \/ Fork \/ HeirExits \/ Die
  BY <1>5 DEF BeginWrite, Exit, BrokenPipe, Fork, HeirExits, Die, Parties, hostVars
<1>6. CASE SetToken \/ InterruptChild
  BY <1>6 DEF SetToken, InterruptChild, Parties, hostVars, childVars
<1>7. QED BY <1>1, <1>2, <1>3, <1>4, <1>5, <1>6, <1>8, <1>9 DEF Next, Child

LEMMA PartiesInvariance == Spec => [](Inv /\ Parties)
BY PartiesInit, PartiesStep, Inductive, PTL DEF Spec

(* Until the stream is over the calling thread, the stderr thread or the   *)
(* child can move, or an heir of the child has yet to end: nobody waits on *)
(* a full pipe that nobody drains.                                         *)
SomebodyCanMove ==
    main # "done" => MainCanMove \/ ReaderCanMove \/ ChildCanMove \/ HeirHolds

(* The relay loop, the stderr thread and the child are never all three     *)
(* blocked, however much the child writes to either stream, unless by an   *)
(* heir of the child.                                                      *)
THEOREM NeverAllBlocked == Spec => []SomebodyCanMove
<1>1. ASSUME Inv, Parties, main # "done"
      PROVE  MainCanMove \/ ReaderCanMove \/ ChildCanMove \/ HeirHolds
  <2>1. /\ main \in {"spawn", "check", "read", "kill", "reap", "join"}
        /\ reader \in {"none", "reading", "ended", "failed"}
        /\ wants \in {"out", "err", "nothing"}
        /\ pipe["out"] \in 0 .. PipeCapacity /\ pipe["err"] \in 0 .. PipeCapacity
    BY <1>1 DEF Inv, TypeOK, Streams
  <2>2. pipe["out"] > 0 \/ pipe["out"] < PipeCapacity BY <2>1, StreamAssumption
  <2>3. pipe["err"] > 0 \/ pipe["err"] < PipeCapacity BY <2>1, StreamAssumption
  <2>4. CASE child # "running"
    BY <1>1, <2>1, <2>4 DEF Parties, MainCanMove, ReaderCanMove, AtEnd, HeirHolds
  <2>5. CASE child = "running"
    <3>1. CASE main \in {"spawn", "check", "kill"} BY <3>1 DEF MainCanMove
    <3>2. CASE main \in {"read", "reap", "join"}
      <4>1. reader \in {"reading", "failed"} BY <1>1, <2>1, <2>5, <3>2 DEF Parties
      <4>2. wants = "nothing" \/ Closed(wants) => ChildCanMove
        BY <2>1, <2>5 DEF ChildCanMove, Streams
      <4>3. CASE wants = "out" /\ ~Closed(wants)
        BY <2>1, <2>2, <2>5, <3>2, <4>3
        DEF MainCanMove, ChildCanMove, Closed, StdoutDropped, Streams
      <4>4. CASE wants = "err" /\ ~Closed(wants)
        BY <2>1, <2>3, <2>5, <4>1, <4>4 DEF ReaderCanMove, ChildCanMove, Closed, Streams
      <4>5. QED BY <2>1, <4>2, <4>3, <4>4
    <3>3. QED BY <1>1, <2>1, <3>1, <3>2
  <2>6. QED BY <2>4, <2>5
<1>2. QED BY <1>1, PartiesInvariance, PTL DEF SomebodyCanMove

(* Once the stream was stopped, nothing more is needed of the child: one   *)
(* of the two threads can move, or the signal that ends the child is on    *)
(* its way, or an heir still holds the pipe of the stderr thread.          *)
StopCanMove ==
    main \in {"kill", "reap", "join"} =>
        MainCanMove \/ ReaderCanMove \/ SignalPending \/ HeirHolds

(* A stream that was cancelled, or whose relay failed, comes to its end    *)
(* without the child doing anything but dying, if it left no heir.         *)
THEOREM StopNeedsNoChild == Spec => []StopCanMove
<1>1. ASSUME Inv, Parties PROVE StopCanMove
  <2>1. reader \in {"none", "reading", "ended", "failed"} /\ pipe["err"] \in 0 .. PipeCapacity
    BY <1>1 DEF Inv, TypeOK, Streams
  <2>2. pipe["err"] = 0 \/ pipe["err"] > 0 BY <2>1, StreamAssumption
  <2>3. QED
    BY <1>1, <2>1, <2>2
    DEF Parties, StopCanMove, MainCanMove, ReaderCanMove, SignalPending, AtEnd, HeirHolds
<1>2. QED BY <1>1, PartiesInvariance, PTL

(* What is left to do, of each party and in all.                           *)
MainLeft ==
    CASE main = "spawn" -> 6 [] main = "check" -> 5 [] main = "read" -> 4 [] main = "kill" -> 3 [] main = "reap" -> 2
      [] main = "join" -> 1 [] OTHER -> 0
HeirLeft == CASE heir = "none" -> 2 [] heir = "alive" -> 1 [] OTHER -> 0
Bit(b) == IF b THEN 1 ELSE 0
PartiesLeft ==
    MainLeft + HeirLeft + Bit(reader \in {"none", "reading"}) + Bit(child \in {"none", "running"})
      + Bit(~cancel) + Bit(~doomed)
StreamLeft(s) == 4 * (ToSend(s) - sent[s]) + 2 * pipe[s]
Left == PartiesLeft + Bit(wants = "nothing") + StreamLeft("out") + StreamLeft("err")
MostSteps == 13 + 4 * (MaxBlocks + MaxNoise)

LEMMA PartiesLeftInt == ASSUME TypeOK PROVE MainLeft \in 0 .. 6 /\ HeirLeft \in 0 .. 2 /\ PartiesLeft \in 0 .. 12
<1>1. MainLeft \in 0 .. 6 /\ HeirLeft \in 0 .. 2 BY DEF MainLeft, HeirLeft, TypeOK
<1>2. /\ Bit(reader \in {"none", "reading"}) \in 0 .. 1
      /\ Bit(child \in {"none", "running"}) \in 0 .. 1
      /\ Bit(~cancel) \in 0 .. 1 /\ Bit(~doomed) \in 0 .. 1
  BY DEF Bit
<1>3. QED BY <1>1, <1>2 DEF PartiesLeft

LEMMA StreamTypes ==
    ASSUME TypeOK, NEW s \in Streams
    PROVE  ToSend(s) \in Nat /\ sent[s] \in Nat /\ pipe[s] \in Nat /\ sent[s] <= ToSend(s)
BY StreamAssumption DEF TypeOK, ToSend, Sources

LEMMA StreamLeftInt == ASSUME TypeOK, NEW s \in Streams PROVE StreamLeft(s) \in Int
BY StreamTypes DEF StreamLeft

LEMMA LeftBounded == ASSUME Inv, Parties PROVE Left \in 0 .. MostSteps
<1>0. TypeOK BY DEF Inv
<1>1. pipe["out"] <= sent["out"]
  BY <1>0, StreamTypes DEF Inv, Conserved, TypeOK, Streams
<1>2. ASSUME NEW s \in Streams PROVE StreamLeft(s) \in 0 .. 4 * ToSend(s)
  <2>1. pipe[s] <= sent[s] BY <1>1 DEF Parties, Streams
  <2>2. QED BY <1>0, <2>1, StreamTypes DEF StreamLeft
<1>3. ToSend("out") \in 0 .. MaxBlocks /\ ToSend("err") \in 0 .. MaxNoise
  BY <1>0 DEF TypeOK, ToSend, Sources
<1>4. StreamLeft("out") \in 0 .. 4 * MaxBlocks /\ StreamLeft("err") \in 0 .. 4 * MaxNoise
  BY <1>2, <1>3, StreamAssumption DEF Streams
<1>5. Bit(wants = "nothing") \in 0 .. 1 BY DEF Bit
<1>6. QED BY <1>0, <1>4, <1>5, PartiesLeftInt, StreamAssumption DEF Left, MostSteps

(* A step that moves no block: some party has less to do, and none more.   *)
LEMMA ThreadCounts ==
    ASSUME TypeOK, TypeOK', Parties,
           Spawn \/ SpawnFails \/ Check \/ RelayFails \/ EndOfOut \/ Kill \/ Reap \/ WaitFails
             \/ Join \/ EndOfErr \/ ReadErrFails \/ Exit \/ BrokenPipe \/ Fork \/ HeirExits
             \/ Die \/ SetToken \/ InterruptChild
    PROVE  Left' < Left
<1>1. UNCHANGED <<Bit(wants = "nothing"), StreamLeft("out"), StreamLeft("err")>>
  BY DEF Spawn, SpawnFails, Check, RelayFails, EndOfOut, Kill, Reap, WaitFails, Join, EndOfErr,
         ReadErrFails, Exit, BrokenPipe, Fork, HeirExits, Die, SetToken, InterruptChild,
         childVars, Bit, StreamLeft, ToSend
<1>2. PartiesLeft' \in Int /\ PartiesLeft' < PartiesLeft
  <2>1. CASE SpawnFails \/ Check \/ RelayFails \/ EndOfOut \/ Reap \/ WaitFails \/ Join
    <3>1. MainLeft' \in Int /\ MainLeft' < MainLeft
      BY <2>1 DEF SpawnFails, Check, RelayFails, EndOfOut, Reap, WaitFails, Join, Goto, MainLeft
    <3>2. UNCHANGED <<reader, child, cancel, doomed, heir>>
      BY <2>1 DEF SpawnFails, Check, RelayFails, EndOfOut, Reap, WaitFails, Join, childVars
    <3>3. QED BY <3>1, <3>2, PartiesLeftInt DEF PartiesLeft, Bit, HeirLeft
  <2>2. CASE Kill
    <3>1. MainLeft' = MainLeft - 1 BY <2>2 DEF Kill, Goto, MainLeft
    <3>2. UNCHANGED <<reader, child, cancel, heir>> /\ (doomed => doomed') BY <2>2 DEF Kill
    <3>3. QED BY <3>1, <3>2, PartiesLeftInt DEF PartiesLeft, Bit, HeirLeft
  <2>5. CASE Spawn
    <3>1. MainLeft' = MainLeft - 1 BY <2>5 DEF Spawn, Goto, MainLeft
    <3>2. UNCHANGED <<cancel, doomed, heir>> /\ reader' = "reading" /\ child' = "running"
      BY <2>5 DEF Spawn
    <3>3. reader = "none" /\ child = "none" BY <2>5 DEF Spawn, Parties
    <3>4. QED BY <3>1, <3>2, <3>3, PartiesLeftInt DEF PartiesLeft, Bit, HeirLeft
  <2>3. CASE \/ EndOfErr \/ ReadErrFails \/ Exit \/ BrokenPipe \/ Fork \/ HeirExits \/ Die
             \/ SetToken \/ InterruptChild
    <3>1. UNCHANGED main
      BY <2>3 DEF EndOfErr, ReadErrFails, Exit, BrokenPipe, Fork, HeirExits, Die, SetToken,
                  InterruptChild, hostVars
    <3>2. MainLeft' = MainLeft BY <3>1 DEF MainLeft
    <3>3. CASE EndOfErr \/ ReadErrFails
      BY <3>3, <3>2, PartiesLeftInt
      DEF EndOfErr, ReadErrFails, childVars, PartiesLeft, Bit, HeirLeft
    <3>4. CASE Exit \/ BrokenPipe \/ Die
      BY <3>4, <3>2, PartiesLeftInt DEF Exit, BrokenPipe, Die, PartiesLeft, Bit, HeirLeft
    <3>5. CASE SetToken \/ InterruptChild
      BY <3>5, <3>2, PartiesLeftInt
      DEF SetToken, InterruptChild, childVars, PartiesLeft, Bit, HeirLeft
    <3>6. CASE Fork \/ HeirExits
      <4>1. HeirLeft' = HeirLeft - 1 BY <3>6 DEF Fork, HeirExits, HeirLeft
      <4>2. QED BY <3>6, <3>2, <4>1, PartiesLeftInt DEF Fork, HeirExits, PartiesLeft, Bit
    <3>7. QED BY <2>3, <3>3, <3>4, <3>5, <3>6
  <2>4. QED BY <2>1, <2>2, <2>3, <2>5
<1>3. Bit(wants = "nothing") \in Int BY DEF Bit
<1>4. QED BY <1>1, <1>2, <1>3, PartiesLeftInt, StreamLeftInt DEF Left, Streams

(* A block that is sent or taken has less way to go.                       *)
LEMMA BlockCounts ==
    ASSUME TypeOK, TypeOK', Relay \/ ReadErr \/ BeginWrite \/ Write PROVE Left' < Left
<1>0. StreamLeft("out") \in Int /\ StreamLeft("err") \in Int BY StreamLeftInt DEF Streams
<1>1. CASE Relay
  <2>1. PICK n \in 1 .. pipe["out"] : pipe' = [pipe EXCEPT !["out"] = @ - n] BY <1>1 DEF Relay
  <2>2. n \in Nat /\ n > 0 BY <2>1, StreamTypes DEF Streams
  <2>3. UNCHANGED <<source, sent, reader, child, cancel, doomed, heir, wants>>
    BY <1>1 DEF Relay, childVars
  <2>4. StreamLeft("out")' = StreamLeft("out") - 2 * n /\ StreamLeft("err")' = StreamLeft("err")
    BY <2>1, <2>2, <2>3, StreamTypes DEF StreamLeft, ToSend, Streams, TypeOK
  <2>5. MainLeft' = MainLeft + 1 BY <1>1 DEF Relay, Goto, MainLeft
  <2>6. PartiesLeft' = PartiesLeft + 1 BY <2>3, <2>5, PartiesLeftInt DEF PartiesLeft, Bit, HeirLeft
  <2>7. Bit(wants = "nothing")' = Bit(wants = "nothing") /\ Bit(wants = "nothing") \in Int
    BY <2>3 DEF Bit
  <2>8. QED BY <1>0, <2>2, <2>4, <2>6, <2>7, PartiesLeftInt DEF Left
<1>2. CASE ReadErr
  <2>1. PICK n \in 1 .. pipe["err"] : pipe' = [pipe EXCEPT !["err"] = @ - n] BY <1>2 DEF ReadErr
  <2>2. n \in Nat /\ n > 0 BY <2>1, StreamTypes DEF Streams
  <2>3. UNCHANGED <<main, source, sent, reader, child, cancel, doomed, heir, wants>>
    BY <1>2 DEF ReadErr, hostVars, childVars
  <2>4. StreamLeft("err")' = StreamLeft("err") - 2 * n /\ StreamLeft("out")' = StreamLeft("out")
    BY <2>1, <2>2, <2>3, StreamTypes DEF StreamLeft, ToSend, Streams, TypeOK
  <2>5. PartiesLeft' = PartiesLeft BY <2>3 DEF PartiesLeft, MainLeft, HeirLeft, Bit
  <2>6. Bit(wants = "nothing")' = Bit(wants = "nothing") /\ Bit(wants = "nothing") \in Int
    BY <2>3 DEF Bit
  <2>7. QED BY <1>0, <2>2, <2>4, <2>5, <2>6, PartiesLeftInt DEF Left
<1>3. CASE BeginWrite \/ Write
  <2>1. UNCHANGED <<main, source, reader, child, cancel, doomed, heir>>
    BY <1>3 DEF BeginWrite, Write, hostVars
  <2>2. PartiesLeft' = PartiesLeft BY <2>1 DEF PartiesLeft, MainLeft, HeirLeft, Bit
  <2>3. CASE BeginWrite
    <3>1. UNCHANGED <<StreamLeft("out"), StreamLeft("err")>>
      BY <2>3 DEF BeginWrite, StreamLeft, ToSend
    <3>2. Bit(wants = "nothing")' = 0 /\ Bit(wants = "nothing") = 1
      BY <2>3 DEF BeginWrite, Bit, Streams
    <3>3. QED BY <1>0, <2>2, <3>1, <3>2, PartiesLeftInt DEF Left
  <2>4. CASE Write
    <3>1. ASSUME NEW s \in Streams
          PROVE  StreamLeft(s)' = IF s = wants THEN StreamLeft(s) - 2 ELSE StreamLeft(s)
      BY <2>1, <2>4, StreamTypes DEF Write, StreamLeft, ToSend, TypeOK
    <3>2. wants \in {"out", "err"} BY <2>4 DEF Write, Streams
    <3>3. StreamLeft("out")' + StreamLeft("err")' = StreamLeft("out") + StreamLeft("err") - 2
      BY <1>0, <3>1, <3>2 DEF Streams
    <3>4. StreamLeft("out")' \in Int /\ StreamLeft("err")' \in Int BY <1>0, <3>1 DEF Streams
    <3>5. Bit(wants = "nothing")' = 1 /\ Bit(wants = "nothing") = 0
      BY <2>4 DEF Write, Bit, Streams
    <3>6. QED BY <1>0, <2>2, <3>3, <3>4, <3>5, PartiesLeftInt DEF Left
  <2>5. QED BY <1>3, <2>3, <2>4
<1>4. QED BY <1>1, <1>2, <1>3

(* Every step, the operator's too, uses up at least one of what is left,   *)
(* and there are never more than MostSteps left: no behaviour of a stream  *)
(* is longer, so that whoever keeps moving gets to the end.                *)
EveryStepCounts == [][Left' < Left]_vars

(* A stream has a bounded number of steps, whoever takes them.             *)
THEOREM StreamsAreFinite == Spec => [](Left \in 0 .. MostSteps) /\ EveryStepCounts
<1>1. Inv /\ Parties => Left \in 0 .. MostSteps BY LeftBounded
<1>2. ASSUME Inv, Inv', Parties, Next PROVE Left' < Left
  <2>1. TypeOK /\ TypeOK' BY <1>2 DEF Inv
  <2>2. QED BY <1>2, <2>1, ThreadCounts, BlockCounts DEF Next, Main, Reader, ReaderNoFault, Child
<1>3. QED BY <1>1, <1>2, Inductive, PartiesInvariance, PTL DEF Spec, EveryStepCounts

-----------------------------------------------------------------------------
(* InterruptedNeverComplete is false (run interrupted_complete), and this  *)
(* is how far: without a terminal that is shared with the child, only the  *)
(* tool itself ends the child by a signal, and then it knows why; without  *)
(* --allow-source-read-errors only exit code 0 completes.                  *)
Signalled ==
    /\ doomed => terminal \/ cancelled \/ relayError
    /\ child = "signal" => terminal \/ cancelled \/ relayError \/ reader = "failed"
    /\ status \in CompleteStatuses => ~cancelled /\ ~relayError
    /\ status = "completed_with_errors" => allow
    /\ main = "done" /\ child = "running" => relayError
    /\ main \in {"spawn", "check", "read"} => ~cancelled /\ ~relayError
    /\ main = "spawn" => child = "none"

LEMMA SignalledInit == Init => Signalled
BY DEF Init, Signalled, CompleteStatuses

LEMMA SignalledStep == Inv /\ Signalled /\ [Next]_vars => Signalled'
<1> SUFFICES ASSUME Inv, Signalled, [Next]_vars PROVE Signalled'
  OBVIOUS
<1> USE DEF Signalled, CompleteStatuses
<1>1. CASE Main /\ ~Spawn /\ ~SpawnFails
  <2>1. UNCHANGED <<child, reader, terminal, allow>>
    BY <1>1 DEF Main, Check, Relay, RelayFails, EndOfOut, Kill, Reap, WaitFails, Join, childVars
  <2>2. CASE Check \/ RelayFails \/ WaitFails
    BY <2>1, <2>2 DEF Check, RelayFails, WaitFails, Goto, childVars, Inv, Ended
  <2>3. CASE Relay \/ EndOfOut \/ Reap
    BY <2>1, <2>3 DEF Relay, EndOfOut, Reap, Goto, childVars
  <2>4. CASE Kill BY <2>1, <2>4 DEF Kill, Goto, Inv, Ended
  <2>5. CASE Join BY <2>1, <2>5 DEF Join, Goto, StatusOf, childVars, Inv, Ended
  <2>6. QED BY <1>1, <2>2, <2>3, <2>4, <2>5 DEF Main
<1>2. CASE Reader \/ Fork \/ HeirExits \/ SetToken \/ InterruptChild
  BY <1>2 DEF Reader, ReaderNoFault, ReadErr, EndOfErr, ReadErrFails, Fork, HeirExits, SetToken,
              InterruptChild, hostVars, childVars
<1>3. CASE BeginWrite \/ Write \/ Exit \/ Die
  BY <1>3 DEF BeginWrite, Write, Exit, Die, hostVars
<1>4. CASE BrokenPipe
  <2>1. child = "running" /\ (main \in {"reap", "join", "done"} \/ reader = "failed")
    BY <1>4 DEF BrokenPipe, Closed, StdoutDropped
  <2>2. main \in {"reap", "join"} => cancelled \/ relayError BY <2>1 DEF Inv, Ended
  <2>3. QED BY <1>4, <2>1, <2>2 DEF BrokenPipe, hostVars
<1>7. CASE Spawn BY <1>7 DEF Spawn, Goto
<1>8. CASE SpawnFails BY <1>8 DEF SpawnFails, Goto, childVars
<1>5. CASE UNCHANGED vars BY <1>5 DEF vars, hostVars, childVars
<1>6. QED BY <1>1, <1>2, <1>3, <1>4, <1>5, <1>7, <1>8 DEF Next, Child

LEMMA SignalledInvariance == Spec => [](Inv /\ Signalled)
BY SignalledInit, SignalledStep, Inductive, PTL DEF Spec

(* A transfer whose child a signal ended never completes, unless the child *)
(* shares the terminal and read errors are allowed: the finding needs both.*)
OnlyOnATerminal == ~(terminal /\ allow) => InterruptedNeverComplete

(* RESUMABILITY.md:57, that an interrupted transfer never exits 0, holds   *)
(* of every transfer off the terminal, and of every one without --allow-   *)
(* source-read-errors.                                                     *)
THEOREM InterruptedOnATerminalOnly == Spec => []OnlyOnATerminal
<1>1. Inv /\ Signalled => OnlyOnATerminal
  BY DEF Inv, Ended, Signalled, OnlyOnATerminal, InterruptedNeverComplete, CompleteStatuses
<1>2. QED BY <1>1, SignalledInvariance, PTL
====
