------------------------------- MODULE Custody -------------------------------
(***************************************************************************)
(* What a case directory promises, without files, buffers or retries.      *)
(*                                                                         *)
(* A name under original/ is sealed at most once, by the operation that    *)
(* was to fill it, and stays sealed by it for ever.  The ledger of         *)
(* manifests holds at most one entry per operation and an entry is never   *)
(* changed; it names only files that are sealed, each as the work of the   *)
(* operation that sealed it; an operation seals nothing after its entry,   *)
(* and an entry says "complete" only of an operation that has sealed its   *)
(* name, and names that file.  EvidenceStore is the implementation.        *)
(***************************************************************************)
CONSTANTS Ops, Names, NameOf, None

VARIABLES
    sealed,   \* [Names -> Ops \cup {None}]: who published the file
    ledger    \* [Ops -> Entries \cup {None}]: its manifest

Entries == [status : {"complete", "incomplete"}, files : SUBSET (Names \X Ops)]

vars == <<sealed, ledger>>

Init ==
    /\ sealed = [n \in Names |-> None]
    /\ ledger = [w \in Ops |-> None]

Seal(w) ==
    /\ sealed[NameOf[w]] = None
    /\ ledger[w] = None
    /\ sealed' = [sealed EXCEPT ![NameOf[w]] = w]
    /\ UNCHANGED ledger

Holdings == {<<n, sealed[n]>> : n \in {m \in Names : sealed[m] # None}}

Enter(w, s, files) ==
    /\ ledger[w] = None
    /\ files \subseteq Holdings
    /\ s = "complete" => <<NameOf[w], w>> \in files
    /\ ledger' = [ledger EXCEPT ![w] = [status |-> s, files |-> files]]
    /\ UNCHANGED sealed

Next ==
    \E w \in Ops :
        \/ Seal(w)
        \/ \E s \in {"complete", "incomplete"}, files \in SUBSET Holdings : Enter(w, s, files)

Spec == Init /\ [][Next]_vars
====
