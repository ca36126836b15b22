--------------------------- MODULE MCEvidenceStore ---------------------------
(***************************************************************************)
(* Instances of EvidenceStore.  a and b are two acquisitions of the same   *)
(* artifact name; c acquires another item whose evidence id starts with    *)
(* the id of a and b (EV-1 and EV-10), so that their residue covers its    *)
(* files, and whose source is empty; d belongs to another case.            *)
(***************************************************************************)
EXTENDS EvidenceStore, TLC

CONSTANTS a, b, c, d, n1, n10, case1, case2

MCCases == {case1, case2}
MCNames == {n1, n10}
MCNameOf == [w \in Ops |-> IF w = c THEN n10 ELSE n1]
MCAdopts == [w \in Ops |-> IF w = c THEN {n10} ELSE {n1, n10}]
MCCaseOf == [w \in Ops |-> IF w = d THEN case2 ELSE case1]
MCSizeOf == [w \in Ops |-> IF w = c THEN 0 ELSE MaxChunks]
MCPostVerify == Ops \ {b, c}

(* One manifest name per operation: its id is a millisecond time stamp.    *)
OwnManifest == [w \in Ops |-> w]
====
