----------------------------- MODULE MCDerivation -----------------------------
(***************************************************************************)
(* An instance of Derivation in which a block is longer than a segment and *)
(* shorter than two, so that it straddles one boundary or two, and the     *)
(* source may grow past the last segment number after its size was taken.  *)
(***************************************************************************)
EXTENDS Derivation

CONSTANTS case1, case2

MCUnits == {0, 1}
MCCases == {case1, case2}
MCMaxSize == SegmentSize * MaxSegments + 1
====
