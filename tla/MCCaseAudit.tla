------------------------------ MODULE MCCaseAudit ------------------------------
(* A case with an image and its manifest, an acquisition of another image and *)
(* one that fails beside it, a conversion of the first image into at most two *)
(* segments, and a working file.                                              *)
EXTENDS CaseAudit

MCPaths == {"o1", "o2", "o2.partial", "d.E01", "d.E02", "w"}
MCClassOrder == <<"original", "derived", "working">>
MCClassOf == [p \in MCPaths |->
    CASE p \in {"d.E01", "d.E02"} -> "derived" [] p = "w" -> "working" [] OTHER -> "original"]
MCContents == {"part", "whole", "other"}
MCSegmentPath == [i \in 1 .. MaxSegments |-> IF i = 1 THEN "d.E01" ELSE "d.E02"]
MCSlotOf == [a \in 1 .. MaxAttempts |-> a + 1]
MCExposed == {"o1", "d.E01"}
Acquired == [valid |-> TRUE, records |-> {[path |-> "o1", content |-> "whole"]}]
Damaged == [valid |-> FALSE, records |-> {}]
At(S, d) == [m \in 1 .. Slots |-> IF m \in S THEN d ELSE None]
MCStarts ==
    [source : {"whole"}, manifests : {At({1}, Acquired)}, stray : {None, "other"}]
      \cup [source : {"other", None, Link}, manifests : {At({1}, Acquired)}, stray : {None}]
      \cup [source : {"whole"}, manifests : {At({}, None), At({1}, Damaged), At({1, 6}, Acquired)},
            stray : {None}]
=============================================================================
