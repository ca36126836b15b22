----------------------------- MODULE MCExtraction -----------------------------
(* Archives of up to three entries whose names collide in every way they   *)
(* can: one name twice, a name and its .partial in either order, a file    *)
(* where a directory should be and a directory where a file should be.     *)
EXTENDS Extraction

CONSTANTS a, aPartial, aPartialPartial, d, dPartial, dx, dxPartial, up, upPartial, ill, illPartial,
          dots, dotsPartial

MCPaths == {a, aPartial, aPartialPartial, d, dPartial, dx, dxPartial, up, upPartial, ill,
            illPartial, dots, dotsPartial}
MCNames == {a, aPartial, d, dx, up, ill, dots}

MCAbove == [p \in MCPaths |-> IF p \in {dx, dxPartial} THEN {d} ELSE {}]

MCPartialOf ==
    [n \in MCNames |->
       CASE n = a -> aPartial [] n = aPartial -> aPartialPartial [] n = d -> dPartial
         [] n = dx -> dxPartial [] n = up -> upPartial [] n = ill -> illPartial
         [] n = dots -> dotsPartial]

File(n, s) == [name |-> n, kind |-> "file", size |-> s]
Directory(n) == [name |-> n, kind |-> "dir", size |-> 0]
Link(n) == [name |-> n, kind |-> "other", size |-> 0]

EntrySequences ==
    {<<>>,
     <<File(a, 4)>>,
     <<File(a, 1), File(a, 2)>>,
     <<File(a, 2), File(aPartial, 1)>>,
     <<File(aPartial, 1), File(a, 2)>>,
     <<Directory(d), File(dx, 2), Link(dx)>>,
     <<File(dx, 1), File(d, 1)>>,
     <<File(d, 0), File(dx, 1), Directory(dx)>>,
     <<File(up, 1), File(ill, 1), File(a, 1)>>,
     <<File(dots, 2)>>,
     <<Directory(ill), Directory(aPartial), File(a, 1)>>}

MCArchives == [entries : EntrySequences, broken : BOOLEAN]
====
