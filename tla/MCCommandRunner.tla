--------------------------- MODULE MCCommandRunner ---------------------------
(***************************************************************************)
(* An instance of CommandRunner in which each stream may carry one block   *)
(* more than the limit, and the limit is one more than a pipe holds: the   *)
(* child blocks on a full pipe, fills the capture exactly, and overflows   *)
(* it.                                                                     *)
(***************************************************************************)
EXTENDS CommandRunner

MCMaxOutput == OutputLimit + 1
MCOutputLimit == PipeCapacity + 1
====
