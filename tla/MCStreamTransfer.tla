--------------------------- MODULE MCStreamTransfer ---------------------------
(***************************************************************************)
(* An instance of StreamTransfer in which both streams carry more than a   *)
(* pipe holds, so that the child blocks on either of them.                 *)
(***************************************************************************)
EXTENDS StreamTransfer

MCMaxBlocks == PipeCapacity + 2
MCMaxNoise == PipeCapacity + 1
====
