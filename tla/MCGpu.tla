------------------------------- MODULE MCGpu --------------------------------
(* Instances of Gpu for TLC.                                               *)
EXTENDS Gpu
=============================================================================
