--------------------------- MODULE LoadPipelineMC ---------------------------
(***************************************************************************)
(* The instance of LoadPipeline that TLC checks.  Everything is a constant *)
(* of the specification, so the configurations say it all.                 *)
(***************************************************************************)
EXTENDS LoadPipelineInv
=============================================================================
