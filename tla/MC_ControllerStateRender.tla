---------------------- MODULE MC_ControllerStateRender ----------------------
(***************************************************************************)
(* Every output format lm_migration_recv accepts, on the buffers of       *)
(* MC_ControllerStateDecode.                                              *)
(***************************************************************************)
EXTENDS ControllerStateRender, MC_ControllerStateDecode
==============================================================================
