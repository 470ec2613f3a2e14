---------------------- MODULE MC_ControllerStateDecode ----------------------
(***************************************************************************)
(* Buffers for checking the controller-state decoder.  lm_migration_recv   *)
(* hands over (numd + 1) << 2 bytes, so lengths are multiples of 4; up to  *)
(* 136 bytes covers no header, a header alone, a header with a partial     *)
(* state header, and room for zero to three queue records.  The counts     *)
(* include more queues than fit and 256, whose bytes swap to 1.            *)
(***************************************************************************)
EXTENDS ControllerStateDecode

MCLens == {4 * k : k \in 1 .. 34}
MCCounts == {0, 1, 2, 5, 256}
MCOffsets == {0, 8}

MCInputsOf(flagSets) ==
  [len: MCLens, sq: MCCounts, cq: MCCounts, flags: flagSets, offset: MCOffsets]

\* Raw and formatted text output (with or without --human-readable, which
\* only adds lines).
MCInputsText == MCInputsOf({{}, {"BINARY"}})
\* Every output format lm_migration_recv accepts.
MCInputsAll == MCInputsOf({{}, {"BINARY"}, {"JSON"}})
==============================================================================
