--------------------------- MODULE MC_MigrationRecv ---------------------------
(***************************************************************************)
(* Migration Receive options that reach the decoder.  numd is chosen so    *)
(* that (numd + 1) << 2 falls before, on and after each record boundary:   *)
(* 4 bytes (numd 0), the 48-byte header (11), the header plus one dword    *)
(* (12), the state header (13), one and two submission-queue records (19,  *)
(* 25), and 0xFFFFFFFF, whose buffer wraps to 0 bytes.  The other options  *)
(* only pack command fields, checked in MC_LmCli, and take one value.     *)
(***************************************************************************)
EXTENDS MigrationRecv

MCSelects == {0}
MCU8Args == {0}
MCU16Args == {5}
MCCdqSizes == {Dw(8)}
MCNumds == {Dw(k) : k \in {0, 11, 12, 13, 19, 25}} \cup {DwAllOnes}
MCOffsets == {[hi |-> DwZero, lo |-> DwZero], [hi |-> DwZero, lo |-> Dw(8)]}
MCHeadPointers == {Dw(3)}
MCTriggers == {DwAllOnes}
MCInputFiles == {"full"}
MCOutputFiles == {"NULL", "ok"}
MCFormats == {"normal", "json", "binary", "tabular"}
MCResults == {Dw(1)}
MCDeviceStatuses == {2}
MCShortReadErrnos == {5}
MCOpenErrors == {-19}
\* Head pointer 0x00000103 and the no-trigger word 0xFFFFFFFF, little-endian.
MCCdqPayloads == {[hp |-> << 3, 1, 0, 0 >>, tpt |-> << 255, 255, 255, 255 >>]}
\* More queues than fit, and 256, whose bytes swap to 1.
MCCounts == {0, 1, 2, 256}
==============================================================================
