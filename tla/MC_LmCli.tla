------------------------------ MODULE MC_LmCli ------------------------------
(***************************************************************************)
(* Option values for checking the lm handlers.  Each set holds a typical  *)
(* value and the values at the edge of the option's C type, so that a     *)
(* field that spills into its neighbour, a sign bit or a wrapped shift    *)
(* shows up in the packed dwords.                                         *)
(***************************************************************************)
EXTENDS LmCli

\* __u8 select: the three Migration Send selects, an undefined one, and the
\* 255 left by the -1 default when --select is omitted.
MCSelects == {0, 1, 2, 3, 255}
MCU8Args == {0, 255}
MCU16Args == {5, 65535}
\* 7 is refused; 8 is one entry; 2^30 is a multiple of 8 whose byte size
\* (sz << 2) wraps to 0.
MCCdqSizes == {Dw(7), Dw(8)}
MCCdqSizesWrap == {Dw(8), Dw(2^30)}
MCNumds == {DwZero, Dw(2), DwAllOnes}
\* numd = 2^30 makes numd << 2 wrap to 0.
MCNumdsWrap == {Dw(2), Dw(2^30), DwAllOnes}
MCOffsets == {[hi |-> DwZero, lo |-> DwZero], [hi |-> Dw(1), lo |-> DwZero]}
MCHeadPointers == {Dw(3)}
\* default -1, slot 0, a large slot, and a value whose __s32 is negative.
MCTriggers == {DwAllOnes, DwZero, Dw(65536), << 32768, 0 >>}
MCInputFiles == {"NULL", "", "missing", "short", "full"}
MCOutputFiles == {"NULL", "", "ok", "openfails", "writefails"}
MCFormats == {"normal", "json", "binary", "tabular"}
MCResults == {Dw(65537)}
MCDeviceStatuses == {2}
MCShortReadErrnos == {5}
MCShortReadErrnosAny == {0, 5}
MCOpenErrors == {-19}
\* Head pointer 0x00000103 and the no-trigger word 0xFFFFFFFF, little-endian.
MCCdqPayloads == {[hp |-> << 3, 1, 0, 0 >>, tpt |-> << 255, 255, 255, 255 >>]}
MCFormatsInvalid == {"tabular"}
\* Option values for comparing the commands with the --help texts: the
\* select left at -1, a sequence indicator and indexes of 4, and the slot
\* 0x80000000.
MCSelectsHelp == {255}
MCU8ArgsHelp == {4}
MCTriggersHelp == {<< 32768, 0 >>}
==============================================================================
