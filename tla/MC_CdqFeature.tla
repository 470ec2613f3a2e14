---------------------------- MODULE MC_CdqFeature ----------------------------
(***************************************************************************)
(* Five invocations against two queue identifiers, which the controller   *)
(* hands out as CDW0 values 5 and 65535: enough for a create, two sets of *)
(* one queue and a get, or a create, a delete, a second create under the  *)
(* same identifier and a get.  Head pointers and triggers have bytes in   *)
(* both 16-bit halves so that a byte-order or half swap changes the       *)
(* value; -1 is the no-trigger default.  Slots of 2^31 and above, which   *)
(* the spec leaves undefined, are compared with the --help text in        *)
(* MC_LmCli_Help.cfg instead.  Options of the other handlers take one     *)
(* value.                                                                 *)
(***************************************************************************)
EXTENDS CdqFeature

MCSelects == {0}
MCU8Args == {0}
MCU16Args == {5, 65535}
MCCdqSizes == {Dw(8)}
MCNumds == {DwZero}
MCOffsets == {[hi |-> DwZero, lo |-> DwZero]}
MCHeadPointers == {Dw(3), << 1, 2 >>}
MCTriggers == {DwAllOnes, DwZero, << 2, 1 >>}
MCInputFiles == {"full"}
MCOutputFiles == {"NULL"}
MCFormats == {"normal", "json", "binary", "tabular"}
MCResults == {Dw(5), Dw(65535)}
MCDeviceStatuses == {2}
MCShortReadErrnos == {5}
MCOpenErrors == {-19}
MCUnreported == {DwAllOnes}
MCMaxCalls == 5
==============================================================================
