---------------------------- MODULE MigrationRecv ----------------------------
(***************************************************************************)
(* lm_migration_recv composed with the decoder it calls.  One invocation   *)
(* of the handler (LmCli's LmMigrationRecv) submits Migration Receive; on  *)
(* success without --output-file it passes the (numd + 1) << 2 byte buffer *)
(* the device filled to show_controller_state_data, whose steps are those  *)
(* of ControllerStateRender.  The queue counts the device wrote into the   *)
(* state header are chosen from Counts when the data arrives.              *)
(***************************************************************************)
EXTENDS Integers, LmDword

CONSTANTS
  Selects, U8Args, U16Args, CdqSizes, Numds, Offsets, HeadPointers,
  Triggers, InputFiles, OutputFiles, Formats, Results, DeviceStatuses,
  ShortReadErrnos, OpenErrors, CdqPayloads, Killed,
  Endian,   \* byte order of the build
  Counts    \* niosq / niocq wire values the device may report

VARIABLES inv, cmd, rc, out, buf, pc, len, niosq, niocq, i, reads, warns
cliVars == << inv, cmd, rc, out >>
decVars == << buf, pc, len, niosq, niocq, i, reads, warns >>
vars == << cliVars, decVars >>

Cli == INSTANCE LmCli
Dec == INSTANCE ControllerStateRender WITH Inputs <- {}

Init ==
  /\ Cli!Init
  /\ buf = [len |-> 0, sq |-> 0, cq |-> 0, flags |-> {}, offset |-> 0]
  /\ pc = "idle"
  /\ len = 0 /\ niosq = 0 /\ niocq = 0 /\ i = 0
  /\ reads = {} /\ warns = {}

\* The whole handler: when it reaches
\*   show_controller_state_data(data, (cfg.numd + 1) << 2, cfg.offset, flags)
\* the decoder starts on the buffer the device filled; on every other path
\* the decoder is never called.
Receive ==
  /\ inv.op = "none"
  /\ Cli!LmMigrationRecv
  /\ IF out'.kind = "ShowState"
     THEN \E sq, cq \in Counts :
            /\ buf' = [len |-> DwValue(out'.val.len), sq |-> sq, cq |-> cq,
                       flags |-> out'.val.flags, offset |-> DwValue(out'.val.offset)]
            /\ pc' = "start"
            /\ len' = DwValue(out'.val.len)
            /\ UNCHANGED << niosq, niocq, i, reads, warns >>
     ELSE UNCHANGED decVars

\* One step of show_controller_state_data or json_controller_state_data.
Decode ==
  /\ Dec!RenderNext
  /\ UNCHANGED cliVars

Next == Receive \/ Decode

Spec == Init /\ [][Next]_vars

-----------------------------------------------------------------------------
(* Properties                                                              *)

\* The data shown on stdout is the data --output-file would save: the raw
\* dump and the decoded records cover only the numd << 2 bytes that fwrite
\* writes to a file, never the extra dword the (numd + 1) << 2 byte buffer
\* holds after the controller state (spec 4.2: status/result context).
RenderedWithinStateData ==
  \A r \in reads : r.at + r.bytes <= DwValue(DwShl(inv.numd, 2))
==============================================================================
