------------------------- MODULE ControllerStateRender -------------------------
(***************************************************************************)
(* Every rendering show_controller_state_data dispatches to: the raw dump *)
(* and text decoder of ControllerStateDecode, and the JSON renderer       *)
(* json_controller_state_data, which it calls for JSON output at offset 0 *)
(* (lines 603-604).                                                        *)
(***************************************************************************)
EXTENDS ControllerStateDecode

\* json_controller_state_data(data, len): the header, the state header
\* and niosq submission-queue and niocq completion-queue records taken from
\* the native counts in the buffer; len is not consulted, and cq[k] is read
\* from the start of the queue area.
JsonControllerStateData ==
  /\ pc = "start" /\ "BINARY" \notin buf.flags /\ buf.offset = 0
  /\ "JSON" \in buf.flags
  /\ LET nsq == Native16(buf.sq)
         ncq == Native16(buf.cq)
     IN reads' = {Read("header", 0, ControllerStateDataHeaderBytes),
                  Read("stateHeader", ControllerStateDataHeaderBytes,
                       NvmeControllerStateHeaderBytes)}
                 \cup {Read("sq", SqAt(k), IoSubmissionQueueDataBytes) : k \in 0 .. nsq - 1}
                 \cup {Read("cq", CqAt(k), IoCompletionQueueDataBytes) : k \in 0 .. ncq - 1}
  /\ pc' = "done"
  /\ UNCHANGED << buf, len, niosq, niocq, i, warns >>

RenderNext == Next \/ JsonControllerStateData

RenderSpec == Init /\ [][RenderNext]_vars
==============================================================================
