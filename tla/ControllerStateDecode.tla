------------------------- MODULE ControllerStateDecode -------------------------
(***************************************************************************)
(* show_controller_state_data of plugins/lm/lm-nvme.c (raw dump and text *)
(* decoder), step by step: the buffer lm_migration_recv hands             *)
(* over (its length, the little-endian niosq/niocq words of the state     *)
(* header, the print flags and the offset), the remaining length len, the *)
(* counts after clamping, the loop index, and every record the decoder    *)
(* reads.  The bytes inside the records are abstracted away; a read is    *)
(* the byte range it covers.  The JSON renderer it dispatches to is added *)
(* by ControllerStateRender.                                              *)
(***************************************************************************)
EXTENDS Integers

CONSTANTS
  Inputs,   \* buffers: [len, sq, cq (wire values), flags, offset]
  Endian    \* byte order of the build: "LE" or "BE"

VARIABLES buf, pc, len, niosq, niocq, i, reads, warns
vars == << buf, pc, len, niosq, niocq, i, reads, warns >>

\* sizeof the structures of lm-nvme.c (static_asserts at lines 472-508).
ControllerStateDataHeaderBytes == 48
NvmeControllerStateHeaderBytes == 8
IoSubmissionQueueDataBytes == 24
IoCompletionQueueDataBytes == 24
\* Offset of sdata.sq[0] (and of the union member sdata.cq[0]).
QueuesAt == ControllerStateDataHeaderBytes + NvmeControllerStateHeaderBytes

Read(what, at, bytes) == [what |-> what, at |-> at, bytes |-> bytes]

\* data->sdata.hdr.niosq read as a native __u16, without le16_to_cpu.
Native16(wire) ==
  IF Endian = "LE" THEN wire ELSE (wire % 256) * 256 + wire \div 256

\* data->sdata.sq[k] and data->sdata.cq[k]: both index from sdata's end.
SqAt(k) == QueuesAt + k * IoSubmissionQueueDataBytes
CqAt(k) == QueuesAt + k * IoCompletionQueueDataBytes

-----------------------------------------------------------------------------

Init ==
  /\ buf \in Inputs
  /\ pc = "start"
  /\ len = buf.len
  /\ niosq = 0 /\ niocq = 0 /\ i = 0
  /\ reads = {}
  /\ warns = {}

\* if (flags & BINARY) return d_raw(data, len);
ShowRaw ==
  /\ pc = "start" /\ "BINARY" \in buf.flags
  /\ reads' = {Read("raw", 0, len)}
  /\ pc' = "done"
  /\ UNCHANGED << buf, len, niosq, niocq, i, warns >>

\* if (offset) { "Cannot parse non-zero offset"; return; }
RejectOffset ==
  /\ pc = "start" /\ "BINARY" \notin buf.flags /\ buf.offset # 0
  /\ warns' = {"NonZeroOffset"}
  /\ pc' = "done"
  /\ UNCHANGED << buf, len, niosq, niocq, i, reads >>

TextPath ==
  pc = "start" /\ "BINARY" \notin buf.flags /\ buf.offset = 0
  /\ "JSON" \notin buf.flags

\* The 48-byte header fits: print it and consume it.
ShowHeader ==
  /\ TextPath /\ ControllerStateDataHeaderBytes <= len
  /\ reads' = {Read("header", 0, ControllerStateDataHeaderBytes)}
  /\ len' = len - ControllerStateDataHeaderBytes
  /\ pc' = "body"
  /\ UNCHANGED << buf, niosq, niocq, i, warns >>

\* "WARNING: Header truncated"; len = 0.
HeaderTruncated ==
  /\ TextPath /\ len < ControllerStateDataHeaderBytes
  /\ warns' = {"HeaderTruncated"}
  /\ len' = 0
  /\ pc' = "body"
  /\ UNCHANGED << buf, niosq, niocq, i, reads >>

\* if (!len) return;
NoStateData ==
  /\ pc = "body" /\ len = 0
  /\ pc' = "done"
  /\ UNCHANGED << buf, len, niosq, niocq, i, reads, warns >>

\* "WARNING: NVMe Controller State Data Structure truncated".
StateHeaderTruncated ==
  /\ pc = "body" /\ len # 0 /\ len < NvmeControllerStateHeaderBytes
  /\ warns' = warns \cup {"StateTruncated"}
  /\ pc' = "done"
  /\ UNCHANGED << buf, len, niosq, niocq, i, reads >>

\* Fault variant: niosq clamped against len before the state header is
\* subtracted from it.
ShowStateHeaderEarlyClamp ==
  /\ pc = "body" /\ len # 0 /\ NvmeControllerStateHeaderBytes <= len
  /\ LET rest == len - NvmeControllerStateHeaderBytes
         n == Native16(buf.sq)
         cut == len < n * IoSubmissionQueueDataBytes
     IN /\ len' = rest
        /\ niosq' = IF cut THEN len \div IoSubmissionQueueDataBytes ELSE n
        /\ warns' = warns \cup (IF cut THEN {"SqTruncated"} ELSE {})
  /\ niocq' = Native16(buf.cq)
  /\ reads' = reads \cup {Read("stateHeader", ControllerStateDataHeaderBytes,
                              NvmeControllerStateHeaderBytes)}
  /\ i' = 0
  /\ pc' = "sq"
  /\ UNCHANGED buf

\* Read niosq/niocq, print the state header, consume it, and clamp niosq to
\* the submission-queue records the rest of the buffer holds.
ShowStateHeader ==
  /\ pc = "body" /\ len # 0 /\ NvmeControllerStateHeaderBytes <= len
  /\ LET rest == len - NvmeControllerStateHeaderBytes
         n == Native16(buf.sq)
         cut == rest < n * IoSubmissionQueueDataBytes
     IN /\ len' = rest
        /\ niosq' = IF cut THEN rest \div IoSubmissionQueueDataBytes ELSE n
        /\ warns' = warns \cup (IF cut THEN {"SqTruncated"} ELSE {})
  /\ niocq' = Native16(buf.cq)
  /\ reads' = reads \cup {Read("stateHeader", ControllerStateDataHeaderBytes,
                              NvmeControllerStateHeaderBytes)}
  /\ i' = 0
  /\ pc' = "sq"
  /\ UNCHANGED buf

\* One iteration of the submission-queue loop: sdata.sq[i].
ShowSq ==
  /\ pc = "sq" /\ i < niosq
  /\ reads' = reads \cup {Read("sq", SqAt(i), IoSubmissionQueueDataBytes)}
  /\ i' = i + 1
  /\ UNCHANGED << buf, pc, len, niosq, niocq, warns >>

\* Fault variant: the length consumed by the submission queues computed
\* from the count in the buffer rather than the clamped count.
EndSqUnclampedLen ==
  /\ pc = "sq" /\ i = niosq
  /\ LET rest == len - Native16(buf.sq) * IoSubmissionQueueDataBytes
         cut == rest < niocq * IoCompletionQueueDataBytes
     IN /\ len' = rest
        /\ niocq' = IF cut THEN rest \div IoCompletionQueueDataBytes ELSE niocq
        /\ warns' = warns \cup (IF cut THEN {"CqTruncated"} ELSE {})
  /\ i' = 0
  /\ pc' = "cq"
  /\ UNCHANGED << buf, niosq, reads >>

\* Fault variant: "<=" for "<" in the completion-queue truncation test.
EndSqCutAtFit ==
  /\ pc = "sq" /\ i = niosq
  /\ LET rest == len - niosq * IoSubmissionQueueDataBytes
         cut == rest <= niocq * IoCompletionQueueDataBytes
     IN /\ len' = rest
        /\ niocq' = IF cut THEN rest \div IoCompletionQueueDataBytes ELSE niocq
        /\ warns' = warns \cup (IF cut THEN {"CqTruncated"} ELSE {})
  /\ i' = 0
  /\ pc' = "cq"
  /\ UNCHANGED << buf, niosq, reads >>

\* After the loop: consume the records shown and clamp niocq to what is
\* left.
EndSq ==
  /\ pc = "sq" /\ i = niosq
  /\ LET rest == len - niosq * IoSubmissionQueueDataBytes
         cut == rest < niocq * IoCompletionQueueDataBytes
     IN /\ len' = rest
        /\ niocq' = IF cut THEN rest \div IoCompletionQueueDataBytes ELSE niocq
        /\ warns' = warns \cup (IF cut THEN {"CqTruncated"} ELSE {})
  /\ i' = 0
  /\ pc' = "cq"
  /\ UNCHANGED << buf, niosq, reads >>

\* One iteration of the completion-queue loop: sdata.cq[niosq + i].
ShowCq ==
  /\ pc = "cq" /\ i < niocq
  /\ reads' = reads \cup {Read("cq", CqAt(niosq + i), IoCompletionQueueDataBytes)}
  /\ i' = i + 1
  /\ UNCHANGED << buf, pc, len, niosq, niocq, warns >>

EndCq ==
  /\ pc = "cq" /\ i = niocq
  /\ pc' = "done"
  /\ UNCHANGED << buf, len, niosq, niocq, i, reads, warns >>

Next ==
  \/ ShowRaw \/ RejectOffset
  \/ ShowHeader \/ HeaderTruncated \/ NoStateData \/ StateHeaderTruncated
  \/ ShowStateHeader \/ ShowSq \/ EndSq \/ ShowCq \/ EndCq

\* No liveness is checked: the loops run over counts clamped before they
\* start, so the decoder returns by construction.
Spec == Init /\ [][Next]_vars

-----------------------------------------------------------------------------
(* Properties                                                              *)

Pcs == {"start", "body", "sq", "cq", "done"}

\* Remaining length, counts and index stay natural numbers.
TypeOK ==
  /\ pc \in Pcs
  /\ len \in Nat /\ niosq \in Nat /\ niocq \in Nat /\ i \in Nat
  /\ \A r \in reads : r.at \in Nat /\ r.bytes \in Nat

\* Every byte the decoder reads lies inside the (numd + 1) * 4 bytes that
\* lm_migration_recv allocated, whatever counts the device reported.
ReadsWithinBuffer ==
  \A r \in reads : r.at + r.bytes <= buf.len

\* The step-by-step decoder implements the atomic decode of spec section
\* 4.3: until it returns nothing is rendered, and when it returns it has
\* rendered exactly the clamped header, state header and queue records of
\* the little-endian counts, with a truncation warning for each clamp.
Abstract == INSTANCE ControllerStateSpec WITH
  input <- buf,
  decoded <- IF pc = "done"
             THEN [records |-> reads,
                   warnings |-> warns \ {"StateTruncated"}]
             ELSE [records |-> {}, warnings |-> {"pending"}]

ImplementsDecodeSpec == Abstract!Spec
==============================================================================
