-------------------------- MODULE ControllerStateSpec --------------------------
(***************************************************************************)
(* What decoding a Controller State Data buffer promises (spec sections   *)
(* 3 and 4.3), as one atomic step from the buffer handed to the decoder   *)
(* to the records it renders.  Multi-byte fields are little-endian on the *)
(* wire; counts are clamped to what the remaining length holds, with the  *)
(* completion-queue records placed after the submission-queue records     *)
(* actually decoded.                                                      *)
(***************************************************************************)
EXTENDS Integers

CONSTANTS Inputs    \* the buffers the decoder may be handed

VARIABLES input, decoded
vars == << input, decoded >>

Pending == [records |-> {}, warnings |-> {"pending"}]

\* Sizes of the wire records (spec section 3).
HeaderBytes == 48
StateHeaderBytes == 8
QueueDataBytes == 24
QueuesAt == HeaderBytes + StateHeaderBytes

Read(what, at, bytes) == [what |-> what, at |-> at, bytes |-> bytes]
MinOf(a, b) == IF a < b THEN a ELSE b

\* The records a structured rendering exposes for a buffer of len bytes
\* whose state header declares nsq submission and ncq completion queues.
Tree(len, nsq, ncq) ==
  IF len < HeaderBytes
  THEN [records |-> {}, warnings |-> {"HeaderTruncated"}]
  ELSE IF len - HeaderBytes < StateHeaderBytes
  THEN [records |-> {Read("header", 0, HeaderBytes)}, warnings |-> {}]
  ELSE LET avail == len - QueuesAt
           sq == MinOf(nsq, avail \div QueueDataBytes)
           cq == MinOf(ncq, (avail - sq * QueueDataBytes) \div QueueDataBytes)
       IN [records |->
             {Read("header", 0, HeaderBytes),
              Read("stateHeader", HeaderBytes, StateHeaderBytes)}
             \cup {Read("sq", QueuesAt + k * QueueDataBytes, QueueDataBytes) : k \in 0 .. sq - 1}
             \cup {Read("cq", QueuesAt + (sq + k) * QueueDataBytes, QueueDataBytes) : k \in 0 .. cq - 1},
           warnings |->
             (IF sq < nsq THEN {"SqTruncated"} ELSE {})
             \cup (IF cq < ncq THEN {"CqTruncated"} ELSE {})]

\* Raw output passes the bytes through; a structured rendering of a chunk
\* at a non-zero offset is refused.
Render(in) ==
  CASE "BINARY" \in in.flags -> [records |-> {Read("raw", 0, in.len)}, warnings |-> {}]
    [] in.offset # 0 -> [records |-> {}, warnings |-> {"NonZeroOffset"}]
    [] OTHER -> Tree(in.len, in.sq, in.cq)

Init == input \in Inputs /\ decoded = Pending

Decode == decoded = Pending /\ decoded' = Render(input) /\ UNCHANGED input

Spec == Init /\ [][Decode]_vars
==============================================================================
