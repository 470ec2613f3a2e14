----------------------------- MODULE CdqFeature -----------------------------
(***************************************************************************)
(* The Controller Data Queue across invocations: lm_create_cdq,           *)
(* lm_track_send, lm_set_cdq, lm_get_cdq and lm_delete_cdq (LmCli's       *)
(* handlers) run one after another against a controller that keeps a      *)
(* table of CDQs (spec sections 3, 4.2 and 4.4).  The controller is the   *)
(* environment and acts on the command words it receives: it creates a    *)
(* queue and answers its identifier in CDW0[15:0], starts or stops        *)
(* logging user-data changes into the queue CDW11 names, applies a Set    *)
(* Features that completes with success, answers Get Features with the    *)
(* 512-byte payload of the queue, its two fields little-endian, and       *)
(* deletes a queue.  Between invocations it may post an entry into a      *)
(* queue it logs to.  It refuses, with a status, commands on queues it    *)
(* does not hold.  written records what the user asked for with each      *)
(* successful set-cdq.                                                    *)
(***************************************************************************)
EXTENDS Integers, LmDword

CONSTANTS
  Selects, U8Args, U16Args, CdqSizes, Numds, Offsets, HeadPointers,
  Triggers, InputFiles, OutputFiles, Formats, Results, DeviceStatuses,
  ShortReadErrnos, OpenErrors, Killed,
  NoTrigger,    \* model value: the queue has no tail-pointer event set
  Unreported,   \* dwords the controller may report as the trigger of a
                \* queue with no tail-pointer event
  MaxCalls      \* invocations of the program in one behaviour

VARIABLES inv, cmd, rc, out, cdq, consented, feature, written, posted, calls
cliVars == << inv, cmd, rc, out >>
vars == << cliVars, cdq, consented, feature, written, posted, calls >>

\* The four bytes of a __le32 on the wire, least significant first.
LeBytes(x) == << x[2] % 256, x[2] \div 256, x[1] % 256, x[1] \div 256 >>

Payload(hp, tpt) == [hp |-> LeBytes(hp), tpt |-> LeBytes(tpt)]

\* Every payload the controller may return for the values in play.
Payloads ==
  {Payload(hp, tpt) : hp \in HeadPointers \cup {DwZero},
                      tpt \in Triggers \cup Unreported}

Cli == INSTANCE LmCli WITH CdqPayloads <- Payloads

NoEvent == [hp |-> DwZero, tpt |-> NoTrigger]

\* The controller's record of a queue after a Set Features of this feature:
\* CDW11[15:0] names the queue, CDW12 is the head pointer, and CDW13 the
\* trigger slot when CDW11[31] is set.
Applied(c) ==
  [feature EXCEPT ![Bits(c.cdw11, 0, 16)] =
     [hp |-> c.cdw12,
      tpt |-> IF Bits(c.cdw11, 31, 1) = 1 THEN c.cdw13 ELSE NoTrigger]]

\* The payloads the controller may answer a Get Features of queue q with.
Reported(q) ==
  {Payload(feature[q].hp, t) :
     t \in IF feature[q].tpt = NoTrigger THEN Unreported ELSE {feature[q].tpt}}

\* What the user asked for (spec 4.2): the head pointer, and the trigger
\* slot unless --tpt is -1, "no trigger requested".
Requested(i) ==
  [hp |-> i.hp, tpt |-> IF i.tpt = DwAllOnes THEN NoTrigger ELSE i.tpt]

\* The queue a CDQ-management, Track Send or feature command names:
\* CDW11[15:0].
Queue(c) == Bits(c.cdw11, 0, 16)

\* The controller holds queue q.
Held(q) == cdq[q] # "none"

Init ==
  /\ Cli!Init
  /\ cdq = [q \in U16Args |-> "none"]
  /\ consented = [q \in U16Args |-> FALSE]
  /\ feature = [q \in U16Args |-> NoEvent]
  /\ written = [q \in U16Args |-> NoEvent]
  /\ posted = {}
  /\ calls = 0

\* One run of lm_create_cdq.  On success the controller has created a
\* queue with no head-pointer or trigger event, under the identifier the
\* handler prints from CDW0 & 0xFFFF; the queue's memory is the handler's
\* nvme_alloc_huge buffer, which _cleanup_huge_ releases when it returns.
CreateCdq ==
  /\ calls < MaxCalls
  /\ Cli!LmCreateCdq
  /\ IF rc' = 0
     THEN LET q == out'.val
          IN /\ q \in U16Args /\ ~Held(q)
             /\ cdq' = [cdq EXCEPT ![q] = "idle"]
             /\ consented' = [consented EXCEPT ![q] = inv'.consent]
             /\ feature' = [feature EXCEPT ![q] = NoEvent]
             /\ written' = [written EXCEPT ![q] = NoEvent]
     ELSE UNCHANGED << cdq, consented, feature, written >>
  /\ UNCHANGED posted
  /\ calls' = calls + 1

\* One run of lm_track_send.  Log User Data Changes with management
\* operation 1 (--start) makes the controller log into the queue in CDW11,
\* 0 (--stop) ends the logging.
TrackSend ==
  /\ calls < MaxCalls
  /\ Cli!LmTrackSend
  /\ rc' = 0 => Held(Queue(cmd'))
  /\ cdq' = IF rc' = 0
            THEN [cdq EXCEPT ![Queue(cmd')] =
                    IF Bits(cmd'.cdw10, 16, 8) = 1 THEN "logging" ELSE "idle"]
            ELSE cdq
  /\ UNCHANGED << consented, feature, written, posted >>
  /\ calls' = calls + 1

\* One run of lm_delete_cdq: the controller drops the queue in CDW11.
DeleteCdq ==
  /\ calls < MaxCalls
  /\ Cli!LmDeleteCdq
  /\ rc' = 0 => Held(Queue(cmd'))
  /\ cdq' = IF rc' = 0 THEN [cdq EXCEPT ![Queue(cmd')] = "none"] ELSE cdq
  /\ UNCHANGED << consented, feature, written, posted >>
  /\ calls' = calls + 1

\* One run of lm_set_cdq; the controller applies the command when it
\* completes with success.
SetCdq ==
  /\ calls < MaxCalls
  /\ Cli!LmSetCdq
  /\ rc' = 0 => Held(Queue(cmd'))
  /\ feature' = IF rc' = 0 THEN Applied(cmd') ELSE feature
  /\ written' = IF rc' = 0 THEN [written EXCEPT ![inv'.cdqid] = Requested(inv')]
                           ELSE written
  /\ UNCHANGED << cdq, consented, posted >>
  /\ calls' = calls + 1

\* One run of lm_get_cdq; on success the buffer holds the payload the
\* controller reports for the queue named in CDW11.
GetCdq ==
  /\ calls < MaxCalls
  /\ Cli!LmGetCdq
  /\ rc' = 0 /\ cmd' # Cli!NoCmd =>
       /\ Held(Queue(cmd'))
       /\ cmd'.addr.data \in Reported(Queue(cmd'))
  /\ UNCHANGED << cdq, consented, feature, written, posted >>
  /\ calls' = calls + 1

\* The controller writes a queue entry into the memory of a queue it logs
\* user-data changes to.
PostEntry ==
  \E q \in U16Args :
    /\ cdq[q] = "logging"
    /\ q \notin posted
    /\ posted' = posted \cup {q}
    /\ UNCHANGED << cliVars, cdq, consented, feature, written, calls >>

Next == CreateCdq \/ TrackSend \/ DeleteCdq \/ SetCdq \/ GetCdq \/ PostEntry

Spec == Init /\ [][Next]_vars

-----------------------------------------------------------------------------
(* Properties                                                              *)

\* Setting and getting the CDQ feature round-trips (spec section 8): after
\* a successful get-cdq, the head pointer that lm_show_controller_data_queue
\* prints in text or JSON is the one the last successful set-cdq of that
\* queue gave, and so is the trigger slot when that set-cdq asked for one.
\* It takes lm_set_cdq's CDW11/12/13 packing, the controller, and the le32
\* decoding of the payload to agree.
CdqRoundTrip ==
  out.kind \in {"CdqText", "CdqJson"} =>
    LET w == written[out.val.cdqid]
    IN /\ out.val.hp = w.hp
       /\ w.tpt # NoTrigger => out.val.tpt = w.tpt

\* The controller writes entries only into the memory of queues whose
\* creation the user consented to.  lm_create_cdq hands the controller the
\* address of its nvme_alloc_huge buffer, which _cleanup_huge_ releases
\* when the handler returns; its --consent help has the user acknowledge
\* that "the device will write to invalid memory" if they proceed, but
\* cfg.consent is never read, so the queue is created without consent.
\* Breaking this takes a create-cdq without --consent, a track-send
\* --start on the queue and a post by the controller.
EntriesOnlyWithConsent == \A q \in posted : consented[q]
==============================================================================
