-------------------------------- MODULE LmCli --------------------------------
(***************************************************************************)
(* The live-migration command handlers of plugins/lm/lm-nvme.c.  Each      *)
(* action is one whole invocation of a handler: option values chosen from  *)
(* small sets, the early returns of its validation, the buffer allocation  *)
(* and file I/O, the command it packs and hands to the transport, the      *)
(* transport's answer and the value it returns.  The handlers keep no      *)
(* state between invocations: a behaviour is one run of the program, from *)
(* the idle state to the handler's options (inv), the command the device  *)
(* received (cmd), the return value (rc) and what it reported (out).      *)
(***************************************************************************)
EXTENDS Integers, LmDword

CONSTANTS
  Selects,        \* values of the __u8 select options (255 = left at -1)
  U8Args,         \* values of the other __u8 options
  U16Args,        \* values of the __u16 cntlid / cdqid options
  CdqSizes,       \* --size of create-cdq, in dwords (Dword)
  Numds,          \* --numd (Dword)
  Offsets,        \* --offset, a __u64 as [hi |-> Dword, lo |-> Dword]
  HeadPointers,   \* --hp of set-cdq (Dword)
  Triggers,       \* bits of --tpt; DwAllOnes is the default -1
  InputFiles,     \* --input-file of migration-send
  OutputFiles,    \* --output-file of migration-recv
  Formats,        \* --output-format strings
  Results,        \* completion dword 0 the device may return (Dword)
  DeviceStatuses, \* positive NVMe status values nvme_submit_* may return
  ShortReadErrnos,\* values errno may hold after a short fread
  OpenErrors,     \* negative values parse_and_open may return
  CdqPayloads,    \* struct controller_data_queue_fid_data a Get Features
                  \* may return: [hp, tpt] as four wire bytes each
  Killed          \* model value: the process dies instead of returning

VARIABLES inv, cmd, rc, out
vars == << inv, cmd, rc, out >>

-----------------------------------------------------------------------------
(* Constants of lm-nvme.c and of the C library.                            *)

EINVAL == 22
ENOMEM == 12

\* enum lm_nvme_admin_opcode and the Set/Get Features admin opcodes.
NVME_ADMIN_TRACK_SEND == 61
NVME_ADMIN_MIGRATION_SEND == 65
NVME_ADMIN_MIGRATION_RECEIVE == 66
NVME_ADMIN_CONTROLLER_DATA_QUEUE == 69
NVME_ADMIN_SET_FEATURES == 9
NVME_ADMIN_GET_FEATURES == 10
lm_cdq_feature_id == 33

CREATE_CONTROLLER_DATA_QUEUE == 0
DELETE_CONTROLLER_DATA_QUEUE == 1
TRACK_SEND_SELECT_LOG_USER_DATA_CHANGES == 0
TRACK_SEND_MANAGEMENT_OPERATION_STOP_LOGGING == 0
TRACK_SEND_MANAGEMENT_OPERATION_START_LOGGING == 1
MIGRATION_SEND_SUSPEND == 0
MIGRATION_SEND_RESUME == 1
MIGRATION_SEND_SET_CONTROLLER_STATE == 2
MIGRATION_RECV_GET_CONTROLLER_STATE == 0

\* sizeof(struct lba_migration_queue_entry_type_0): 4 + 4 + 8 + 15 + 1.
LbaMigrationQueueEntryBytes == 32

\* sizeof(struct controller_data_queue_fid_data): 4 + 4 + 504.
CdqFidDataBytes == 512

\* validate_output_format: the flags of each accepted format string.
FormatFlags(fmt) ==
  CASE fmt = "normal" -> {}
    [] fmt = "json"   -> {"JSON"}
    [] fmt = "binary" -> {"BINARY"}
ValidFormat(fmt) == fmt \in {"normal", "json", "binary"}

-----------------------------------------------------------------------------
(* Commands handed to the transport.  Fields the designated initialiser   *)
(* leaves out are zero; addr is NoBuffer for a NULL pointer.               *)

NoCmd == [opcode |-> 0]
NoBuffer == [bytes |-> DwZero, contents |-> "none"]

Command(opc, c10, c11, c12, c13, c15, buf, len) ==
  [opcode |-> opc, cdw10 |-> c10, cdw11 |-> c11, cdw12 |-> c12,
   cdw13 |-> c13, cdw15 |-> c15, addr |-> buf, dataLen |-> len]

\* A buffer from nvme_alloc_huge, or a stack buffer, of the given bytes.
Buffer(bytes, contents) == [bytes |-> bytes, contents |-> contents]

\* What a handler printed: kind and the value it shows.
Shown(kind, val) == [kind |-> kind, val |-> val]

\* The three-way report after a submission: success, device status, or
\* transport error.
Report(err, success) ==
  CASE err = 0 -> success
    [] err > 0 -> Shown("Status", err)
    [] err < 0 -> Shown("Error", err)

\* Results of nvme_submit_admin_passthru / nvme_{set,get}_features.
SubmitErrs == {-1, 0} \cup DeviceStatuses

Finish(i, c, r, o) == /\ inv' = i /\ cmd' = c /\ rc' = r /\ out' = o

\* An early return after nvme_show_error: nothing reaches the device.
Reject(i, r) == Finish(i, NoCmd, r, Shown("Error", r))

\* parse_and_open fails: if (err) return err.
OpenFails(op) == \E e \in OpenErrors : Reject([op |-> op], e)

-----------------------------------------------------------------------------
(* The command dwords each handler packs.                                  *)

CreateCdqCdw10(qt) == DwOr(DwShl(Dw(qt), 16), Dw(CREATE_CONTROLLER_DATA_QUEUE))
CreateCdqCdw11(cntlid) == DwOr(DwShl(Dw(cntlid), 16), Dw(1))

\* The size test of lm_create_cdq: a whole number of queue entries.
CdqSizeAccepted(sz) == DwMod(sz, LbaMigrationQueueEntryBytes \div 4) = 0

\* Fault variant: the start/stop conflict test left out.
TrackStartStopConflictDropped(start, stop) == FALSE

\* --start and --stop together are refused.
TrackStartStopConflict(start, stop) == start /\ stop

\* --start / --stop override --mos for Log User Data Changes.
TrackSendMos(mos, start, stop) ==
  IF start THEN TRACK_SEND_MANAGEMENT_OPERATION_START_LOGGING
  ELSE IF stop THEN TRACK_SEND_MANAGEMENT_OPERATION_STOP_LOGGING
  ELSE mos
TrackSendCdw10(select, mos) == DwOr(Dw(select), DwShl(Dw(mos), 16))

MigrationSendCdw10(seqind, sel) == DwOr(DwShl(Dw(seqind), 16), Dw(sel))
MigrationSendCdw11(sel, delete, stype, csuuidi, csvi, cntlid) ==
  IF sel = MIGRATION_SEND_SET_CONTROLLER_STATE
  THEN DwOr(DwOr(DwShl(Dw(csuuidi), 24), DwShl(Dw(csvi), 16)), Dw(cntlid))
  ELSE DwOr(DwOr(DwShl(Dw(IF delete THEN 1 ELSE 0), 31), DwShl(Dw(stype), 16)),
            Dw(cntlid))

\* Fields that Suspend/Resume and Set Controller State must leave alone.
MigrationSendBadFields(sel, delete, stype, csuuidi, csvi) ==
  \/ /\ sel \in {MIGRATION_SEND_SUSPEND, MIGRATION_SEND_RESUME}
     /\ (csuuidi # 0 \/ csvi # 0)
  \/ /\ sel = MIGRATION_SEND_SET_CONTROLLER_STATE
     /\ (delete \/ stype # 0)

MigrationRecvCdw10(csvi) ==
  DwOr(DwShl(Dw(csvi), 16), Dw(MIGRATION_RECV_GET_CONTROLLER_STATE))
MigrationRecvCdw11(csuuidi, cntlid) == DwOr(DwShl(Dw(csuuidi), 16), Dw(cntlid))

\* Bytes of the migration-receive buffer: (numd + 1) << 2.
MigrationRecvBytes(numd) == DwShl(DwInc(numd), 2)

\* A non-zero offset is only accepted for raw output.
RecvOffsetAccepted(offset, flags) ==
  offset = [hi |-> DwZero, lo |-> DwZero] \/ "BINARY" \in flags

\* Fault variant: "tpt > 0" for "tpt >= 0", so slot 0 sets no trigger.
SetCdqCdw11SlotZeroDropped(cdqid, tpt) ==
  DwOr(Dw(cdqid), IF DwNonNegative(tpt) /\ tpt # DwZero THEN DwShl(Dw(1), 31)
                  ELSE DwZero)

SetCdqCdw11(cdqid, tpt) ==
  DwOr(Dw(cdqid), IF DwNonNegative(tpt) THEN DwShl(Dw(1), 31) ELSE DwZero)

-----------------------------------------------------------------------------
(* lm_create_cdq                                                           *)

LmCreateCdq ==
  \E sz \in CdqSizes, cntlid \in U16Args, qt \in U8Args, consent \in BOOLEAN :
    \* --consent is parsed into cfg.consent and never read.
    LET i == [op |-> "create-cdq", sz |-> sz, cntlid |-> cntlid, qt |-> qt,
              consent |-> consent]
        bytes == DwShl(sz, 2)
        c == Command(NVME_ADMIN_CONTROLLER_DATA_QUEUE,
                     CreateCdqCdw10(qt), CreateCdqCdw11(cntlid),
                     sz, DwZero, DwZero, Buffer(bytes, "zero"), bytes)
    IN \/ OpenFails("create-cdq")
       \/ /\ ~CdqSizeAccepted(sz)
          /\ Reject(i, EINVAL)
       \/ /\ CdqSizeAccepted(sz)
          /\ \/ Reject(i, -ENOMEM)
             \/ \E err \in SubmitErrs, res \in Results :
                  Finish(i, c, err, Report(err, Shown("CdqCreated", res[2])))

(* lm_delete_cdq                                                           *)

LmDeleteCdq ==
  \E cdqid \in U16Args :
    LET i == [op |-> "delete-cdq", cdqid |-> cdqid]
        c == Command(NVME_ADMIN_CONTROLLER_DATA_QUEUE,
                     Dw(DELETE_CONTROLLER_DATA_QUEUE), Dw(cdqid),
                     DwZero, DwZero, DwZero, NoBuffer, DwZero)
    IN \/ OpenFails("delete-cdq")
       \/ \E err \in SubmitErrs :
            Finish(i, c, err, Report(err, Shown("CdqDeleted", cdqid)))

(* lm_track_send.  The "select == -1" test compares the __u8 with an int   *)
(* and is never true; an omitted --select (255) is refused by the          *)
(* unsupported-select test instead.                                        *)

LmTrackSend ==
  \E select \in Selects, mos \in U8Args, cdqid \in U16Args,
     start \in BOOLEAN, stop \in BOOLEAN :
    LET i == [op |-> "track-send", select |-> select, mos |-> mos,
              cdqid |-> cdqid, start |-> start, stop |-> stop]
        c == Command(NVME_ADMIN_TRACK_SEND,
                     TrackSendCdw10(select, TrackSendMos(mos, start, stop)), Dw(cdqid),
                     DwZero, DwZero, DwZero, NoBuffer, DwZero)
    IN \/ OpenFails("track-send")
       \/ /\ select # TRACK_SEND_SELECT_LOG_USER_DATA_CHANGES
          /\ Reject(i, -EINVAL)
       \/ /\ select = TRACK_SEND_SELECT_LOG_USER_DATA_CHANGES
          /\ TrackStartStopConflict(start, stop)
          /\ Reject(i, -EINVAL)
       \/ /\ select = TRACK_SEND_SELECT_LOG_USER_DATA_CHANGES
          /\ ~TrackStartStopConflict(start, stop)
          /\ \E err \in SubmitErrs :
               Finish(i, c, err, Report(err, Shown("TrackSent", select)))

(* lm_migration_send.  "sel == -1" is never true for the __u8, so an       *)
(* omitted --select reaches the device as SEL 255.  strlen(cfg.input) on   *)
(* the NULL default kills the process.                                     *)

LmMigrationSend ==
  \E sel \in Selects, stype \in U8Args, seqind \in U8Args, csuuidi \in U8Args,
     csvi \in U8Args, cntlid \in U16Args, offset \in Offsets, numd \in Numds,
     input \in InputFiles, delete \in BOOLEAN :
    LET i == [op |-> "migration-send", sel |-> sel, stype |-> stype,
              seqind |-> seqind, csuuidi |-> csuuidi, csvi |-> csvi,
              cntlid |-> cntlid, offset |-> offset, numd |-> numd,
              input |-> input, delete |-> delete]
        bytes == DwShl(numd, 2)
        hasFile == input \notin {"NULL", ""}
        data == IF hasFile THEN Buffer(bytes, "file") ELSE NoBuffer
        c == Command(NVME_ADMIN_MIGRATION_SEND,
                     MigrationSendCdw10(seqind, sel),
                     MigrationSendCdw11(sel, delete, stype, csuuidi, csvi, cntlid),
                     offset.lo, offset.hi, numd, data, bytes)
        badFields == MigrationSendBadFields(sel, delete, stype, csuuidi, csvi)
        setState == sel = MIGRATION_SEND_SET_CONTROLLER_STATE
        \* fread of numd << 2 bytes: a short file yields fewer unless 0.
        shortRead == input = "short" /\ bytes # DwZero
        Submit == \E err \in SubmitErrs :
                    Finish(i, c, err, Report(err, Shown("MigrationSent", sel)))
    IN \/ OpenFails("migration-send")
       \/ badFields /\ Reject(i, -EINVAL)
       \/ ~badFields /\ setState /\ input = "NULL" /\ Finish(i, NoCmd, Killed, Shown("Crash", 0))
       \/ ~badFields /\ setState /\ input = "" /\ Reject(i, -EINVAL)
       \/ /\ ~badFields
          /\ setState => hasFile
          /\ \/ ~hasFile /\ Submit
             \/ hasFile /\ input = "missing" /\ Reject(i, -EINVAL)
             \/ hasFile /\ input # "missing" /\ Reject(i, -ENOMEM)
             \/ /\ hasFile /\ input # "missing"
                /\ \/ shortRead /\ \E e \in ShortReadErrnos : Reject(i, -e)
                   \/ ~shortRead /\ Submit

(* lm_migration_recv together with show_controller_state_data's entry: the *)
(* decoded output is recorded as the call it makes, decoded by the         *)
(* ControllerStateDecode module.  fopen failure is tested as "fd < 0",     *)
(* never true for the NULL stream, which fwrite then dereferences.  The    *)
(* handler returns 0 whatever err holds.                                   *)

LmMigrationRecv ==
  \E cntlid \in U16Args, csuuidi \in U8Args, csvi \in U8Args,
     offset \in Offsets, numd \in Numds, output \in OutputFiles,
     fmt \in Formats, human \in BOOLEAN :
    LET i == [op |-> "migration-recv", cntlid |-> cntlid, csuuidi |-> csuuidi,
              csvi |-> csvi, offset |-> offset, numd |-> numd,
              output |-> output, fmt |-> fmt, human |-> human]
        flags == FormatFlags(fmt) \cup (IF human THEN {"VERBOSE"} ELSE {})
        len == MigrationRecvBytes(numd)
        c == Command(NVME_ADMIN_MIGRATION_RECEIVE,
                     MigrationRecvCdw10(csvi), MigrationRecvCdw11(csuuidi, cntlid),
                     offset.lo, offset.hi, numd, Buffer(len, "zero"), len)
        toFile == output \notin {"NULL", ""}
        \* What the success branch does with the data.  fwrite of 0 bytes
        \* returns 0 without touching the stream.
        Deliver ==
          CASE ~toFile -> Shown("ShowState", [len |-> len, offset |-> offset.lo,
                                              flags |-> flags])
            [] DwShl(numd, 2) = DwZero -> Shown("Saved", DwZero)
            [] output = "openfails" -> Shown("Crash", 0)
            [] output = "writefails" -> Shown("Error", -5)
            [] output = "ok" -> Shown("Saved", DwShl(numd, 2))
    IN \/ OpenFails("migration-recv")
       \/ ~ValidFormat(fmt) /\ Reject(i, -EINVAL)
       \/ /\ ValidFormat(fmt)
          /\ ~RecvOffsetAccepted(offset, flags)
          /\ Reject(i, -EINVAL)
       \/ /\ ValidFormat(fmt)
          /\ RecvOffsetAccepted(offset, flags)
          /\ \/ Reject(i, -ENOMEM)
             \/ \E err \in SubmitErrs :
                  LET o == Report(err, Deliver)
                  IN Finish(i, c, IF o.kind = "Crash" THEN Killed ELSE 0, o)

(* lm_set_cdq.  --tpt is parsed as a __u32 into a __s32; the trigger flag  *)
(* is set when that __s32 is non-negative.                                 *)

LmSetCdq ==
  \E cdqid \in U16Args, hp \in HeadPointers, tpt \in Triggers :
    LET i == [op |-> "set-cdq", cdqid |-> cdqid, hp |-> hp, tpt |-> tpt]
        c == Command(NVME_ADMIN_SET_FEATURES, Dw(lm_cdq_feature_id),
                     SetCdqCdw11(cdqid, tpt),
                     hp, tpt, DwZero, NoBuffer, DwZero)
    IN \/ OpenFails("set-cdq")
       \/ \E err \in SubmitErrs :
            Finish(i, c, err, Report(err, Shown("CdqHeadSet", hp)))

(* lm_get_cdq with lm_show_controller_data_queue: JSON and text show the   *)
(* two le32 fields, binary dumps the whole 512-byte record.                *)

\* lm_show_controller_data_queue(&data, flags).
ShowControllerDataQueue(cdqid, data, flags) ==
  CASE "JSON" \in flags -> Shown("CdqJson", [cdqid |-> cdqid, hp |-> Le32(data.hp),
                                              tpt |-> Le32(data.tpt)])
    [] "BINARY" \in flags -> Shown("CdqRaw", [cdqid |-> cdqid, raw |-> data])
    [] OTHER -> Shown("CdqText", [cdqid |-> cdqid, hp |-> Le32(data.hp),
                                  tpt |-> Le32(data.tpt)])

LmGetCdq ==
  \E cdqid \in U16Args, fmt \in Formats :
    LET i == [op |-> "get-cdq", cdqid |-> cdqid, fmt |-> fmt]
        c == Command(NVME_ADMIN_GET_FEATURES, Dw(lm_cdq_feature_id), Dw(cdqid),
                     DwZero, DwZero, DwZero,
                     Buffer(Dw(CdqFidDataBytes), "stack"), Dw(CdqFidDataBytes))
    IN \/ OpenFails("get-cdq")
       \/ ~ValidFormat(fmt) /\ Reject(i, -EINVAL)
       \/ /\ ValidFormat(fmt)
          /\ \E err \in SubmitErrs, data \in CdqPayloads :
               \* On success the device has filled the stack buffer with data.
               LET filled == [c EXCEPT !.addr = [bytes |-> @.bytes,
                                                  contents |-> "device", data |-> data]]
               IN Finish(i, IF err = 0 THEN filled ELSE c, err,
                         Report(err, ShowControllerDataQueue(cdqid, data, FormatFlags(fmt))))

-----------------------------------------------------------------------------

Init ==
  /\ inv = [op |-> "none"]
  /\ cmd = NoCmd
  /\ rc = 0
  /\ out = Shown("None", 0)

\* One run of the program executes one handler and exits.
Next ==
  /\ inv.op = "none"
  /\ \/ LmCreateCdq
     \/ LmDeleteCdq
     \/ LmTrackSend
     \/ LmMigrationSend
     \/ LmMigrationRecv
     \/ LmSetCdq
     \/ LmGetCdq

Spec == Init /\ [][Next]_vars
-----------------------------------------------------------------------------
(* Properties                                                              *)

SuccessKinds == {"CdqCreated", "CdqDeleted", "TrackSent", "MigrationSent",
                 "ShowState", "Saved", "CdqHeadSet", "CdqJson", "CdqRaw",
                 "CdqText"}
Bit(b) == IF b THEN 1 ELSE 0

ValidationPrecedesSubmission ==
  cmd # NoCmd =>
    CASE inv.op = "create-cdq" -> DwMod(inv.sz, 8) = 0
      [] inv.op = "track-send" -> inv.select = 0 /\ ~(inv.start /\ inv.stop)
      [] inv.op = "migration-send" ->
           /\ inv.sel \in {0, 1} => inv.csuuidi = 0 /\ inv.csvi = 0
           /\ inv.sel = 2 => /\ ~inv.delete /\ inv.stype = 0
                             /\ cmd.addr.contents = "file"
      [] inv.op = "migration-recv" ->
           inv.offset = [hi |-> DwZero, lo |-> DwZero] \/ inv.fmt = "binary"
      [] OTHER -> TRUE

\* The command carries each option where, and with the values, the
\* handler's own --help text documents it:
\*  - lm_migration_send: SEL is one of the three selects listed (0h-2h), and
\*    the sequence indicator one of its four values, so CDW10[23:18] stay
\*    clear;
\*  - lm_migration_recv: CNTLID in CDW10[31:16], CSUUIDI in CDW11[23:16]
\*    and CSVI in CDW11[7:0];
\*  - lm_set_cdq: a --tpt other than the default -1 is "the slot that causes
\*    the controller to issue a CDQ Tail Pointer event", so the trigger flag
\*    CDW11[31] is set and CDW13 holds the slot.
OptionsAsDocumented ==
  cmd # NoCmd =>
    CASE inv.op = "migration-send" ->
           /\ Bits(cmd.cdw10, 0, 8) \in {0, 1, 2}
           /\ Bits(cmd.cdw10, 18, 6) = 0
      [] inv.op = "migration-recv" ->
           /\ Bits(cmd.cdw10, 16, 16) = inv.cntlid
           /\ Bits(cmd.cdw11, 16, 8) = inv.csuuidi
           /\ Bits(cmd.cdw11, 0, 8) = inv.csvi
      [] inv.op = "set-cdq" ->
           inv.tpt # DwAllOnes => Bits(cmd.cdw11, 31, 1) = 1 /\ cmd.cdw13 = inv.tpt
      [] OTHER -> TRUE

\* A handler always returns to its caller: no option combination or I/O
\* failure makes lm_migration_send or lm_migration_recv dereference NULL.
HandlerReturns == rc # Killed

\* The return value tells the caller what happened (spec 4.2 and 7):
\* 0 only when the command reached the device, completed with success and
\* its output was delivered; a positive value only for an NVMe status the
\* device returned; local validation, I/O and transport failures negative.
ReturnReportsOutcome ==
  rc \in Int =>
    /\ rc = 0 => out.kind \in SuccessKinds \cup {"None"}
    /\ rc > 0 => out.kind = "Status"

\* The buffer handed with a data-transferring command holds every dword the
\* command asks the device to move: the CDQ size for Create CDQ, NUMD for
\* Migration Send, NUMD + 1 for Migration Receive; and a command handed no
\* buffer (a NULL addr) asks for no data transfer (spec 4.2: Migration Send
\* carries an address and length only with a Set Controller State payload).
TransferFitsBuffer ==
  cmd # NoCmd =>
    IF cmd.addr = NoBuffer
    THEN cmd.dataLen = DwZero
    ELSE LET capacity == DwShr(cmd.dataLen, 2)
         IN CASE cmd.opcode = NVME_ADMIN_CONTROLLER_DATA_QUEUE ->
                   ~DwLess(capacity, cmd.cdw12)
              [] cmd.opcode = NVME_ADMIN_MIGRATION_SEND ->
                   ~DwLess(capacity, cmd.cdw15)
              [] cmd.opcode = NVME_ADMIN_MIGRATION_RECEIVE ->
                   DwLess(cmd.cdw15, capacity)
              [] OTHER -> TRUE
==============================================================================
