CONSTANTS
  Selects <- MCSelects
  U8Args <- MCU8Args
  U16Args <- MCU16Args
  CdqSizes <- MCCdqSizes
  Numds <- MCNumds
  Offsets <- MCOffsets
  HeadPointers <- MCHeadPointers
  Triggers <- MCTriggers
  InputFiles <- MCInputFiles
  OutputFiles <- MCOutputFiles
  Formats <- MCFormats
  Results <- MCResults
  DeviceStatuses <- MCDeviceStatuses
  ShortReadErrnos <- MCShortReadErrnosAny
  OpenErrors <- MCOpenErrors
  CdqPayloads <- MCCdqPayloads
  Killed = Killed

SPECIFICATION Spec

INVARIANT ReturnReportsOutcome

CHECK_DEADLOCK FALSE
