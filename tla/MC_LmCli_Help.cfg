CONSTANTS
  Selects <- MCSelectsHelp
  U8Args <- MCU8ArgsHelp
  U16Args <- MCU16Args
  CdqSizes <- MCCdqSizes
  Numds <- MCNumds
  Offsets <- MCOffsets
  HeadPointers <- MCHeadPointers
  Triggers <- MCTriggersHelp
  InputFiles <- MCInputFiles
  OutputFiles <- MCOutputFiles
  Formats <- MCFormats
  Results <- MCResults
  DeviceStatuses <- MCDeviceStatuses
  ShortReadErrnos <- MCShortReadErrnos
  OpenErrors <- MCOpenErrors
  CdqPayloads <- MCCdqPayloads
  Killed = Killed

SPECIFICATION Spec

INVARIANT OptionsAsDocumented

CHECK_DEADLOCK FALSE
