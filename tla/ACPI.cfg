SPECIFICATION Spec
CONSTANTS
  PAGE = 4096
  WORD = 65536
  Firmwares <- MCFirmwares
PROPERTY TablesAreRead
CHECK_DEADLOCK FALSE
