SPECIFICATION Spec
CONSTANTS
  PAGE = 4
  ENTRIES = 4
  STACK = 8
  SPACE = 128
  Images <- MCImages
  Firmware <- MCFirmware
  Probes <- MCProbes
  Heap <- MCHeap
INVARIANTS ImageLoaded NothingAtNull
PROPERTIES ContainerStarts ExitsReturn ImplementsProcessor
CHECK_DEADLOCK FALSE
