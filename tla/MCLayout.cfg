SPECIFICATION Spec
CONSTANTS
  WordBits = 6
  PortTop = 16
  UartMin = 2
  VirtioMin = 2
  MIB = 2
  MinMib = 3
  RAM = 12
  UART = 2
  UART_SIZE = 2
  VIRTIO_BASE = 4
  VIRTIO_STRIDE = 2
  GIC_DIST = 0
  GIC_REDIST = 8
  DistSize = 2
  UART_IRQ = 1
  VIRTIO_IRQ_BASE = 2
  IrqEnd = 4
  KernelAlign = 2
  InitrdAlign = 2
  DtbSpace = 2
  Page = 2
  Widths <- MCWidths
  Word = 2
  ConfigBase = 2
  ConfigEnd = 4
  Starts <- MCStarts
  Regions <- MCRegions
  RamRegions <- MCRamRegions
  RedistSizes <- MCRedistSizes
  SpiRanges <- MCSpiRanges
  DtbSizes <- MCDtbSizes
  Accesses <- MCAccesses
  Any = any
  None = none
CHECK_DEADLOCK FALSE
INVARIANTS
  LayoutTypeOK
  VerdictRight
  OwnLayoutSound
  DecodeExact
