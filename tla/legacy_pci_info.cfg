SPECIFICATION Spec
CONSTANTS
  None = None
  Absent = Absent
  NoBus = NoBus
  usbBus = usbBus
  OtherBuses = {usbBus}
  Domains = {0, 1}
  BDFs = {1, 2}
  PciDevices <- MCPciDevices
  PciBuses <- JustPlain
  Names = {1, 2}
  Ifaces <- NicOrPair
  Macs = {1, 2}
  Addrs = {1, 2}
  Drivers = {"igb", "ath"}
  Patterns = {"a", "i", ""}
  Contains <- MCContains
  OptsChoices <- Options
  UIntMax = 7
  Garbage = {0, 6}
  IrqRange = 4
  Interrupts <- BusyInterrupts
  MaxChanges = 0
  MaxFaults = 0
INVARIANT
  PciInfoOfInterface
