SPECIFICATION FairSpec
CONSTANTS
  None = None
  Absent = Absent
  NoBus = NoBus
  usbBus = usbBus
  OtherBuses = {usbBus}
  Domains = {0, 1}
  BDFs = {1, 2}
  PciDevices <- MCPciDevices
  PciBuses <- JustPlain
  Names = {1, 2}
  Ifaces <- Cards
  Macs = {1, 2}
  Addrs = {1, 2}
  Drivers = {"igb", "ath"}
  Patterns = {"a", "i", ""}
  Contains <- MCContains
  OptsChoices <- Options
  UIntMax = 7
  Garbage = {0, 6}
  IrqRange = 4
  Interrupts <- IdleInterrupts
  MaxChanges = 1
  MaxFaults = 1
INVARIANTS
  TurnsAdmissible
  WalkGoesOn
PROPERTIES
  Termination
  SteadyInterfaceShown
