SPECIFICATION Spec
CONSTANTS
  None = None
  Absent = Absent
  NoBus = NoBus
  usbBus = usbBus
  OtherBuses = {usbBus}
  Domains = {0, 1}
  BDFs = {1, 2}
  PciDevices <- MCPciDevices
  PciBuses <- BothBuses
  Names = {1}
  Ifaces <- AllIfaces
  Macs = {1, 2}
  Addrs = {1, 2}
  Drivers = {"igb", "ath"}
  Patterns = {"a", "i", ""}
  Contains <- MCContains
  OptsChoices <- AllOpts
  MaxChanges = 2
  MaxFaults = 1
PROPERTY
  ImplementsReport
