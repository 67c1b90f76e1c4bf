SPECIFICATION FairSpec
CONSTANTS
  None = None
  Absent = Absent
  NoBus = NoBus
  usbBus = usbBus
  OtherBuses = {usbBus}
  Domains = {0, 1}
  BDFs = {1, 2}
  PciDevices <- MCPciDevices
  PciBuses <- TheAliased
  Names = {1, 2}
  Ifaces <- TwoIfaces
  Macs = {1, 2}
  Addrs = {1, 2}
  Drivers = {"igb", "ath"}
  Patterns = {"a", "i", ""}
  Contains <- MCContains
  OptsChoices <- AllOpts
  MaxChanges = 1
  MaxFaults = 1
INVARIANTS
  TypeOK
  TurnsAdmissible
  QuietTurnIsExact
  OneTurnEach
  Provenance
PROPERTIES
  Termination
  SteadyInterfaceShown
