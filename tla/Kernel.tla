------------------------------- MODULE Kernel -------------------------------
(***************************************************************************)
(* What the kernel can tell of network interfaces and of the PCI bus: the  *)
(* data every other module is about.  The kernel is not part of the        *)
(* repository; its side is modelled from the questions src/ puts to it.    *)
(*                                                                         *)
(* A PCI slot is a record of a domain and a bus:device.function triple;    *)
(* the triple is one value here.  What a driver or sysfs reports as the    *)
(* place of an interface is a bus name: a slot, written out in full, or    *)
(* some other text (an element of OtherBuses), or the empty text (NoBus).  *)
(***************************************************************************)
EXTENDS Naturals, Sequences

CONSTANTS
  None,         \* nothing: Option::None, a failed query, a line not printed
  Domains,      \* PCI domains (segments)
  BDFs,         \* bus:device.function triples
  OtherBuses,   \* bus names that are not PCI addresses ("N/A", "usb-...")
  NoBus,        \* the empty bus name
  PciDevices,   \* the devices that may sit in a slot: records of DeviceType
  PciBuses,     \* the populations of the PCI bus considered
  Names,        \* interface names, each as its rank in the order of strings
  Ifaces,       \* the states an interface may be in: records of IfaceType
  Absent,       \* the state of a name that no interface has
  Macs, Addrs,  \* hardware addresses; address/prefix pairs
  Drivers,      \* driver names
  Patterns,     \* texts looked for in driver names
  Contains      \* the pairs <<driver, pattern>> where str::contains holds

Slots == [domain : Domains, bdf : BDFs]

BusNames == Slots \cup OtherBuses \cup {NoBus}

\* readable: class, subclass and location of the device can be read.
DeviceType == [id : Nat, class : Nat, readable : BOOLEAN]

\* The bits of the flag word that a signed 16-bit word keeps, and the rest.
I16Flags == {"UP", "BROADCAST", "DEBUG", "LOOPBACK", "PTP", "NOTRAILERS",
             "RUNNING", "NOARP", "PROMISC", "ALLMULTI", "MASTER", "SLAVE",
             "MULTICAST", "PORTSEL", "AUTOMEDIA", "DYNAMIC"}
HighFlags == {"LOWER_UP", "DORMANT", "ECHO"}

InfoType == [driver : Drivers, bus : BusNames]

IfaceType ==
  [flags : SUBSET (I16Flags \cup HighFlags),
   link : Nat \cup {None},                      \* None: no such query
   mac : Macs, v4 : Seq(Addrs), v6 : Seq(Addrs),
   info : InfoType \cup {None},                 \* None: no such query
   uevent : (BusNames \ {NoBus}) \cup {None},   \* its PCI_SLOT_NAME, if any
   devlink : (BusNames \ {NoBus}) \cup {None},  \* where device points, if so
   mtu : Nat, metric : Nat, rx : Nat, tx : Nat,
   settings : BOOLEAN,                          \* it answers ETHTOOL_GSET
   hwaddr : BOOLEAN,                            \* it has a hardware address
   wireless : Nat \cup {None},                  \* None: no wireless extension
   irq : Nat]

\* What a call about a name may find.
Observable == Ifaces \cup {Absent}

ASSUME KernelAssumption ==
  /\ PciDevices \subseteq DeviceType
  /\ PciBuses \subseteq [Slots -> PciDevices \cup {None}]
  /\ Names \subseteq Nat
  /\ Ifaces \subseteq IfaceType
  /\ Absent \notin Ifaces

\* None and NoBus are told apart from every value they stand beside.
ASSUME NothingAssumption ==
  /\ None \notin Nat /\ None \notin PciDevices /\ None \notin BusNames
  /\ None \notin Macs /\ None \notin Drivers /\ None \notin BDFs
  /\ \A i \in InfoType : i # None
  /\ \A s \in Slots : s \notin OtherBuses /\ s # NoBus
  /\ NoBus \notin OtherBuses
=============================================================================
