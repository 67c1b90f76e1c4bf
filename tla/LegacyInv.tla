----------------------------- MODULE LegacyInv ------------------------------
(***************************************************************************)
(* Inductive invariants of Legacy: what show_interfaces knows at each of   *)
(* its points.                                                             *)
(***************************************************************************)
EXTENDS Legacy

\* The points of a turn from a given one on; the lines that only --verbose asks for
\* lie between inet6 and driver.
FromPci      == {"pci", "driver"}
FromMap      == {"map", "stats", "queue"} \cup FromPci
FromInet6    == {"inet6"} \cup FromMap
FromInet     == {"inet"} \cup FromInet6
FromMtu      == {"mtu", "metric"} \cup FromInet
FromFlags2   == {"flags2"} \cup FromMtu
FromRadio    == {"radio"} \cup FromFlags2
FromWifi     == {"wifi"} \cup FromRadio
FromMac      == {"mac"} \cup FromWifi
FromSettings == {"settings", "link1", "link2"} \cup FromMac
FromDrvinfo  == {"drvinfo"} \cup FromSettings
FromFlags1   == {"flags1"} \cup FromDrvinfo
TurnPoints   == {"filter"} \cup FromFlags1

\* What the tests that the turn has passed have found.
TestsPassed ==
  /\ pc \in TurnPoints => kernel[cur] \in window
  /\ pc \in FromFlags1 => ~R!Excludes(cur)
  /\ pc = "flags1" => ~opts.all
  /\ pc \in FromDrvinfo => R!ShowsDown(cur) \/ Running(window)
  /\ pc \in FromSettings =>
       \E e \in window : info = EthtoolInfo(e) /\ R!Passes(info)

\* A line that is not tried yet is not there.
NotYetPrinted ==
  /\ pc \notin FromSettings \cup {"crashed"} => block = NoLines
  /\ pc \in {"settings", "link1"} => block.bold = None
  /\ pc \in {"settings", "link1", "link2"} => block.link = None
  /\ pc \in FromSettings \ FromInet => block.metric = None
  /\ pc \in FromSettings \ (FromInet \cup {"metric"}) => block.mtu = None
  /\ pc \in FromSettings \ FromInet6 => block.v4 = None
  /\ pc \in FromSettings \ ({"stats", "queue"} \cup FromPci) => block.irq = None
  /\ pc \in FromSettings \ ({"queue"} \cup FromPci) => block.stats = None
  /\ pc \in FromSettings \ FromPci => block.queue = None
  /\ pc \in FromSettings \ {"driver"} => block.pci = None
  /\ pc \in FromSettings => block.driver = None /\ block.bus = None

\* What the lines, and the parts of the line under way, say was found in this turn.
HeaderFound ==
  /\ pc \in {"link1", "link2"} => \E e \in window : EthtoolCommand(e) # None
  /\ pc = "link2" => /\ block.bold # None
                     /\ \E e \in window : block.bold = EthtoolLink(e)
  /\ pc \in FromMac => HeaderHolds(block, window)

TopLinesFound ==
  /\ pc \in FromWifi => \E e \in window : block.mac = Mac(e)
  /\ pc \in FromRadio => \E e \in window : block.wifi = WifiInfo(e)
  /\ pc \in FromFlags2 => \E e \in window : block.radio = WirelessStatus(e)
  /\ pc \in {"mtu", "metric"} =>
       block.flags # None /\ \E e \in window : block.flags = FlagsStr(e)
  /\ pc = "metric" => block.mtu # None /\ \E e \in window : block.mtu = Mtu(e)
  /\ pc \in FromInet => FlagsLineHolds(block, window)
  /\ pc \in FromInet6 => \E e \in window : block.v4 = InetAddr(e)
  /\ pc \in FromMap => \E e \in window : block.v6 = Inet6Addr(e)

VerboseLinesFound ==
  /\ pc \in {"map", "stats", "queue", "pci"} => opts.verbose
  /\ pc \in {"stats", "queue"} => \E e \in window : block.irq = MapIrq(e)
  /\ pc = "queue" => /\ block.stats # None
                     /\ \E e \in window : block.stats \in GetStats(e)
  /\ pc \in FromPci => VerboseLinesHold(block, window)

\* The PCI lines of an interface in a slot are those of its slot.
CardFound ==
  pc = "driver" /\ opts.verbose /\ info # None =>
    (info.bus \in Slots => block.pci = bus[info.bus])

(***************************************************************************)
(* Each line of the block under way, and each test it has passed, goes     *)
(* back to something that was found in this turn.                          *)
(***************************************************************************)
Provenance ==
  /\ TestsPassed
  /\ NotYetPrinted
  /\ HeaderFound
  /\ TopLinesFound
  /\ VerboseLinesFound
  /\ CardFound

\* A turn is under way at the points of a turn, and between two turns none is.
Framing ==
  /\ pc \in TurnPoints => cur \in Names
  /\ pc \in {"start", "list", "next", "done"} => cur = None

(***************************************************************************)
(* The names walked are those listed, and the counter of the blocks tells  *)
(* whether one has begun, in the turns taken or in the one under way.      *)
(***************************************************************************)
Progress ==
  /\ Walked = listed
  /\ pc \in {"start", "list"} => turns = << >> /\ todo = << >>
  /\ pc = "done" => todo = << >>
  /\ pc # "crashed" => (devnum > 0 <=> \/ \E i \in TurnIndices : Begun(i)
                                       \/ pc \in FromSettings)
  /\ pc \in FromSettings => block.blank = (\E i \in TurnIndices : Begun(i))
=============================================================================
