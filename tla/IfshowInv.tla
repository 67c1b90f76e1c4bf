----------------------------- MODULE IfshowInv ------------------------------
(***************************************************************************)
(* Inductive invariants of Ifshow: what main knows at each of its points.  *)
(***************************************************************************)
EXTENDS Ifshow

\* The points of a turn from a given one on.
FromFlags2  == {"flags2", "mtu", "metric", "stats"}
FromUevent  == {"uevent", "devlink"} \cup FromFlags2
FromBus     == {"bus"} \cup FromUevent
FromInet6   == {"inet6"} \cup FromBus
FromInet    == {"inet"} \cup FromInet6
FromMac     == {"mac"} \cup FromInet
FromLink    == {"link"} \cup FromMac
FromDrvinfo == {"drvinfo"} \cup FromLink
FromFlags1  == {"flags1"} \cup FromDrvinfo

\* The table is of the bus, or empty; no turn is taken before it is there.
TableRight ==
  /\ table = EmptyTable \/ table \in Tables(bus)
  /\ pc \in {"start", "list", "failed"} => turns = << >>

\* What the tests that the turn has passed have found.
TestsPassed ==
  /\ pc = "filter" \/ pc \in FromFlags1 => kernel[cur] \in window
  /\ pc \in FromFlags1 => ~R!Excludes(cur)
  /\ pc \in FromDrvinfo =>
       R!ShowsDown(cur) \/ \E e \in window : R!Running(e)
  /\ pc \in FromLink =>
       \E e \in window : info = R!DriverOf(e) /\ R!Passes(info)

\* What the lines printed before the driver's say was found in this turn.
EarlyLinesHold ==
  /\ pc \in FromMac => \E e \in window : block.link = R!Tells(e).link
  /\ pc \in FromInet => \E e \in window : block.mac = R!Tells(e).mac
  /\ pc \in FromInet6 => \E e \in window : block.v4 = R!Tells(e).v4
  /\ pc \in FromBus => \E e \in window : block.v6 = R!Tells(e).v6

\* The driver's lines are those of info, and lead to the PCI device.
BusLinesHold ==
  /\ pc \in FromUevent =>
       /\ block.driver = IF info = None THEN None ELSE info.driver
       /\ block.bus = IF info = None \/ info.bus = NoBus
                      THEN None ELSE info.bus
  /\ pc \in {"uevent", "devlink"} =>
       info # None /\ info.bus # NoBus /\ info.bus \notin Slots
  /\ pc = "devlink" =>
       \E u \in window : u = Absent \/ u.uevent = None
  /\ pc \in FromFlags2 =>
       /\ R!IdentifiedAs(info, block.pci, window)
       /\ block.detail = IF opts.verbose THEN block.pci ELSE None

\* What the lines printed after them say was found in this turn.
LateLinesHold ==
  /\ pc \in FromFlags2 \ {"flags2"} =>
       \E e \in window : block.flags = R!Tells(e).flags
  /\ pc \in {"metric", "stats"} =>
       \E e \in window : block.mtu = R!Tells(e).mtu
  /\ pc = "stats" => \E e \in window : block.metric = R!Tells(e).metric

(***************************************************************************)
(* Each line of the block under way, and each test it has passed, goes     *)
(* back to something that was found in this turn.                          *)
(***************************************************************************)
Provenance ==
  /\ TableRight
  /\ TestsPassed
  /\ EarlyLinesHold
  /\ BusLinesHold
  /\ LateLinesHold

(***************************************************************************)
(* The names listed are those of the turns taken, of the turn under way    *)
(* and of the turns to come, in this order.                                *)
(***************************************************************************)
Progress ==
  /\ listed = {turns[i].name : i \in TurnIndices} \cup todo
                \cup (IF InTurn THEN {cur} ELSE {})
  /\ \A i, j \in TurnIndices : i < j => turns[i].name < turns[j].name
  /\ \A i \in TurnIndices, m \in todo : turns[i].name < m
  /\ InTurn => /\ \A i \in TurnIndices : turns[i].name < cur
               /\ \A m \in todo : cur < m
  /\ pc \in {"start", "list"} => turns = << >> /\ todo = {}
  /\ pc = "done" => todo = {}
=============================================================================
