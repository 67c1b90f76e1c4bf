------------------------------- MODULE Ifshow -------------------------------
(***************************************************************************)
(* The Linux build of ifshow: main.rs, with the accessors of ifr.rs and    *)
(* proc.rs it calls, running beside a kernel that changes under it.        *)
(*                                                                         *)
(* The program is sequential.  It asks for the list of interfaces once,    *)
(* then takes one turn per name; in a turn it makes a dozen kernel calls   *)
(* and prints lines as it goes.  Each call is a step of its own here,      *)
(* because the kernel may change between any two of them.                  *)
(***************************************************************************)
EXTENDS Ifr, PciUtils

CONSTANTS
  OptsChoices,  \* the command lines considered
  MaxChanges,   \* bound on the kernel's changes during the run
  MaxFaults     \* bound on the calls that fail although the name exists

OptsType == [all : BOOLEAN, verbose : BOOLEAN,
             named : SUBSET Names, driver : SUBSET Patterns]

ASSUME IfshowAssumption ==
  /\ OptsChoices \subseteq OptsType
  /\ MaxChanges \in Nat
  /\ MaxFaults \in Nat

VARIABLES
  kernel,     \* the interface, or Absent, behind each name
  bus,        \* the PCI bus when it is enumerated
  changes,    \* how often the kernel has changed
  faults,     \* how many calls have failed

  opts,       \* the command line
  pc,         \* where main stands
  table,      \* pci_devices
  todo,       \* the names of all_interfaces whose turn is to come
  cur,        \* the name whose turn it is, or None
  info,       \* drv_info
  block,      \* the lines printed for cur so far
  turns,      \* the turns taken; the blocks of those "shown" are the output
  listed,     \* history: the names that were listed
  window      \* history: what a call about cur may have found in this turn

env  == <<kernel, bus, changes, faults>>
vars == <<kernel, bus, changes, faults,
          opts, pc, table, todo, cur, info, block, turns, listed, window>>

\* A block with none of its lines printed.
NoLines == [link |-> None, mac |-> None, v4 |-> None, v6 |-> None,
            driver |-> None, bus |-> None, pci |-> None, detail |-> None,
            flags |-> None, mtu |-> None, metric |-> None, stats |-> None]

Least(S) == CHOOSE n \in S : \A m \in S : n <= m
-----------------------------------------------------------------------------
\* --driver: one of the patterns occurs in the driver's name.
DriverAccepted(i) ==
  \/ opts.driver = {}
  \/ i # None /\ \E p \in opts.driver : <<i.driver, p>> \in Contains
-----------------------------------------------------------------------------
(***************************************************************************)
(* The steps.                                                              *)
(***************************************************************************)
Init ==
  /\ kernel \in [Names -> Observable]
  /\ bus \in PciBuses
  /\ changes = 0
  /\ faults = 0
  /\ opts \in OptsChoices
  /\ pc = "start"
  /\ table = EmptyTable
  /\ todo = {}
  /\ cur = None
  /\ info = None
  /\ block = NoLines
  /\ turns = << >>
  /\ listed = {}
  /\ window = {}

\* A call fails that could have succeeded.
Fault ==
  /\ faults < MaxFaults
  /\ faults' = faults + 1
  /\ UNCHANGED <<kernel, bus, changes>>

\* A call about cur finds e.
Finds(e) ==
  \/ e = kernel[cur] /\ UNCHANGED env
  \/ e = Absent /\ kernel[cur] # Absent /\ Fault

\* One call about cur, made at p, after which main stands at q.
Call(p, q, e) ==
  /\ pc = p
  /\ pc' = q
  /\ Finds(e)
  /\ window' = window \cup {e}
  /\ UNCHANGED <<opts, table, todo, cur, turns, listed>>

\* The turn of cur ends: a continue of the loop, or its last line.
EndTurn(outcome, lines, seen) ==
  /\ turns' = Append(turns, [name |-> cur, outcome |-> outcome,
                             window |-> seen, block |-> lines])
  /\ cur' = None
  /\ info' = None
  /\ block' = NoLines
  /\ window' = {}
  /\ pc' = "next"
  /\ UNCHANGED <<opts, table, todo, listed>>

Enumerate ==
  /\ pc = "start"
  /\ pc' = "list"
  /\ \/ table' \in Tables(bus) /\ UNCHANGED env
     \/ table' = EmptyTable /\ Fault
  /\ UNCHANGED <<opts, todo, cur, info, block, turns, listed, window>>

\* getifaddrs, the set of its names; sort and dedup make it a walk in order.
ListInterfaces ==
  /\ pc = "list"
  /\ pc' = "next"
  /\ listed' = {n \in Names : kernel[n] # Absent}
  /\ todo' = listed'
  /\ UNCHANGED env
  /\ UNCHANGED <<opts, table, cur, info, block, turns, window>>

\* The ? after get_if_list: main returns the error.
ListFails ==
  /\ pc = "list"
  /\ pc' = "failed"
  /\ Fault
  /\ UNCHANGED <<opts, table, todo, cur, info, block, turns, listed, window>>

\* The order of a set's iteration, without the sort.
MUT_NextName ==
  /\ pc = "next"
  /\ \E n \in todo :
       /\ cur' = n
       /\ todo' = todo \ {n}
       /\ window' = {kernel[n]}
  /\ pc' = "filter"
  /\ UNCHANGED env
  /\ UNCHANGED <<opts, table, info, block, turns, listed>>

NextName ==
  /\ pc = "next"
  /\ todo # {}
  /\ cur' = Least(todo)
  /\ todo' = todo \ {cur'}
  /\ window' = {kernel[cur']}
  /\ pc' = "filter"
  /\ UNCHANGED env
  /\ UNCHANGED <<opts, table, info, block, turns, listed>>

Excluded ==
  /\ pc = "filter"
  /\ opts.named # {} /\ cur \notin opts.named
  /\ EndTurn("excluded", NoLines, window)
  /\ UNCHANGED env

\* Interface::new
OpenSocket ==
  /\ pc = "filter"
  /\ opts.named = {} \/ cur \in opts.named
  /\ pc' = "flags1"
  /\ UNCHANGED env
  /\ UNCHANGED <<opts, table, todo, cur, info, block, turns, listed, window>>

SocketFails ==
  /\ pc = "filter"
  /\ opts.named = {} \/ cur \in opts.named
  /\ Fault
  /\ EndTurn("nosocket", NoLines, window \cup {Absent})

ShowDown == opts.all \/ cur \in opts.named

CheckUp == \E e \in Observable :
  /\ IsUp(e) \/ ShowDown
  /\ Call("flags1", "drvinfo", e)
  /\ UNCHANGED <<info, block>>

\* The test without the clause for interfaces named on the command line.
MUT_SkipDown == \E e \in Observable :
  /\ pc = "flags1"
  /\ ~IsUp(e) /\ ~opts.all
  /\ Finds(e)
  /\ EndTurn("down", NoLines, window \cup {e})

SkipDown == \E e \in Observable :
  /\ pc = "flags1"
  /\ ~IsUp(e) /\ ~ShowDown
  /\ Finds(e)
  /\ EndTurn("down", NoLines, window \cup {e})

\* drv_info, kept for the filter and for the lines below.
GetDrvinfo == \E e \in Observable :
  /\ DriverAccepted(EthtoolDrvinfo(e))
  /\ Call("drvinfo", "link", e)
  /\ info' = EthtoolDrvinfo(e)
  /\ UNCHANGED block

SkipDriver == \E e \in Observable :
  /\ pc = "drvinfo"
  /\ ~DriverAccepted(EthtoolDrvinfo(e))
  /\ Finds(e)
  /\ EndTurn("otherdriver", NoLines, window \cup {e})

\* The header line: the name and the link status.
PrintHeader == \E e \in Observable :
  /\ Call("link", "mac", e)
  /\ block' = [block EXCEPT !.link = EthtoolLink(e)]
  /\ UNCHANGED info

PrintMac == \E e \in Observable :
  /\ Call("mac", "inet", e)
  /\ block' = [block EXCEPT !.mac = Mac(e)]
  /\ UNCHANGED info

PrintInet == \E e \in Observable :
  /\ Call("inet", "inet6", e)
  /\ block' = [block EXCEPT !.v4 = InetAddrs(e)]
  /\ UNCHANGED info

PrintInet6 == \E e \in Observable :
  /\ Call("inet6", "bus", e)
  /\ block' = [block EXCEPT !.v6 = Inet6Addr(e)]
  /\ UNCHANGED info

\* bus_str_owned
BusInfo == IF info = None THEN NoBus ELSE info.bus

\* The lines of drv_info; the bus line only when there is a bus.
WithDriverLines ==
  [block EXCEPT !.driver = IF info = None THEN None ELSE info.driver,
                !.bus = IF BusInfo = NoBus THEN None ELSE BusInfo]

\* The lines of pci_info_opt; those of --verbose are the detail.
WithPciLines(lines, key) ==
  [lines EXCEPT !.pci = Lookup(table, key),
                !.detail = IF opts.verbose THEN Lookup(table, key) ELSE None]

\* The driver's lines taken from a call made where they are printed.
MUT_PrintDriver == \E e \in Observable :
  LET i == EthtoolDrvinfo(e)
      b == IF i = None THEN NoBus ELSE i.bus
  IN
  /\ Call("bus", IF b \in OtherBuses THEN "uevent" ELSE "flags2", e)
  /\ block' = WithPciLines([block EXCEPT
                !.driver = IF i = None THEN None ELSE i.driver,
                !.bus = IF b = NoBus THEN None ELSE b], ParsePciAddress(b))
  /\ UNCHANGED info

\* The driver's lines, and the first try of find_pci_info_for_interface.
PrintDriver ==
  /\ pc = "bus"
  /\ IF BusInfo = NoBus \/ ParsePciAddress(BusInfo) # None
     THEN pc' = "flags2"
     ELSE pc' = "uevent"
  /\ block' = WithPciLines(WithDriverLines, ParsePciAddress(BusInfo))
  /\ UNCHANGED env
  /\ UNCHANGED <<opts, table, todo, cur, info, turns, listed, window>>

\* extract_pci_from_sysfs: the uevent file, then the device link.
ReadUevent == \E e \in Observable :
  /\ Call("uevent", IF Uevent(e) = None THEN "devlink" ELSE "flags2", e)
  /\ block' = WithPciLines(block, ParsePciAddress(Uevent(e)))
  /\ UNCHANGED info

\* A link that is not there is waited for.
MUT_ReadDevlink == \E e \in Observable :
  /\ Call("devlink", IF Devlink(e) = None THEN "devlink" ELSE "flags2", e)
  /\ block' = WithPciLines(block, ParsePciAddress(Devlink(e)))
  /\ UNCHANGED info

ReadDevlink == \E e \in Observable :
  /\ Call("devlink", "flags2", e)
  /\ block' = WithPciLines(block, ParsePciAddress(Devlink(e)))
  /\ UNCHANGED info

PrintFlags == \E e \in Observable :
  /\ Call("flags2", "mtu", e)
  /\ block' = [block EXCEPT !.flags = FlagsStr(e)]
  /\ UNCHANGED info

PrintMtu == \E e \in Observable :
  /\ Call("mtu", "metric", e)
  /\ block' = [block EXCEPT !.mtu = Mtu(e)]
  /\ UNCHANGED info

PrintMetric == \E e \in Observable :
  /\ Call("metric", "stats", e)
  /\ block' = [block EXCEPT !.metric = Metric(e)]
  /\ UNCHANGED info

\* get_stats and the end of the loop's body.
PrintStats == \E e \in Observable :
  /\ pc = "stats"
  /\ Finds(e)
  /\ EndTurn("shown", [block EXCEPT !.stats = Stats(e)], window \cup {e})

Finish ==
  /\ pc = "next"
  /\ todo = {}
  /\ pc' = "done"
  /\ UNCHANGED env
  /\ UNCHANGED <<opts, table, todo, cur, info, block, turns, listed, window>>

\* An interface appears, disappears, is replaced or is reconfigured.
KernelChanges(n, e) ==
  /\ changes < MaxChanges
  /\ changes' = changes + 1
  /\ kernel[n] # e
  /\ kernel' = [kernel EXCEPT ![n] = e]
  /\ window' = IF n = cur THEN window \cup {e} ELSE window
  /\ UNCHANGED <<bus, faults, opts, pc, table, todo, cur, info, block,
                 turns, listed>>

Program ==
  \/ Enumerate \/ ListInterfaces \/ ListFails \/ NextName
  \/ Excluded \/ OpenSocket \/ SocketFails \/ CheckUp \/ SkipDown
  \/ GetDrvinfo \/ SkipDriver \/ PrintHeader \/ PrintMac
  \/ PrintInet \/ PrintInet6 \/ PrintDriver \/ ReadUevent \/ ReadDevlink
  \/ PrintFlags \/ PrintMtu \/ PrintMetric \/ PrintStats \/ Finish

\* The process has exited; the kernel goes on.
Exited == pc \in {"done", "failed"} /\ UNCHANGED vars

Next ==
  \/ Program
  \/ \E n \in Names, e \in Observable : KernelChanges(n, e)
  \/ Exited

Spec == Init /\ [][Next]_vars

\* The scheduler runs the process; no call of it blocks for ever.
FairSpec == Spec /\ WF_vars(Program)
-----------------------------------------------------------------------------
(***************************************************************************)
(* What the program promises.                                              *)
(***************************************************************************)
InTurn == pc \notin {"start", "list", "next", "done", "failed"}

R == INSTANCE Report WITH phase <- IF InTurn THEN "turn" ELSE pc,
                          blind <- table = EmptyTable

TurnIndices == 1 .. Len(turns)

BlockType ==
  [link : {"LINK UP", "NO LINK", None}, mac : Macs \cup {None},
   v4 : Seq(Addrs) \cup {None}, v6 : Seq(Addrs) \cup {None},
   driver : Drivers \cup {None}, bus : BusNames \cup {None},
   pci : PciDevices \cup {None}, detail : PciDevices \cup {None},
   flags : (SUBSET I16Flags) \cup {None},
   mtu : Nat \cup {None}, metric : Nat \cup {None},
   stats : [rx : Nat, tx : Nat] \cup {None}]

TurnType ==
  [name : Names, window : SUBSET Observable, block : BlockType,
   outcome : {"excluded", "nosocket", "down", "otherdriver", "shown"}]

\* Every variable has its type; a block is printed only in a turn.
TypeOK ==
  /\ kernel \in [Names -> Observable]
  /\ bus \in PciBuses
  /\ changes \in 0 .. MaxChanges
  /\ faults \in 0 .. MaxFaults
  /\ opts \in OptsChoices
  /\ pc \in {"start", "list", "next", "filter", "flags1", "drvinfo", "link",
             "mac", "inet", "inet6", "bus", "uevent", "devlink", "flags2",
             "mtu", "metric", "stats", "done", "failed"}
  /\ table \in [BDFs -> PciDevices \cup {None}]
  /\ todo \subseteq Names
  /\ listed \subseteq Names
  /\ cur \in IF InTurn THEN Names ELSE {None}
  /\ info \in InfoType \cup {None}
  /\ block \in BlockType
  /\ turns \in Seq(TurnType)
  /\ window \subseteq Observable

(***************************************************************************)
(* Whatever the kernel does, a turn's outcome has a reason that was true   *)
(* in the turn, each line of a block was true at some moment of the turn,  *)
(* and the driver, its bus and the PCI device are those of one answer, the *)
(* one that passed --driver (main.rs reads drv_info once, l.64).           *)
(***************************************************************************)
TurnsAdmissible == \A i \in TurnIndices : R!Admissible(turns[i])

\* Block l is the whole truth about e.
Exact(l, e) ==
  /\ \A line \in DOMAIN R!Tells(e) : l[line] = R!Tells(e)[line]
  /\ R!DriverLinesHold(l, {e})

(***************************************************************************)
(* An interface that keeps still for its turn, and answers, gets exactly   *)
(* the turn and the block it should: no line is left over from another     *)
(* interface, from another turn, or from a call that found something else. *)
(***************************************************************************)
QuietTurnIsExact ==
  \A i \in TurnIndices, e \in Ifaces :
    turns[i].window = {e} =>
      /\ turns[i].outcome = R!Verdict(turns[i].name, e)
      /\ turns[i].outcome = "shown" => Exact(turns[i].block, e)

(***************************************************************************)
(* Every name that was listed gets one turn and no more, in the order of   *)
(* the names, however interfaces come and go meanwhile (main.rs l.41-47).  *)
(***************************************************************************)
OneTurnEach ==
  /\ \A i, j \in TurnIndices : i < j => turns[i].name < turns[j].name
  /\ pc = "done" => {turns[i].name : i \in TurnIndices} = listed

\* The program implements its promise, the module Report.
ImplementsReport == R!RepSpec

\* main returns.
Termination == <>(pc \in {"done", "failed"})

(***************************************************************************)
(* An interface that is there from start to end, in one state that the     *)
(* command line asks for, is shown in the end, unless a call about it or   *)
(* the list itself fails: no `continue' of the loop drops it.              *)
(***************************************************************************)
SteadyInterfaceShown ==
  \A n \in Names, e \in Ifaces :
    [](kernel[n] = e) /\ R!Verdict(n, e) = "shown" =>
      <>(\/ pc = "failed"
         \/ \E i \in TurnIndices :
              /\ turns[i].name = n
              /\ \/ turns[i].outcome = "shown" /\ Exact(turns[i].block, e)
                 \/ Absent \in turns[i].window)
=============================================================================
