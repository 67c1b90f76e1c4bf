------------------------------- MODULE Legacy -------------------------------
(***************************************************************************)
(* legacy/src/ifshow.cpp: the C++ program ifshow was before.               *)
(*                                                                         *)
(* Like its successor it takes one turn per interface beside a kernel that *)
(* changes, but its calls throw.  pretty_print ends the line in which an   *)
(* exception is thrown with the exception's text, and the next line is     *)
(* tried; an exception anywhere else ends the block.  Through all turns it *)
(* keeps one filter of the PCI library, which the library only overwrites  *)
(* in the fields that a bus name has.                                      *)
(***************************************************************************)
EXTENDS LegacyIfr, FiniteSets

CONSTANTS
  OptsChoices,  \* the command lines considered
  MaxChanges,   \* bound on the kernel's changes during the run
  MaxFaults     \* bound on the calls that fail although the name exists

OptsType == [all : BOOLEAN, verbose : BOOLEAN,
             named : SUBSET Names, driver : SUBSET Patterns]

ASSUME LegacyAssumption ==
  /\ IsFiniteSet(Names)
  /\ OptsChoices \subseteq OptsType
  /\ MaxChanges \in Nat
  /\ MaxFaults \in Nat

VARIABLES
  kernel,     \* the interface, or Absent, behind each name
  bus,        \* the devices that pci_scan_bus found
  changes,    \* how often the kernel has changed
  faults,     \* how many calls have failed
  sock,       \* the static socket of class ifr: "unopened", "open" or "failed"

  opts,       \* the command line
  pc,         \* where show_interfaces stands
  todo,       \* the rest of the list that is walked
  cur,        \* the name whose turn it is, or None
  info,       \* the ethtool_drvinfo of cur
  filter,     \* the slot that filter asks for, or None when it asks for any
  devnum,     \* the number of blocks begun
  block,      \* the lines printed for cur so far
  turns,      \* the turns taken
  listed,     \* history: the list that is walked
  window      \* history: what a call about cur may have found in this turn

env  == <<kernel, bus, changes, faults, sock>>
walk == <<opts, todo, cur, turns, listed>>
vars == <<kernel, bus, changes, faults, sock, opts, pc, todo, cur, info, filter,
          devnum, block, turns, listed, window>>

\* A line, or the rest of a line after an exception, that is not printed.
NoLines == [blank |-> None, bold |-> None, link |-> None, mac |-> None,
            wifi |-> None, radio |-> None, flags |-> None, mtu |-> None,
            metric |-> None, v4 |-> None, v6 |-> None, irq |-> None,
            cpus |-> None, stats |-> None, queue |-> None, pci |-> None,
            driver |-> None, bus |-> None]

\* The orders in which /proc/net/dev may list the names of S.
Orders(S) ==
  {s \in [1 .. Cardinality(S) -> S] : \A n \in S : \E i \in DOMAIN s : s[i] = n}

Present == {n \in Names : kernel[n] # Absent}

\* --driver: strstr finds one of the patterns in the driver's name.
DriverAccepted(i) ==
  \/ opts.driver = {}
  \/ i # None /\ \E p \in opts.driver : <<i.driver, p>> \in Contains
-----------------------------------------------------------------------------
(***************************************************************************)
(* The PCI library.  Its filter starts out asking for any device; parsing  *)
(* a bus name sets the fields that the name gives and leaves the others,   *)
(* so that the empty name parses and sets nothing.                         *)
(***************************************************************************)
AnySlot == None

\* The filter set although the name does not parse; a filter set only once.
MUT_FilterAfter(b) == IF b = NoBus THEN filter ELSE b
MUT_FilterOnce(b) == IF b \in Slots /\ filter = AnySlot THEN b ELSE filter

FilterAfter(b) == IF b \in Slots THEN b ELSE filter

Parses(b) == b \in Slots \cup {NoBus}

\* The first of pacc->devices that the filter matches.
FirstMatch(f) ==
  IF f # AnySlot THEN bus[f]
  ELSE IF \A s \in Slots : bus[s] = None THEN None
  ELSE bus[CHOOSE s \in Slots : bus[s] # None]
-----------------------------------------------------------------------------
Init ==
  /\ kernel \in [Names -> Observable]
  /\ bus \in PciBuses
  /\ changes = 0
  /\ faults = 0
  /\ sock = "unopened"
  /\ opts \in OptsChoices
  /\ pc = "start"
  /\ todo = << >>
  /\ cur = None
  /\ info = None
  /\ filter = AnySlot
  /\ devnum = 0
  /\ block = NoLines
  /\ turns = << >>
  /\ listed = << >>
  /\ window = {}

\* A call fails that could have succeeded.
Fault ==
  /\ faults < MaxFaults
  /\ faults' = faults + 1
  /\ UNCHANGED <<kernel, bus, changes>>

\* Where the program stands when it makes a call on the socket of class ifr; the
\* others read files, or call getifaddrs.
SocketCalls ==
  {"flags1", "drvinfo", "settings", "link1", "link2", "mac", "wifi", "flags2",
   "mtu", "metric", "map", "queue"}

\* sock_() opens the socket at the first call that needs it, once for all: when that
\* fails, this call and every later one on it throw.
Opened == IF pc \in SocketCalls /\ sock = "unopened" THEN "open" ELSE sock

SocketThrows ==
  /\ pc \in SocketCalls
  /\ \/ sock = "unopened" /\ sock' = "failed" /\ Fault
     \/ sock = "failed" /\ UNCHANGED env

\* A call about cur finds e.
Finds(e) ==
  \/ e = Absent /\ SocketThrows
  \/ /\ pc \in SocketCalls => sock # "failed"
     /\ sock' = Opened
     /\ \/ e = kernel[cur] /\ UNCHANGED <<kernel, bus, changes, faults>>
        \/ e = Absent /\ kernel[cur] # Absent /\ Fault

\* One call about cur, made at p, after which the program stands at q.
Call(p, q, e) ==
  /\ pc = p
  /\ pc' = q
  /\ Finds(e)
  /\ window' = window \cup {e}
  /\ UNCHANGED walk

\* The turn of cur ends: a continue, an exception, or the last line.
EndTurn(outcome, lines, seen) ==
  /\ turns' = Append(turns, [name |-> cur, outcome |-> outcome,
                             window |-> seen, block |-> lines])
  /\ cur' = None
  /\ info' = None
  /\ block' = NoLines
  /\ window' = {}
  /\ pc' = "next"
  /\ UNCHANGED <<opts, todo, listed>>

\* The list that is read for the width of its longest name.  There is none
\* in an empty list, and the end of that list is dereferenced.
ListForWidth ==
  /\ pc = "start"
  /\ \/ Present # {} /\ pc' = "list" /\ UNCHANGED env
     \/ Present = {} /\ pc' \in {"list", "crashed"} /\ UNCHANGED env
     \/ pc' \in {"list", "crashed"} /\ Fault /\ UNCHANGED sock
  /\ UNCHANGED walk
  /\ UNCHANGED <<info, filter, devnum, block, window>>

\* The list is read again to be walked; a file that does not open is empty.
ListNames ==
  /\ pc = "list"
  /\ pc' = "next"
  /\ \/ listed' \in Orders(Present) /\ UNCHANGED env
     \/ listed' = << >> /\ Fault /\ UNCHANGED sock
  /\ todo' = listed'
  /\ UNCHANGED <<opts, cur, info, filter, devnum, block, turns, window>>

NextName ==
  /\ pc = "next"
  /\ todo # << >>
  /\ cur' = Head(todo)
  /\ todo' = Tail(todo)
  /\ window' = {kernel[cur']}
  /\ pc' = "filter"
  /\ UNCHANGED env
  /\ UNCHANGED <<opts, info, filter, devnum, block, turns, listed>>

Excluded ==
  /\ pc = "filter"
  /\ opts.named # {} /\ cur \notin opts.named
  /\ EndTurn("excluded", NoLines, window)
  /\ UNCHANGED env
  /\ UNCHANGED <<filter, devnum>>

\* With --all the flags are not asked for.
Included ==
  /\ pc = "filter"
  /\ opts.named = {} \/ cur \in opts.named
  /\ pc' = IF opts.all THEN "drvinfo" ELSE "flags1"
  /\ UNCHANGED env
  /\ UNCHANGED walk
  /\ UNCHANGED <<info, filter, devnum, block, window>>

IsUp(e) == "UP" \in Flags(e)

CheckUp == \E e \in Observable :
  /\ Flags(e) # None
  /\ IsUp(e) \/ cur \in opts.named
  /\ Call("flags1", "drvinfo", e)
  /\ UNCHANGED <<info, filter, devnum, block>>

\* The test without the clause for interfaces named on the command line.
MUT_SkipDown == \E e \in Observable :
  /\ pc = "flags1"
  /\ Flags(e) # None
  /\ ~IsUp(e)
  /\ Finds(e)
  /\ EndTurn("down", NoLines, window \cup {e})
  /\ UNCHANGED <<filter, devnum>>

SkipDown == \E e \in Observable :
  /\ pc = "flags1"
  /\ Flags(e) # None
  /\ ~IsUp(e) /\ cur \notin opts.named
  /\ Finds(e)
  /\ EndTurn("down", NoLines, window \cup {e})
  /\ UNCHANGED <<filter, devnum>>

\* The try block around the loop; and a call that is tried again.
MUT_FlagsThrow == \E e \in Observable :
  /\ pc = "flags1" /\ pc' = "done"
  /\ Flags(e) = None
  /\ Finds(e)
  /\ UNCHANGED walk
  /\ UNCHANGED <<info, filter, devnum, block, window>>
MUT_FlagsRetry == \E e \in Observable :
  /\ Flags(e) = None
  /\ Call("flags1", "flags1", e)
  /\ UNCHANGED <<info, filter, devnum, block>>

\* flags() throws with nothing printed; the walk goes on behind the catch.
FlagsThrow == \E e \in Observable :
  /\ pc = "flags1"
  /\ Flags(e) = None
  /\ Finds(e)
  /\ EndTurn("thrown", NoLines, window \cup {e})
  /\ UNCHANGED <<filter, devnum>>

\* info, without a value when the call throws; the block begins, with a
\* blank line before it unless it is the first.
GetInfo == \E e \in Observable :
  /\ DriverAccepted(EthtoolInfo(e))
  /\ Call("drvinfo", "settings", e)
  /\ info' = EthtoolInfo(e)
  /\ devnum' = devnum + 1
  /\ block' = [block EXCEPT !.blank = devnum > 0]
  /\ UNCHANGED filter

SkipDriver == \E e \in Observable :
  /\ pc = "drvinfo"
  /\ ~DriverAccepted(EthtoolInfo(e))
  /\ Finds(e)
  /\ EndTurn("otherdriver", NoLines, window \cup {e})
  /\ UNCHANGED <<filter, devnum>>

\* The header: ethtool_command, then ethtool_link twice, for the weight of
\* the type and for the word.  Each may throw, and the header ends there.
AskSettings == \E e \in Observable :
  /\ Call("settings", IF EthtoolCommand(e) = None THEN "mac" ELSE "link1", e)
  /\ UNCHANGED <<info, filter, devnum, block>>

AskLink == \E e \in Observable :
  /\ Call("link1", IF EthtoolLink(e) = None THEN "mac" ELSE "link2", e)
  /\ block' = [block EXCEPT !.bold = EthtoolLink(e)]
  /\ UNCHANGED <<info, filter, devnum>>

PrintLink == \E e \in Observable :
  /\ Call("link2", "mac", e)
  /\ block' = [block EXCEPT !.link = EthtoolLink(e)]
  /\ UNCHANGED <<info, filter, devnum>>

PrintMac == \E e \in Observable :
  /\ Call("mac", "wifi", e)
  /\ block' = [block EXCEPT !.mac = Mac(e)]
  /\ UNCHANGED <<info, filter, devnum>>

PrintWifi == \E e \in Observable :
  /\ Call("wifi", "radio", e)
  /\ block' = [block EXCEPT !.wifi = WifiInfo(e)]
  /\ UNCHANGED <<info, filter, devnum>>

PrintRadio == \E e \in Observable :
  /\ Call("radio", "flags2", e)
  /\ block' = [block EXCEPT !.radio = WirelessStatus(e)]
  /\ UNCHANGED <<info, filter, devnum>>

\* One line of three calls: flags_str, mtu, metric.
PrintFlags == \E e \in Observable :
  /\ Call("flags2", IF FlagsStr(e) = None THEN "inet" ELSE "mtu", e)
  /\ block' = [block EXCEPT !.flags = FlagsStr(e)]
  /\ UNCHANGED <<info, filter, devnum>>

\* The rest of the line is tried although a part of it has thrown.
MUT_PrintMtu == \E e \in Observable :
  /\ Call("mtu", "metric", e)
  /\ block' = [block EXCEPT !.mtu = Mtu(e)]
  /\ UNCHANGED <<info, filter, devnum>>

PrintMtu == \E e \in Observable :
  /\ Call("mtu", IF Mtu(e) = None THEN "inet" ELSE "metric", e)
  /\ block' = [block EXCEPT !.mtu = Mtu(e)]
  /\ UNCHANGED <<info, filter, devnum>>

PrintMetric == \E e \in Observable :
  /\ Call("metric", "inet", e)
  /\ block' = [block EXCEPT !.metric = Metric(e)]
  /\ UNCHANGED <<info, filter, devnum>>

PrintInet == \E e \in Observable :
  /\ pc = "inet"
  /\ e = kernel[cur] /\ ~HasNullAddress(e)
  /\ Call("inet", "inet6", e)
  /\ block' = [block EXCEPT !.v4 = InetAddr(e)]
  /\ UNCHANGED <<info, filter, devnum>>

\* inet_addr() throws outside of pretty_print: the rest of the block is lost.
InetThrows ==
  /\ pc = "inet"
  /\ Fault /\ UNCHANGED sock
  /\ EndTurn("cut", block, window \cup {Absent})
  /\ UNCHANGED <<filter, devnum>>

\* ifa->ifa_addr->sa_family through a null ifa_addr.
InetCrashes ==
  /\ pc = "inet"
  /\ HasNullAddress(kernel[cur])
  /\ pc' = "crashed"
  /\ UNCHANGED env
  /\ UNCHANGED walk
  /\ UNCHANGED <<info, filter, devnum, block, window>>

PrintInet6 == \E e \in Observable :
  /\ Call("inet6", IF opts.verbose THEN "map" ELSE "driver", e)
  /\ block' = [block EXCEPT !.v6 = Inet6Addr(e)]
  /\ UNCHANGED <<info, filter, devnum>>

PrintMap == \E e \in Observable :
  /\ Call("map", "stats", e)
  /\ block' = [block EXCEPT
                 !.irq = MapIrq(e),
                 !.cpus = IF e = Absent THEN None
                          ELSE CpuEvents(GetInterruptCounter(MapIrq(e)))]
  /\ UNCHANGED <<info, filter, devnum>>

PrintStats == \E e \in Observable : \E s \in GetStats(e) :
  /\ Call("stats", IF s = None THEN "pci" ELSE "queue", e)
  /\ block' = [block EXCEPT !.stats = s]
  /\ UNCHANGED <<info, filter, devnum>>

PrintQueue == \E e \in Observable :
  /\ Call("queue", "pci", e)
  /\ block' = [block EXCEPT !.queue = TxQueueLen(e)]
  /\ UNCHANGED <<info, filter, devnum>>

PrintPci ==
  /\ pc = "pci"
  /\ pc' = "driver"
  /\ filter' = IF info = None THEN filter ELSE FilterAfter(info.bus)
  /\ block' = IF info # None /\ Parses(info.bus)
              THEN [block EXCEPT !.pci = FirstMatch(filter')]
              ELSE block
  /\ UNCHANGED env
  /\ UNCHANGED walk
  /\ UNCHANGED <<info, devnum, window>>

\* The lines of info.
WithDriverLines ==
  IF info = None THEN block
  ELSE [block EXCEPT !.driver = info.driver,
                     !.bus = IF info.bus = NoBus THEN None ELSE info.bus]

PrintDriver ==
  /\ pc = "driver"
  /\ EndTurn("shown", WithDriverLines, window)
  /\ UNCHANGED env
  /\ UNCHANGED <<filter, devnum>>

Finish ==
  /\ pc = "next"
  /\ todo = << >>
  /\ pc' = "done"
  /\ UNCHANGED env
  /\ UNCHANGED walk
  /\ UNCHANGED <<info, filter, devnum, block, window>>

\* An interface appears, disappears, is replaced or is reconfigured.
KernelChanges(n, e) ==
  /\ changes < MaxChanges
  /\ changes' = changes + 1
  /\ kernel[n] # e
  /\ kernel' = [kernel EXCEPT ![n] = e]
  /\ window' = IF n = cur THEN window \cup {e} ELSE window
  /\ UNCHANGED walk
  /\ UNCHANGED <<bus, faults, sock, pc, info, filter, devnum, block>>

Program ==
  \/ ListForWidth \/ ListNames \/ NextName \/ Excluded \/ Included
  \/ CheckUp \/ SkipDown \/ FlagsThrow \/ GetInfo \/ SkipDriver
  \/ AskSettings \/ AskLink \/ PrintLink \/ PrintMac \/ PrintWifi
  \/ PrintRadio \/ PrintFlags \/ PrintMtu \/ PrintMetric
  \/ PrintInet \/ InetThrows \/ InetCrashes \/ PrintInet6
  \/ PrintMap \/ PrintStats \/ PrintQueue \/ PrintPci \/ PrintDriver
  \/ Finish

\* The process has exited, or was killed; the kernel goes on.
Exited == pc \in {"done", "crashed"} /\ UNCHANGED vars

Next ==
  \/ Program
  \/ \E n \in Names, e \in Observable : KernelChanges(n, e)
  \/ Exited

Spec == Init /\ [][Next]_vars

\* The scheduler runs the process; no call of it blocks for ever.
FairSpec == Spec /\ WF_vars(Program)
-----------------------------------------------------------------------------
(***************************************************************************)
(* What the program promises.                                              *)
(***************************************************************************)
R == INSTANCE Report WITH phase <- pc, blind <- FALSE

InTurn == pc \notin {"start", "list", "next", "done"} /\ cur # None

TurnIndices == 1 .. Len(turns)

Texts == {"yes", "no", None}

Word == 0 .. UIntMax

BlockType ==
  [blank : BOOLEAN \cup {None}, bold : Texts, link : Texts,
   mac : Macs \cup {None}, wifi : Nat \cup {None}, radio : Nat \cup {None},
   flags : (SUBSET (I16Flags \cup HighFlags)) \cup {None},
   mtu : Nat \cup {None}, metric : Nat \cup {None},
   v4 : Seq(Addrs) \cup {None}, v6 : Seq(Addrs) \cup {None},
   irq : 0 .. IrqRange - 1 \cup {None}, cpus : Seq(Nat \X Nat) \cup {None},
   stats : (Word \X Word) \cup {None}, queue : {"length", None},
   pci : PciDevices \cup {None},
   driver : Drivers \cup {None}, bus : BusNames \cup {None}]

TurnType ==
  [name : Names, window : SUBSET Observable, block : BlockType,
   outcome : {"excluded", "thrown", "down", "otherdriver", "cut", "shown"}]

\* Every variable has its type; in particular the filter is a slot of the
\* bus or open, which is what makes its use by pci_filter_match defined.
TypeOK ==
  /\ kernel \in [Names -> Observable]
  /\ bus \in PciBuses
  /\ changes \in 0 .. MaxChanges
  /\ faults \in 0 .. MaxFaults
  /\ sock \in {"unopened", "open", "failed"}
  /\ opts \in OptsChoices
  /\ pc \in {"start", "list", "next", "filter", "flags1", "drvinfo",
             "settings", "link1", "link2", "mac", "wifi", "radio", "flags2",
             "mtu", "metric", "inet", "inet6", "map", "stats", "queue", "pci",
             "driver", "done", "crashed"}
  /\ todo \in Seq(Names)
  /\ listed \in Seq(Names)
  /\ cur \in Names \cup {None}
  /\ info \in InfoType \cup {None}
  /\ filter \in Slots \cup {AnySlot}
  /\ devnum \in Nat
  /\ block \in BlockType
  /\ turns \in Seq(TurnType)
  /\ window \subseteq Observable

Begun(i) == turns[i].outcome \in {"cut", "shown"}
-----------------------------------------------------------------------------
(***************************************************************************)
(* What each line of block l, or the part of it before an exception, may   *)
(* say when W is what the turn's calls may have found.  A part is missing  *)
(* only behind a call that failed, in the same line.                       *)
(***************************************************************************)
HeaderHolds(l, W) ==
  \/ /\ \E e \in W : EthtoolCommand(e) = None
     /\ l.bold = None /\ l.link = None
  \/ /\ \E e \in W : EthtoolCommand(e) # None
     /\ \E e \in W : l.bold = EthtoolLink(e)
     /\ IF l.bold = None THEN l.link = None
                         ELSE \E e \in W : l.link = EthtoolLink(e)

FlagsLineHolds(l, W) ==
  /\ \E e \in W : l.flags = FlagsStr(e)
  /\ IF l.flags = None THEN l.mtu = None ELSE \E e \in W : l.mtu = Mtu(e)
  /\ IF l.mtu = None THEN l.metric = None ELSE \E e \in W : l.metric = Metric(e)

StatsLineHolds(l, W) ==
  /\ \E e \in W : l.stats \in GetStats(e)
  /\ IF l.stats = None THEN l.queue = None
                       ELSE \E e \in W : l.queue = TxQueueLen(e)

TopLinesHold(l, W) ==
  /\ HeaderHolds(l, W)
  /\ FlagsLineHolds(l, W)
  /\ \E e \in W : l.mac = Mac(e)
  /\ \E e \in W : l.wifi = WifiInfo(e)
  /\ \E e \in W : l.radio = WirelessStatus(e)

VerboseLinesHold(l, W) ==
  IF opts.verbose
  THEN /\ \E e \in W : l.irq = MapIrq(e)
       /\ StatsLineHolds(l, W)
  ELSE l.irq = None /\ l.stats = None /\ l.queue = None /\ l.pci = None

\* The lines of the one drvinfo that passed --driver.  The PCI lines of an
\* interface in a slot are those of its slot, whatever the filter was before.
DriverLinesHold(l, W) == \E e \in W : LET i == EthtoolInfo(e) IN
  /\ R!Passes(i)
  /\ l.driver = IF i = None THEN None ELSE i.driver
  /\ l.bus = IF i = None \/ i.bus = NoBus THEN None ELSE i.bus
  /\ opts.verbose /\ l.bus \in Slots => l.pci = bus[l.bus]

Running(W) == \E e \in W : R!Running(e)

(***************************************************************************)
(* Whatever the kernel does and whichever calls throw, a turn's outcome    *)
(* has a reason that was true in the turn, each line is as above, and only *)
(* a failed getifaddrs cuts a block short.                                 *)
(***************************************************************************)
Admissible(t) ==
  \/ t.outcome = "excluded" /\ R!Excludes(t.name)
  \/ /\ t.outcome = "thrown" /\ ~R!Excludes(t.name)
     /\ ~opts.all /\ Absent \in t.window
  \/ /\ t.outcome = "down" /\ ~R!Excludes(t.name) /\ ~R!ShowsDown(t.name)
     /\ \E e \in t.window : e # Absent /\ ~R!Running(e)
  \/ /\ t.outcome = "otherdriver" /\ ~R!Excludes(t.name)
     /\ R!ShowsDown(t.name) \/ Running(t.window)
     /\ \E e \in t.window : ~R!Passes(R!DriverOf(e))
  \/ /\ t.outcome \in {"cut", "shown"} /\ ~R!Excludes(t.name)
     /\ R!ShowsDown(t.name) \/ Running(t.window)
     /\ TopLinesHold(t.block, t.window)
     /\ IF t.outcome = "cut"
        THEN Absent \in t.window /\ t.block.v4 = None
        ELSE /\ \E e \in t.window : t.block.v4 = InetAddr(e)
             /\ \E e \in t.window : t.block.v6 = Inet6Addr(e)
             /\ VerboseLinesHold(t.block, t.window)
             /\ DriverLinesHold(t.block, t.window)

TurnsAdmissible == \A i \in TurnIndices : Admissible(turns[i])

\* What a block l of this program, and the Rust program's block of e, make of the same
\* facts, on the lines that both have.
PlainLines == {"mac", "v4", "v6", "mtu", "metric"}

\* The word and its weight are two calls; without settings, or without an answer about
\* the link, only the Rust program has a word for it.
LinkAgrees(l, e) ==
  /\ l.link = l.bold
  /\ l.link = IF ~e.settings \/ e.link = None THEN None
              ELSE IF R!Tells(e).link = "LINK UP" THEN "yes" ELSE "no"

\* DYNAMIC is the sign of the flag word, which this program takes for the flags above
\* sixteen bits.
FlagsAgree(l, e) ==
  /\ R!Tells(e).flags = IF l.flags \subseteq HighFlags THEN None ELSE l.flags \ HighFlags
  /\ l.flags \cap HighFlags = IF "DYNAMIC" \in l.flags THEN HighFlags ELSE {}

DriverAgrees(l, e) == LET i == R!DriverOf(e) IN
  /\ l.driver = IF i = None THEN None ELSE i.driver
  /\ l.bus = IF i = None \/ i.bus = NoBus THEN None ELSE i.bus

\* The Rust program knows network cards only, and not of domains.
CardAgrees(l) ==
  opts.verbose /\ l.bus \in Slots /\ R!CardsAt(l.bus.bdf) = {bus[l.bus]}
    => R!CardOf(l.bus, l.pci)

\* Counters that fit an unsigned int; the Rust program has no line of zeros.
CountersAgree(l, e) ==
  opts.verbose /\ e.rx <= UIntMax /\ e.tx <= UIntMax
    => R!Tells(e).stats = IF l.stats = <<0, 0>> THEN None
                          ELSE [rx |-> l.stats[1], tx |-> l.stats[2]]

(***************************************************************************)
(* What the rewrite kept: an interface that keeps still for its turn, and  *)
(* answers, gets the same turn from both programs (Report states it of the *)
(* Rust program), and the lines that both have agree, but for what is said *)
(* above: no word for an unknown link, the flags behind a sign (ifr.hpp    *)
(* l.106), cards of other domains or classes, and counters beyond 32 bits  *)
(* (ifr.hpp l.356), of which nothing is promised.                          *)
(***************************************************************************)
QuietTurnsAgree ==
  \A i \in TurnIndices, e \in Ifaces :
    LET t == turns[i]
        l == t.block
    IN  t.window = {e} =>
          /\ t.outcome = R!Verdict(t.name, e)
          /\ t.outcome = "shown" =>
               /\ \A line \in PlainLines : l[line] = R!Tells(e)[line]
               /\ LinkAgrees(l, e) /\ FlagsAgree(l, e) /\ DriverAgrees(l, e)
               /\ CardAgrees(l) /\ CountersAgree(l, e)

\* The names that had, have and will have their turns.
Walked ==
  [i \in TurnIndices |-> turns[i].name]
    \o (IF cur = None THEN << >> ELSE <<cur>>) \o todo

(***************************************************************************)
(* Exceptions end blocks, never the walk: every name of the list has one   *)
(* turn, in the order of the list (ifshow.cpp l.128-415), and a blank line *)
(* stands between any two blocks begun and before no first one, even where *)
(* a block was cut.                                                        *)
(***************************************************************************)
WalkGoesOn ==
  /\ Walked = listed
  /\ pc = "done" => todo = << >> /\ cur = None
  /\ \A i \in TurnIndices : Begun(i) =>
       turns[i].block.blank = (\E j \in 1 .. i - 1 : Begun(j))

\* show_interfaces returns, or the process is killed.
Termination == <>(pc \in {"done", "crashed"})

(***************************************************************************)
(* An interface that is there from start to end, in one state that the     *)
(* command line asks for, is shown in the end, unless a call about it or   *)
(* the list fails, or an interface without address is met in its turn.  In *)
(* particular the first list, which it is in, does not kill the process.   *)
(***************************************************************************)
SteadyInterfaceShown ==
  \A n \in Names, e \in Ifaces :
    [](kernel[n] = e) /\ R!Verdict(n, e) = "shown" =>
      <>(\/ pc = "crashed" /\ (cur # None \/ faults > 0)
         \/ listed = << >> /\ faults > 0
         \/ \E i \in TurnIndices :
              /\ turns[i].name = n
              /\ turns[i].outcome = "shown" \/ Absent \in turns[i].window)
-----------------------------------------------------------------------------
(***************************************************************************)
(* What comments of the program say, and the code does not do.             *)
(***************************************************************************)

\* "set filter (and display additional pci info, if available)", for the bus
\* of the interface (ifshow.cpp l.369): an interface without a bus shows the
\* device of an interface before it, or the first device there is.
PciInfoOfInterface ==
  \A i \in TurnIndices :
    LET l == turns[i].block IN
      l.pci # None => l.bus \in Slots /\ l.pci = bus[l.bus]
=============================================================================
