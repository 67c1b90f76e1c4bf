------------------------------- MODULE Report -------------------------------
(***************************************************************************)
(* What ifshow promises its user, whatever the kernel does meanwhile.      *)
(*                                                                         *)
(* The names present at one moment are taken in order, one turn each.  A   *)
(* turn ends with one record: the name is left out for a reason that was   *)
(* true at some moment of the turn, or it is shown, and then each line was *)
(* true at some moment of the turn.  Nothing says it was the same moment   *)
(* for all lines, except where the program takes care that it is: the      *)
(* driver that passes --driver is the driver that is shown, and its bus    *)
(* leads to the PCI lines.                                                 *)
(***************************************************************************)
EXTENDS Kernel

VARIABLES
  kernel,   \* the interface, or Absent, behind each name
  bus,      \* the PCI bus when the program starts
  opts,     \* the command line
  phase,    \* start, list, next, turn, done or failed
  blind,    \* no PCI device is known
  todo,     \* the names whose turn is to come
  cur,      \* the name whose turn it is, or None
  window,   \* what a question about cur may have found during its turn
  turns     \* the turns taken

repvars == <<kernel, bus, opts, phase, blind, todo, cur, window, turns>>

\* What an interface in state e says of itself.  One that is absent, or does
\* not answer, is shown as having no link, no addresses, and MTU 0, metric 0.
Tells(e) ==
  IF e = Absent
  THEN [link |-> "NO LINK", mac |-> None, v4 |-> << >>, v6 |-> << >>,
        flags |-> None, mtu |-> 0, metric |-> 0, stats |-> None]
  ELSE [link |-> IF e.link = 0 \/ e.link = None THEN "NO LINK" ELSE "LINK UP",
        mac |-> e.mac, v4 |-> e.v4, v6 |-> e.v6,
        flags |-> IF e.flags \subseteq HighFlags THEN None
                                                 ELSE e.flags \ HighFlags,
        mtu |-> e.mtu,
        metric |-> IF e.metric = 0 THEN 1 ELSE e.metric,
        stats |-> IF e.rx = 0 /\ e.tx = 0 THEN None ELSE [rx |-> e.rx, tx |-> e.tx]]

Running(e) == e # Absent /\ "UP" \in e.flags

DriverOf(e) == IF e = Absent THEN None ELSE e.info

Passes(i) ==
  opts.driver = {} \/ (i # None /\ \E p \in opts.driver :
                                     <<i.driver, p>> \in Contains)

\* The network devices at a bus:device.function, in whatever domain.
CardsAt(bdf) ==
  {bus[s] : s \in {t \in Slots : /\ t.bdf = bdf /\ bus[t] # None
                                 /\ bus[t].readable
                                 /\ bus[t].class \in {2, 13}}}

\* p is the PCI device of an interface whose place is b.
CardOf(b, p) ==
  IF b \in Slots /\ ~blind /\ CardsAt(b.bdf) # {}
  THEN p \in CardsAt(b.bdf)
  ELSE p = None

\* Where sysfs places an interface that answers u, then k.
SysfsPlace(u, k) ==
  IF u # Absent /\ u.uevent # None
  THEN u.uevent
  ELSE IF k = Absent THEN None ELSE k.devlink

\* The PCI device of an interface whose driver says i, within the window W.
IdentifiedAs(i, p, W) ==
  IF i = None \/ i.bus = NoBus THEN p = None
  ELSE IF i.bus \in Slots THEN CardOf(i.bus, p)
  ELSE \E u \in W, k \in W : CardOf(SysfsPlace(u, k), p)

\* The lines of block l, each true at some moment of W.
LinesHold(l, W) ==
  /\ \E e \in W : l.link = Tells(e).link
  /\ \E e \in W : l.mac = Tells(e).mac
  /\ \E e \in W : l.v4 = Tells(e).v4
  /\ \E e \in W : l.v6 = Tells(e).v6
  /\ \E e \in W : l.flags = Tells(e).flags
  /\ \E e \in W : l.mtu = Tells(e).mtu
  /\ \E e \in W : l.metric = Tells(e).metric
  /\ \E e \in W : l.stats = Tells(e).stats

\* The lines of one driver's answer, given at one moment of W.
DriverLinesHold(l, W) ==
  \E e \in W : LET i == DriverOf(e) IN
    /\ Passes(i)
    /\ l.driver = IF i = None THEN None ELSE i.driver
    /\ l.bus = IF i = None \/ i.bus = NoBus THEN None ELSE i.bus
    /\ IdentifiedAs(i, l.pci, W)
    /\ l.detail = IF opts.verbose THEN l.pci ELSE None

Excludes(n) == opts.named # {} /\ n \notin opts.named

ShowsDown(n) == opts.all \/ n \in opts.named

\* The turn that n gets when it is in state e throughout.
Verdict(n, e) ==
  IF Excludes(n) THEN "excluded"
  ELSE IF ~ShowsDown(n) /\ ~Running(e) THEN "down"
  ELSE IF ~Passes(DriverOf(e)) THEN "otherdriver"
  ELSE "shown"

\* The reasons of a turn's outcome.
Admissible(t) ==
  \/ t.outcome = "excluded" /\ Excludes(t.name)
  \/ t.outcome = "nosocket" /\ ~Excludes(t.name) /\ Absent \in t.window
  \/ /\ t.outcome = "down" /\ ~Excludes(t.name) /\ ~ShowsDown(t.name)
     /\ \E e \in t.window : ~Running(e)
  \/ /\ t.outcome = "otherdriver" /\ ~Excludes(t.name)
     /\ ShowsDown(t.name) \/ \E e \in t.window : Running(e)
     /\ \E e \in t.window : ~Passes(DriverOf(e))
  \/ /\ t.outcome = "shown" /\ ~Excludes(t.name)
     /\ ShowsDown(t.name) \/ \E e \in t.window : Running(e)
     /\ LinesHold(t.block, t.window)
     /\ DriverLinesHold(t.block, t.window)
-----------------------------------------------------------------------------
First(S) == CHOOSE n \in S : \A m \in S : n <= m

RepInit ==
  /\ kernel \in [Names -> Observable]
  /\ bus \in PciBuses
  /\ phase = "start" /\ blind = TRUE
  /\ todo = {} /\ cur = None /\ window = {} /\ turns = << >>

\* The PCI devices become known, or do not.
KnowCards ==
  /\ phase = "start" /\ phase' = "list"
  /\ blind' \in BOOLEAN
  /\ UNCHANGED <<kernel, bus, opts, todo, cur, window, turns>>

List ==
  /\ phase = "list" /\ phase' \in {"next", "failed"}
  /\ todo' = IF phase' = "next" THEN {n \in Names : kernel[n] # Absent}
                                ELSE todo
  /\ UNCHANGED <<kernel, bus, opts, blind, cur, window, turns>>

Begin ==
  /\ phase = "next" /\ todo # {}
  /\ phase' = "turn"
  /\ cur' = First(todo)
  /\ todo' = todo \ {cur'}
  /\ window' = {kernel[cur']}
  /\ UNCHANGED <<kernel, bus, opts, blind, turns>>

\* A question about cur is left without an answer.
Unanswered ==
  /\ phase = "turn"
  /\ window' = window \cup {Absent}
  /\ UNCHANGED <<kernel, bus, opts, phase, blind, todo, cur, turns>>

\* The turn of cur ends with an admissible record of it; the last question
\* of the turn may have been left without an answer.
EndOfTurn ==
  /\ phase = "turn" /\ phase' = "next"
  /\ LET t == turns'[Len(turns')] IN
       /\ turns' = Append(turns, t)
       /\ t.name = cur
       /\ t.window \in {window, window \cup {Absent}}
       /\ Admissible(t)
  /\ cur' = None /\ window' = {}
  /\ UNCHANGED <<kernel, bus, opts, blind, todo>>

Done ==
  /\ phase = "next" /\ todo = {}
  /\ phase' = "done"
  /\ UNCHANGED <<kernel, bus, opts, blind, todo, cur, window, turns>>

\* The interface behind n becomes another, comes or goes.
Change(n, e) ==
  /\ kernel' = [kernel EXCEPT ![n] = e]
  /\ window' = IF n = cur THEN window \cup {e} ELSE window
  /\ UNCHANGED <<bus, opts, phase, blind, todo, cur, turns>>

RepNext ==
  \/ KnowCards \/ List \/ Begin \/ Unanswered \/ EndOfTurn \/ Done
  \/ \E n \in Names, e \in Observable : Change(n, e)

RepSpec == RepInit /\ [][RepNext]_repvars
=============================================================================
