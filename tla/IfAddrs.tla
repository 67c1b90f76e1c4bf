--------------------------------- MODULE IfAddrs -------------------------------
(***************************************************************************)
(* The lists that ifshow walks: getifaddrs, which gives the names           *)
(* (get_if_list) and later, name by name, the addresses (inet_addrs,        *)
(* get_inet6_addr), and /proc/net/dev, which gives the counters             *)
(* (get_stats).  Each is read anew for every use, and may have changed.     *)
(***************************************************************************)
EXTENDS Integers, Sequences, SequencesExt, FiniteSets

CONSTANTS
  Lists,        \* the lists getifaddrs may give
  Tables,       \* the devices /proc/net/dev may have, in its order
  Width,        \* the bits of a netmask: 32, or 128
  MaxChanges,   \* bound on the changes of the lists
  MaxFaults     \* bound on the calls that fail

\* An entry has a name, the family of its address ("none" if it has no address), the
\* address and the netmask, NoMask if there is none.  The name of an inet entry is
\* its label, which may be an alias of the interface.  A device of /proc/net/dev has one
\* line, with its name and a number of columns.
NoMask == -1

\* The powers of two up to that of Width, as a function that can be reasoned about.
Pow2[n \in 0 .. Width] == IF n = 0 THEN 1 ELSE 2 * Pow2[n - 1]

Masks   == 0 .. Pow2[Width] - 1
Entries == [name : Nat, family : {"none", "packet", "inet", "inet6"}, addr : Nat,
            mask : {NoMask} \cup Masks]
Devices == [name : Nat, columns : 1 .. 16, glued : BOOLEAN, bad : SUBSET (1 .. 16)]

ASSUME IfAddrsAssumption ==
  /\ Width \in Nat \ {0} /\ MaxChanges \in Nat /\ MaxFaults \in Nat
  /\ Lists \subseteq Seq(Entries) /\ Tables \subseteq Seq(Devices)
  /\ \A devices \in Tables : \A j, k \in DOMAIN devices :
       devices[j].name = devices[k].name => j = k

VARIABLES
  entries,   \* the kernel: what getifaddrs gives
  table,     \* the kernel: the devices of /proc/net/dev, <<>> if there is no such file
  changes, faults,
  pc,        \* "names", "next", "inet", "inet6", "stats", "done" or "failed"
  todo,      \* all_interfaces, from the next one on
  cur,       \* the name at hand
  shown,     \* the addresses printed so far, [name, family, addr, mask, prefix]
  counted,   \* the counters printed so far, [name, stats]
  listed,    \* the names that were listed, for the properties
  first      \* the list when the names were read, for the properties

kernelVars == <<entries, table, changes>>
vars == <<kernelVars, faults, pc, todo, cur, shown, counted, listed, first>>

Init ==
  /\ entries \in Lists /\ table \in Tables /\ changes = 0 /\ faults = 0
  /\ pc = "names" /\ todo = <<>> /\ cur = 0 /\ shown = <<>> /\ counted = <<>>
  /\ listed = {} /\ first = entries

\* b is a without one of its entries.
Without(a, b) == \E k \in DOMAIN a : b = RemoveAt(a, k)

\* An entry comes or goes, or the devices of /proc/net/dev are others.
KernelChanges ==
  /\ changes < MaxChanges
  /\ changes' = changes + 1
  /\ \/ /\ entries' \in {list \in Lists : Without(entries, list) \/ Without(list, entries)}
        /\ UNCHANGED table
     \/ table' \in Tables \ {table} /\ UNCHANGED entries
  /\ UNCHANGED <<faults, pc, todo, cur, shown, counted, listed, first>>

Fault == faults < MaxFaults /\ faults' = faults + 1

\* The counters of a device, each of which is told from every other one.
Counter(name, column) == 100 * name + column
NoNumber == -1

\* The line of a device: its name, and a part for each counter, but the first one where
\* it is glued to the name.  A bad one is not to be parsed.
Line(d) ==
  LET part(c) == IF c \in d.bad THEN NoNumber ELSE Counter(d.name, c)
  IN  IF d.glued
      THEN <<<<d.name, Counter(d.name, 1)>>>> \o [k \in 1 .. d.columns - 1 |-> part(k + 1)]
      ELSE <<<<d.name>>>> \o [k \in 1 .. d.columns |-> part(k)]

Lines == [k \in DOMAIN table |-> Line(table[k])]

NamesOf(list) == {list[k].name : k \in DOMAIN list}

-----------------------------------------------------------------------------

MUT_Sorted(list) == SortSeq([k \in DOMAIN list |-> list[k].name], <)

\* The numbers of a finite set, in ascending order.
Ascending(S) ==
  CHOOSE s \in [1 .. Cardinality(S) -> S] : \A i, j \in DOMAIN s : i < j => s[i] < s[j]

\* Through a set, and sorted.
Sorted(list) == Ascending(NamesOf(list))

ListNames ==
  /\ pc = "names"
  /\ todo' = Sorted(entries) /\ listed' = NamesOf(entries) /\ first' = entries
  /\ pc' = "next"
  /\ UNCHANGED <<kernelVars, faults, cur, shown, counted>>

\* An error of the list of names ends main.
NamesFail ==
  /\ pc = "names" /\ Fault
  /\ pc' = "failed"
  /\ UNCHANGED <<kernelVars, todo, cur, shown, counted, listed, first>>

NextName ==
  /\ pc = "next"
  /\ IF todo = <<>>
     THEN pc' = "done" /\ UNCHANGED <<cur, todo>>
     ELSE cur' = Head(todo) /\ todo' = Tail(todo) /\ pc' = "inet"
  /\ UNCHANGED <<kernelVars, faults, shown, counted, listed, first>>

MUT_Ones[mask \in Masks] == IF mask = 0 THEN 0 ELSE 1 + MUT_Ones[mask \div 2]

MUT_CountOnes(mask) == MUT_Ones[mask]

Ones[mask \in Masks] == IF mask = 0 THEN 0 ELSE (mask % 2) + Ones[mask \div 2]

\* The ones of a netmask, wherever they are.
CountOnes(mask) == Ones[mask]

MUT_PrefixOf(mask) == IF mask = NoMask THEN NoMask ELSE CountOnes(mask)

PrefixOf(mask) == IF mask = NoMask THEN 0 ELSE CountOnes(mask)

\* Where name's addresses of a family are in a list: entries without an address, or of
\* another family, have none.
OwnEntries(list, name, family) ==
  Ascending({k \in DOMAIN list : list[k].name = name /\ list[k].family = family})

\* The line of an entry with an address.
Shown(e) ==
  [name |-> e.name, family |-> e.family, addr |-> e.addr, mask |-> e.mask,
   prefix |-> PrefixOf(e.mask)]

AddressesOf(list, name, family) ==
  LET own == OwnEntries(list, name, family) IN [k \in DOMAIN own |-> Shown(list[own[k]])]

\* Addresses of a failed call are not shown, and the block goes on.
ShowAddresses(family, next) ==
  /\ pc = family
  /\ \/ shown' = shown \o AddressesOf(entries, cur, family) /\ UNCHANGED faults
     \/ Fault /\ UNCHANGED shown
  /\ pc' = next
  /\ UNCHANGED <<kernelVars, todo, cur, counted, listed, first>>

InetAddrs == ShowAddresses("inet", "inet6")

Inet6Addr == ShowAddresses("inet6", "stats")

NoStats == [rx_bytes |-> 0, rx_packets |-> 0, tx_bytes |-> 0, tx_packets |-> 0]

\* A part that is no number counts 0.
Number(part) == IF part = NoNumber THEN 0 ELSE part

\* The lines whose first part is the name, less its colon; a name that is glued to a
\* counter is no name.
LinesOf(lines, name) == {k \in DOMAIN lines : lines[k][1] = <<name>>}

MUT_StatsIn(parts) ==
  IF Len(parts) < 11 THEN NoStats
  ELSE [rx_bytes |-> Number(parts[2]), rx_packets |-> Number(parts[3]),
        tx_bytes |-> Number(parts[9]), tx_packets |-> Number(parts[10])]

\* A line that is too short counts for nothing.
StatsIn(parts) ==
  IF Len(parts) < 11 THEN NoStats
  ELSE [rx_bytes |-> Number(parts[2]), rx_packets |-> Number(parts[3]),
        tx_bytes |-> Number(parts[10]), tx_packets |-> Number(parts[11])]

\* The first line of the name counts.
StatsOf(lines, name) ==
  LET own == LinesOf(lines, name)
  IN  IF own = {} THEN NoStats
      ELSE StatsIn(lines[CHOOSE k \in own : \A j \in own : k <= j])

\* Counters are printed when one of the directions has bytes.
GetStats ==
  /\ pc = "stats"
  /\ \/ LET stats == StatsOf(Lines, cur) IN
          /\ counted' = IF stats.rx_bytes > 0 \/ stats.tx_bytes > 0
                        THEN Append(counted, [name |-> cur, stats |-> stats]) ELSE counted
          /\ UNCHANGED faults
     \/ Fault /\ UNCHANGED counted
  /\ pc' = "next"
  /\ UNCHANGED <<kernelVars, todo, cur, shown, listed, first>>

Next ==
  \/ KernelChanges
  \/ ListNames \/ NamesFail \/ NextName \/ InetAddrs \/ Inet6Addr \/ GetStats

Spec == Init /\ [][Next]_vars

-----------------------------------------------------------------------------

\* Names shown are names listed, prefixes fit the netmask, and counters are numbers
\* (proc.rs l.51, ifr.rs l.316-321).
TypeOK ==
  /\ entries \in Lists /\ first \in Lists /\ table \in Tables
  /\ changes \in 0 .. MaxChanges /\ faults \in 0 .. MaxFaults
  /\ pc \in {"names", "next", "inet", "inet6", "stats", "done", "failed"}
  /\ todo \in Seq(Nat) /\ cur \in Nat
  /\ \A i \in DOMAIN shown :
       /\ shown[i].family \in {"inet", "inet6"} /\ shown[i].name \in listed
       /\ shown[i].prefix \in 0 .. Width
  /\ \A i \in DOMAIN counted :
       /\ counted[i].name \in listed
       /\ \A field \in {"rx_bytes", "rx_packets", "tx_bytes", "tx_packets"} :
            counted[i].stats[field] \in Nat

Rank(e) == IF e.family = "inet" THEN 1 ELSE 2

\* a is printed before b, entries number i and j.
Before(a, i, b, j) ==
  \/ a.name < b.name
  \/ a.name = b.name /\ Rank(a) < Rank(b)
  \/ a.name = b.name /\ Rank(a) = Rank(b) /\ i < j

\* If nothing changed or failed, main has printed each address of the list once, however
\* many entries its name has, with labels as names of their own; the names ascend, a
\* name's inet addresses come before its inet6 addresses, and each kind in the order of
\* getifaddrs.
EveryAddressOnce ==
  pc = "done" /\ changes = 0 /\ faults = 0 =>
    LET addressed == {k \in DOMAIN first : first[k].family \in {"inet", "inet6"}} IN
    /\ Len(shown) = Cardinality(addressed)
    /\ \E order \in [DOMAIN shown -> addressed] :
         /\ \A i \in DOMAIN shown :
              /\ shown[i].name = first[order[i]].name
              /\ shown[i].family = first[order[i]].family
              /\ shown[i].addr = first[order[i]].addr
         /\ \A i, j \in DOMAIN shown :
              i < j => Before(first[order[i]], order[i], first[order[j]], order[j])

\* What the legacy program makes of a netmask (ifr.hpp l.221-227): it shifts the mask out
\* to the left, and counts the shifts.
Empties(width, mask, n) == (mask * Pow2[n]) % Pow2[width] = 0

LegacyPrefix(mask) ==
  CHOOSE n \in 0 .. Width :
    Empties(Width, mask, n) /\ \A k \in 0 .. n - 1 : ~ Empties(Width, mask, k)

\* A netmask with p ones and then zeros only.
Leading(width, mask, p) == mask = Pow2[width] - Pow2[width - p]

\* The prefix of a netmask with p ones and then zeros only is p (main.rs l.112-119).  It
\* is what the legacy program shows exactly for these netmasks: for others the count of
\* the ones describes nothing.
PrefixesAgree ==
  \A i \in DOMAIN shown :
    LET mask == shown[i].mask IN
    mask # NoMask =>
      /\ \A p \in 0 .. Width : Leading(Width, mask, p) => shown[i].prefix = p
      /\ (\E p \in 0 .. Width : Leading(Width, mask, p)) <=> LegacyPrefix(mask) = shown[i].prefix

\* Counters are those of the interface that they are shown for, each in its place, or
\* zeros: none is of another interface or column, whatever lines are short, glued or
\* not to be parsed, and however the file changes.  They are not lost for an interface
\* that has a full line and a byte, if nothing changed or failed.
StatsOfInterface ==
  LET Got(s, name, column) == s \in {0, Counter(name, column)} IN
  /\ \A i \in DOMAIN counted :
       LET c == counted[i] IN
       /\ Got(c.stats.rx_bytes, c.name, 1) /\ Got(c.stats.rx_packets, c.name, 2)
       /\ Got(c.stats.tx_bytes, c.name, 9) /\ Got(c.stats.tx_packets, c.name, 10)
  /\ pc = "done" /\ changes = 0 /\ faults = 0 =>
       \A k \in DOMAIN table :
         LET d == table[k]
             had == {i \in DOMAIN counted : counted[i].name = d.name} IN
         d.name \in listed /\ ~ d.glued /\ d.columns >= 10 /\ ~ {1, 9} \subseteq d.bad =>
           \E i \in had :
             /\ had = {i}
             /\ counted[i].stats.rx_bytes = 0 <=> 1 \in d.bad
             /\ counted[i].stats.rx_packets = 0 <=> 2 \in d.bad
             /\ counted[i].stats.tx_bytes = 0 <=> 9 \in d.bad
             /\ counted[i].stats.tx_packets = 0 <=> 10 \in d.bad
==============================================================================
