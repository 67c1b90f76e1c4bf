------------------------------ MODULE IwCallsProofs ----------------------------
(***************************************************************************)
(* Theorems about the functions that MCIwCalls puts side by side: the       *)
(* version probe, the private requests, the configuration and the range,    *)
(* for any devices, tables, settings and drivers.                           *)
(***************************************************************************)
EXTENDS MCIwCalls, WellFoundedInduction, SequenceTheorems, FiniteSetTheorems, TLAPS

-----------------------------------------------------------------------------
(* One function at a time *)

\* A behaviour runs one function from its start on, and leaves the others alone.
LEMMA ProbeStarts == Init /\ fn = "probe" => Probe!Init
BY DEF Init

LEMMA RangeStarts == Init /\ fn = "range" => Ranges!Init
BY DEF Init

LEMMA PrivStarts == Init /\ fn = "priv" => Priv!Init
BY DEF Init

LEMMA ConfigStarts == Init /\ fn = "config" => Config!Init
BY DEF Init

LEMMA ProbeRuns ==
  ASSUME [Next]_vars, fn' = "probe"
  PROVE  fn = "probe" /\ [Probe!Next]_(Probe!vars)
BY DEF Next, ProbeAlone, RangeAlone, PrivAlone, ConfigAlone, vars, Probe!vars, probeOnly,
       Probe!kernelVars

LEMMA RangeRuns ==
  ASSUME [Next]_vars, fn' = "range"
  PROVE  fn = "range" /\ [Ranges!Next]_(Ranges!vars)
BY DEF Next, ProbeAlone, RangeAlone, PrivAlone, ConfigAlone, vars, Ranges!vars, rangeOnly

LEMMA PrivRuns ==
  ASSUME [Next]_vars, fn' = "priv"
  PROVE  fn = "priv" /\ [Priv!Next]_(Priv!vars)
BY DEF Next, ProbeAlone, RangeAlone, PrivAlone, ConfigAlone, vars, Priv!vars, privOnly,
       Priv!driverVars

LEMMA ConfigRuns ==
  ASSUME [Next]_vars, fn' = "config"
  PROVE  fn = "config" /\ [Config!Next]_(Config!vars)
BY DEF Next, ProbeAlone, RangeAlone, PrivAlone, ConfigAlone, vars, Config!vars, configOnly,
       Config!kernelVars, Config!historyVars

-----------------------------------------------------------------------------
(* The probe: what is open *)

\* No socket: the empty string.
NoSocket == ""

\* What the probe holds where it is: no socket yet of a family tried, one that the
\* kernel has until it is closed, and the list while it is walked.
Sockets ==
  /\ supported \in {{}, {"INET"}, {"APPLETALK"}}
  /\ fh \in BOOLEAN /\ i \in 1..4
  /\ pc \in {"socket", "version", "list", "walk", "name", "range", "close", "done"}
  /\ pc # "done" => ret = 0
  /\ pc = "socket" => skfd = NoSocket /\ ~fh /\ \A k \in 1..(i - 1) : Probe!Families[k] \notin supported
  /\ pc \in {"version", "list", "walk", "name", "range", "close"} => skfd \in supported
  /\ pc \in {"version", "list", "close"} => ~fh
  /\ pc = "done" => skfd = NoSocket /\ ~fh /\ ret \in {-1, 0} /\ (ret = -1 <=> supported = {})

\* Nothing is open at the start.
LEMMA SocketsInit == Probe!Init => Sockets
<1> SUFFICES ASSUME Probe!Init PROVE Sockets
  OBVIOUS
<1>1. /\ pc = "socket" /\ i = 1 /\ skfd = NoSocket /\ fh = FALSE /\ ret = 0
      /\ supported \in {{}, {"INET"}, {"APPLETALK"}}
  BY Zenon DEF Probe!Init, NoSocket
<1>2. i \in 1..4 /\ (\A k \in 1..(i - 1) : Probe!Families[k] \notin supported)
  BY <1>1
<1>3. fh \in BOOLEAN /\ ~fh
  BY <1>1, Zenon
<1> QED BY <1>1, <1>2, <1>3 DEF Sockets

\* Whatever the devices do, a call opens or closes what it is there for.
LEMMA SocketsNext == Sockets /\ [Probe!Next]_(Probe!vars) => Sockets'
<1> SUFFICES ASSUME Sockets, [Probe!Next]_(Probe!vars) PROVE Sockets'
  OBVIOUS
<1> USE DEF Sockets
<1>1. CASE Probe!OpenSocket
  <2>1. /\ pc = "socket" /\ UNCHANGED <<supported, fh>>
        /\ \/ /\ Probe!Families[i] \in supported /\ skfd' = Probe!Families[i]
              /\ pc' = "version" /\ UNCHANGED <<i, ret>>
           \/ /\ Probe!Families[i] \notin supported /\ skfd' = skfd
              /\ i < 4 /\ i' = i + 1 /\ UNCHANGED <<pc, ret>>
           \/ /\ Probe!Families[i] \notin supported /\ skfd' = skfd
              /\ ~(i < 4) /\ ret' = -1 /\ pc' = "done" /\ UNCHANGED i
    <3>1. Len(Probe!Families) = 4
      BY DEF Probe!Families
    <3> QED BY <1>1, <3>1 DEF Probe!OpenSocket, Probe!kernelVars
  <2>2. CASE pc' = "done"
    <3>1. \A k \in 1..4 : Probe!Families[k] \notin supported
      BY <2>1, <2>2
    <3>2. Probe!Families[1] = "INET" /\ Probe!Families[4] = "APPLETALK"
      BY DEF Probe!Families
    <3>3. supported = {}
      BY <3>1, <3>2
    <3> QED BY <2>1, <2>2, <3>3
  <2>3. CASE pc' # "done"
    BY <2>1, <2>3
  <2> QED BY <2>2, <2>3
<1>2. CASE Probe!KernelVersion
  BY <1>2 DEF Probe!KernelVersion, Probe!kernelVars
<1>3. CASE Probe!OpenList
  BY <1>3 DEF Probe!OpenList, Probe!kernelVars
<1>4. CASE Probe!ConfiguredList
  BY <1>4 DEF Probe!ConfiguredList, Probe!kernelVars
<1>5. CASE Probe!ListFails
  BY <1>5 DEF Probe!ListFails, Probe!kernelVars
<1>6. CASE Probe!NextLine
  BY <1>6 DEF Probe!NextLine, Probe!kernelVars
<1>7. CASE Probe!CloseList
  BY <1>7 DEF Probe!CloseList, Probe!kernelVars
<1>8. CASE Probe!AskName
  BY <1>8 DEF Probe!AskName, Probe!kernelVars
<1>9. CASE Probe!AskRange
  BY <1>9 DEF Probe!AskRange, Probe!kernelVars
<1>10. CASE Probe!CloseSocket
  <2>1. /\ pc = "close" /\ pc' = "done" /\ ret' = 0 /\ skfd' = NoSocket
        /\ UNCHANGED <<supported, fh, i>>
    BY <1>10, Zenon DEF Probe!CloseSocket, Probe!kernelVars, NoSocket
  <2> QED BY <2>1
<1>11. CASE Probe!DeviceChanges
  BY <1>11 DEF Probe!DeviceChanges, Probe!kernelVars
<1>12. CASE UNCHANGED Probe!vars
  BY <1>12 DEF Probe!vars, Probe!kernelVars
<1> QED BY <1>1, <1>2, <1>3, <1>4, <1>5, <1>6, <1>7, <1>8, <1>9, <1>10, <1>11, <1>12
        DEF Probe!Next, Probe!Probe

\* Sockets is an invariant of the behaviours of the probe.
LEMMA SocketsCorrect == Spec => [](fn = "probe" => Sockets)
<1>1. Init => (fn = "probe" => Sockets)
  BY ProbeStarts, SocketsInit
<1>2. (fn = "probe" => Sockets) /\ [Next]_vars => (fn = "probe" => Sockets)'
  BY ProbeRuns, SocketsNext
<1> QED BY <1>1, <1>2, PTL DEF Spec

\* Every way out of the probe closes the socket and the list, and no device is asked
\* through a socket that is not there, whatever families and devices there are
\* (iwlib.c:437-459).
THEOREM BalancedCorrect == Spec => []Balanced
<1>1. (fn = "probe" => Sockets) => Balanced
  <2> SUFFICES ASSUME Sockets PROVE Probe!Balanced
    BY DEF Balanced
  <2>1. /\ pc \in {"name", "range"} => skfd \in {"INET", "APPLETALK"}
        /\ pc = "done" => skfd = NoSocket /\ ~fh /\ (ret = -1 <=> supported = {})
    BY DEF Sockets
  <2>2. NoSocket \notin {"INET", "APPLETALK"}
    BY DEF NoSocket
  <2>3. (ret = -1 <=> supported = {}) => (ret = -1) = (supported = {})
    OBVIOUS
  <2> QED BY <2>1, <2>2, <2>3, Zenon DEF Probe!Balanced, NoSocket
<1>2. Spec => [](fn = "probe" => Sockets)
  BY SocketsCorrect
<1> QED BY <1>1, <1>2, PTL
-----------------------------------------------------------------------------
(* The probe: what is reported *)

\* What may be printed: a line that is no device, the version of the kernel, or a device
\* and what it is.
Sayings ==
  {<<"cannot parse">>} \cup {<<"kernel", Probe!KernelWeVersion(h)>> : h \in Headers}
    \cup Devices \X Probe!Kinds

\* The variables of the walk.
ProbeTypes ==
  /\ Probe!Present \subseteq Devices /\ \A d \in Probe!Present : kind[d] \in Probe!Kinds
  /\ configured \subseteq Devices /\ header \in Headers
  /\ pc \in {"socket", "version", "list", "walk", "name", "range", "close", "done"}
  /\ lines \in Seq(Devices \cup Probe!Junk) /\ said \in Seq(Sayings)
  /\ ifname \in Devices \cup {Probe!NoDevice}
  /\ owed \subseteq Probe!Present

Reported(d) == \E k \in 1..Len(said) : said[k][1] = d
Listed(d)   == \E x \in 1..Len(lines) : lines[x] = d

\* A device that is owed a report has got it, and one without wireless extensions none.
Told(d) ==
  IF kind[d] = "none" THEN ~Reported(d) ELSE \E k \in 1..Len(said) : said[k] = <<d, kind[d]>>

\* No device is listed or reported twice, or listed still when it is reported; a device
\* that is owed a report is listed still, being asked, or has got it.
Walk ==
  /\ \A x, y \in 1..Len(lines) : lines[x] = lines[y] /\ lines[x] \in Devices => x = y
  /\ \A j, k \in 1..Len(said) : said[j][1] = said[k][1] /\ said[j][1] \in Devices => j = k
  /\ \A d \in Devices : ~(Reported(d) /\ Listed(d))
  /\ pc \in {"name", "range"} => ifname \in Devices /\ ~Reported(ifname) /\ ~Listed(ifname)
  /\ pc = "range" /\ ifname \in owed => kind[ifname] # "none"
  /\ pc \notin {"walk", "name", "range"} => lines = << >>
  /\ pc \in {"socket", "version"} => said = << >>
  /\ pc \in {"socket", "version", "list"} => owed = {} /\ \A k \in 1..Len(said) : said[k][1] = "kernel"
  /\ \A d \in owed : Listed(d) \/ (pc \in {"name", "range"} /\ d = ifname) \/ Told(d)

\* The names of devices are those of no line and of no saying.
LEMMA OwnNames ==
  /\ Devices \cap Probe!Junk = {}
  /\ "kernel" \notin Devices /\ "cannot parse" \notin Devices /\ Probe!NoDevice \notin Devices
BY ProbeAssumption DEF Probe!Junk, Probe!NoDevice

\* Who is spoken of.
LEMMA SayingsType ==
  /\ \A e \in Sayings : e[1] \in Devices \cup {"kernel", "cannot parse"}
  /\ <<"cannot parse">> \in Sayings /\ <<"cannot parse">>[1] = "cannot parse"
  /\ \A d \in Devices, k \in Probe!Kinds : <<d, k>> \in Sayings /\ <<d, k>>[1] = d
  /\ \A h \in Headers : LET e == <<"kernel", Probe!KernelWeVersion(h)>>
                        IN  e \in Sayings /\ e[1] = "kernel"
<1>1. ASSUME NEW e \in Sayings PROVE e[1] \in Devices \cup {"kernel", "cannot parse"}
  <2>1. CASE e = <<"cannot parse">>
    <3>1. e[1] = "cannot parse"
      BY <2>1
    <3> QED BY <3>1
  <2>2. CASE \E h \in Headers : e = <<"kernel", Probe!KernelWeVersion(h)>>
    <3>1. e[1] = "kernel"
      BY <2>2
    <3> QED BY <3>1
  <2>3. CASE e \in Devices \X Probe!Kinds
    BY <2>3
  <2> QED BY <2>1, <2>2, <2>3 DEF Sayings
<1>2. <<"cannot parse">> \in Sayings /\ <<"cannot parse">>[1] = "cannot parse"
  BY DEF Sayings
<1>3. \A d \in Devices, k \in Probe!Kinds : <<d, k>> \in Sayings /\ <<d, k>>[1] = d
  BY DEF Sayings
<1>4. \A h \in Headers : LET e == <<"kernel", Probe!KernelWeVersion(h)>>
                        IN  e \in Sayings /\ e[1] = "kernel"
  BY DEF Sayings
<1> QED BY <1>1, <1>2, <1>3, <1>4

\* There is one way to count.
LEMMA SameCardinality == \A S : Probe!Cardinality(S) = Cardinality(S)
BY DEF Probe!Cardinality, Cardinality

\* A listing has each device once.
LEMMA ListingsCover ==
  ASSUME NEW S, IsFiniteSet(S), NEW s \in Probe!Listings(S)
  PROVE  /\ s \in Seq(S) /\ Len(s) = Cardinality(S) /\ Cardinality(S) \in Nat
         /\ \A x, y \in 1..Len(s) : s[x] = s[y] => x = y
         /\ \A d \in S : \E x \in 1..Len(s) : s[x] = d
<1> DEFINE n == Cardinality(S)
<1>1. n \in Nat
  BY FS_CardinalityType
<1>2. s \in [1..n -> S] /\ \A x, y \in 1..n : s[x] = s[y] => x = y
  <2>1. s \in [1..n -> S] /\ \A x, y \in DOMAIN s : x # y => s[x] # s[y]
    BY SameCardinality DEF Probe!Listings
  <2>2. DOMAIN s = 1..n
    BY <2>1
  <2> HIDE DEF n
  <2> QED BY <2>1, <2>2
<1>3. s \in Seq(S) /\ Len(s) = n
  BY <1>1, <1>2, LenProperties, SeqDef
<1>4. s \in Injection(1..n, S)
  <2> HIDE DEF n
  <2> QED BY <1>2, Zenon DEF Injection, IsInjective
<1>5. Cardinality(1..n) = n
  BY <1>1, FS_Interval
<1>6. s \in Surjection(1..n, S)
  BY <1>4, <1>5, FS_Injection
<1> QED BY <1>1, <1>2, <1>3, <1>6 DEF Surjection

\* A line put into a sequence, and what comes of it.
PutInto(s, e, at) == SubSeq(s, 1, at) \o <<e>> \o SubSeq(s, at + 1, Len(s))

Holds(r, s, e, at, S) ==
  /\ r \in Seq(S \cup {e}) /\ Len(r) = Len(s) + 1
  /\ \A x \in 1..Len(r) : r[x] = IF x <= at THEN s[x] ELSE IF x = at + 1 THEN e ELSE s[x - 1]

\* A line can be put anywhere into a sequence.
LEMMA PutIn ==
  ASSUME NEW S, NEW s \in Seq(S), NEW e, NEW at \in 0..Len(s)
  PROVE  Holds(PutInto(s, e, at), s, e, at, S)
<1> DEFINE a == SubSeq(s, 1, at)
           b == SubSeq(s, at + 1, Len(s))
           T == S \cup {e}
<1>1. Len(s) \in Nat /\ \A p \in 1..Len(s) : s[p] \in S
  BY LenProperties, ElementOfSeq
<1>2. /\ a \in Seq(T) /\ Len(a) = at /\ \A p \in 1..at : a[p] = s[p]
  <2>1. /\ a \in Seq(T) /\ Len(a) = (IF 1 <= at THEN at - 1 + 1 ELSE 0)
        /\ \A p \in 1..at - 1 + 1 : a[p] = s[1 + p - 1]
    <3>1. \A p \in 1..at : s[p] \in T
      BY <1>1
    <3> QED BY <3>1, SubSeqProperties
  <2> HIDE DEF a, T
  <2> QED BY <2>1
<1>3. /\ b \in Seq(T) /\ Len(b) = Len(s) - at
      /\ \A p \in 1..(Len(s) - at) : b[p] = s[at + p]
  <2>1. /\ b \in Seq(T)
        /\ Len(b) = (IF at + 1 <= Len(s) THEN Len(s) - (at + 1) + 1 ELSE 0)
        /\ \A p \in 1..Len(s) - (at + 1) + 1 : b[p] = s[at + 1 + p - 1]
    <3>1. \A p \in (at + 1)..Len(s) : s[p] \in T
      BY <1>1
    <3>2. at + 1 \in Int /\ Len(s) \in Int
      BY <1>1
    <3> QED BY <3>1, <3>2, SubSeqProperties
  <2> HIDE DEF b, T
  <2> QED BY <1>1, <2>1
<1>4. <<e>> \in Seq(T) /\ Len(<<e>>) = 1 /\ <<e>>[1] = e
  OBVIOUS
<1> DEFINE c == a \o <<e>>
           r == c \o b
<1> HIDE DEF a, b, T
<1>5. /\ c \in Seq(T) /\ Len(c) = at + 1
      /\ \A p \in 1..at : c[p] = s[p]
      /\ c[at + 1] = e
  <2>1. /\ c \in Seq(T) /\ Len(c) = Len(a) + Len(<<e>>)
        /\ \A p \in 1..Len(a) + Len(<<e>>) :
             c[p] = IF p <= Len(a) THEN a[p] ELSE <<e>>[p - Len(a)]
    BY <1>2, <1>4, ConcatProperties
  <2> HIDE DEF c
  <2> QED BY <1>2, <1>4, <2>1
<1> HIDE DEF c
<1>6. /\ r \in Seq(T) /\ Len(r) = at + 1 + Len(b)
      /\ \A k \in 1..(at + 1 + Len(b)) :
           r[k] = IF k <= at + 1 THEN c[k] ELSE b[k - (at + 1)]
  <2>1. /\ r \in Seq(T) /\ Len(r) = Len(c) + Len(b)
        /\ \A k \in 1..Len(c) + Len(b) :
             r[k] = IF k <= Len(c) THEN c[k] ELSE b[k - Len(c)]
    BY <1>3, <1>5, ConcatProperties
  <2> HIDE DEF r
  <2> QED BY <1>5, <2>1
<1> HIDE DEF r
<1>7. r \in Seq(T) /\ Len(r) = Len(s) + 1
  BY <1>1, <1>3, <1>6
<1>8. ASSUME NEW x \in 1..Len(r)
      PROVE  r[x] = IF x <= at THEN s[x] ELSE IF x = at + 1 THEN e ELSE s[x - 1]
  <2>1. x \in 1..(Len(s) + 1) /\ x \in 1..(at + 1 + Len(b)) /\ x \in Int /\ at \in Int
    BY <1>1, <1>3, <1>7
  <2>2. CASE x <= at
    BY <1>5, <1>6, <2>1, <2>2
  <2>3. CASE x = at + 1
    BY <1>5, <1>6, <2>1, <2>3
  <2>4. CASE x > at + 1
    <3>1. x - (at + 1) \in 1..(Len(s) - at) /\ at + (x - (at + 1)) = x - 1
      BY <1>1, <2>1, <2>4
    <3>2. r[x] = b[x - (at + 1)]
      BY <1>6, <2>1, <2>4
    <3>3. ~(x <= at) /\ x # at + 1
      BY <1>1, <2>1, <2>4
    <3> QED BY <1>3, <3>1, <3>2, <3>3
  <2> QED BY <2>1, <2>2, <2>3, <2>4
<1>9. Holds(r, s, e, at, S)
  BY <1>7, <1>8 DEF Holds, T
<1> QED BY <1>9 DEF PutInto, r, c, a, b

\* The start: nothing is listed, owed or said.
LEMMA WalkInit == Probe!Init => ProbeTypes /\ Walk
<1> SUFFICES ASSUME Probe!Init PROVE ProbeTypes /\ Walk
  OBVIOUS
<1>1. /\ pc = "socket" /\ lines = << >> /\ said = << >> /\ ifname = Probe!NoDevice /\ owed = {}
      /\ header \in Headers /\ configured \in SUBSET Devices
  BY Zenon DEF Probe!Init
<1>2. Probe!Present \subseteq Devices /\ \A d \in Probe!Present : kind[d] \in Probe!Kinds
  <2>1. PICK there \in SUBSET Devices : kind \in [there -> Probe!Kinds]
    BY Zenon DEF Probe!Init
  <2> QED BY <2>1 DEF Probe!Present
<1>3. ProbeTypes
  BY <1>1, <1>2 DEF ProbeTypes
<1>4. Walk
  BY <1>1 DEF Walk, Reported, Listed
<1> QED BY <1>3, <1>4

\* A list of some of the devices, each of them once, to which a line that is no device
\* may have been added, begins the walk.
LEMMA WalkBegins ==
  ASSUME ProbeTypes, Walk, pc = "list", pc' = "walk",
         UNCHANGED <<kind, configured, header, ifname, said>>,
         NEW S, S \subseteq Probe!Present, NEW s \in Seq(S),
         \A x, y \in 1..Len(s) : s[x] = s[y] => x = y,
         \/ lines' = s
         \/ \E junk \in Probe!Junk, at \in 0..Len(s) :
              lines' = PutInto(s, junk, at),
         owed' \subseteq S, \A d \in owed' : \E x \in 1..Len(s) : s[x] = d
  PROVE  ProbeTypes' /\ Walk'
<1>1. /\ lines' \in Seq(Devices \cup Probe!Junk)
      /\ \A x, y \in 1..Len(lines') : lines'[x] = lines'[y] /\ lines'[x] \in Devices => x = y
      /\ \A d \in owed' : \E x \in 1..Len(lines') : lines'[x] = d
      /\ Probe!Present' = Probe!Present
  <2>0. Len(s) \in Nat /\ (\A x \in 1..Len(s) : s[x] \in S) /\ S \subseteq Devices
        /\ Probe!Present' = Probe!Present
    BY LenProperties, ElementOfSeq DEF ProbeTypes, Probe!Present
  <2>1. CASE lines' = s
    BY <2>0, <2>1, SeqMonotonic
  <2>2. CASE \E junk \in Probe!Junk, at \in 0..Len(s) :
               lines' = PutInto(s, junk, at)
    <3>1. PICK junk \in Probe!Junk, at \in 0..Len(s) :
            lines' = PutInto(s, junk, at)
      BY <2>2
    <3>2. /\ lines' \in Seq(S \cup {junk}) /\ Len(lines') = Len(s) + 1
          /\ \A x \in 1..Len(lines') : lines'[x] = IF x <= at THEN s[x]
                                                  ELSE IF x = at + 1 THEN junk ELSE s[x - 1]
      <4>1. Holds(PutInto(s, junk, at), s, junk, at, S)
        BY PutIn
      <4> QED BY <3>1, <4>1, Zenon DEF Holds
    <3>3. junk \notin Devices
      BY OwnNames
    <3>4. lines' \in Seq(Devices \cup Probe!Junk)
      <4>1. S \cup {junk} \subseteq Devices \cup Probe!Junk
        BY <2>0
      <4> QED BY <3>2, <4>1, SeqMonotonic
    <3>5. ASSUME NEW x \in 1..Len(lines'), NEW y \in 1..Len(lines'),
                 lines'[x] = lines'[y], lines'[x] \in Devices
          PROVE  x = y
      <4> DEFINE p(z) == IF z <= at THEN z ELSE z - 1
      <4>1. \A z \in 1..Len(lines') : lines'[z] \in Devices =>
              z # at + 1 /\ p(z) \in 1..Len(s) /\ lines'[z] = s[p(z)]
        BY <2>0, <3>2, <3>3
      <4>2. p(x) = p(y)
        <5>1. p(x) \in 1..Len(s) /\ p(y) \in 1..Len(s) /\ s[p(x)] = s[p(y)]
          BY <3>5, <4>1
        <5> HIDE DEF p
        <5> QED BY <5>1
      <4>3. x # at + 1 /\ y # at + 1
        BY <3>5, <4>1
      <4> QED BY <2>0, <3>2, <4>2, <4>3
    <3>6. ASSUME NEW d \in owed' PROVE \E x \in 1..Len(lines') : lines'[x] = d
      <4>1. PICK z \in 1..Len(s) : s[z] = d
        OBVIOUS
      <4>2. CASE z <= at
        BY <2>0, <3>2, <4>1, <4>2
      <4>3. CASE z > at
        <5>1. z + 1 \in 1..Len(lines') /\ ~(z + 1 <= at) /\ z + 1 # at + 1 /\ (z + 1) - 1 = z
          BY <2>0, <3>2, <4>1, <4>3
        <5> QED BY <3>2, <4>1, <5>1
      <4> QED BY <4>2, <4>3
    <3> QED BY <2>0, <3>4, <3>5, <3>6
  <2> QED BY <2>1, <2>2
<1>2. ProbeTypes'
  BY <1>1 DEF ProbeTypes
<1>3. \A d \in Devices : ~Reported(d)'
  BY OwnNames, ZenonT(30) DEF Walk, Reported
<1>4. said' = said /\ pc' \notin {"name", "range", "socket", "version", "list"}
  OBVIOUS
<1>5. Walk'
  BY <1>1, <1>3, <1>4 DEF Walk, Listed, Reported
<1> QED BY <1>2, <1>5

\* What is there to be listed is finite.
LEMMA PresentFinite ==
  ASSUME ProbeTypes, NEW S, S \subseteq Probe!Present
  PROVE  IsFiniteSet(S)
BY ProbeAssumption, FS_Subset DEF ProbeTypes

\* No call lists or reports a device twice, or forgets one that is owed a report.
LEMMA WalkNext == ProbeTypes /\ Walk /\ [Probe!Next]_(Probe!vars) => ProbeTypes' /\ Walk'
<1> SUFFICES ASSUME ProbeTypes, Walk, [Probe!Next]_(Probe!vars) PROVE ProbeTypes' /\ Walk'
  OBVIOUS
<1>a. /\ said \in Seq(Sayings) /\ Len(said) \in Nat
      /\ lines \in Seq(Devices \cup Probe!Junk) /\ Len(lines) \in Nat
  BY LenProperties DEF ProbeTypes
\* A call that leaves the devices, the list and the reports alone.
<1>b. ASSUME UNCHANGED <<kind, configured, header, lines, ifname, said, owed>>
      PROVE  /\ UNCHANGED Probe!Present
             /\ \A d : Reported(d)' = Reported(d) /\ Listed(d)' = Listed(d) /\ Told(d)' = Told(d)
  BY <1>b DEF Probe!Present, Reported, Listed, Told
<1>1. CASE Probe!OpenSocket
  <2>1. /\ pc = "socket" /\ pc' \in {"socket", "version", "done"}
        /\ UNCHANGED <<kind, configured, header, lines, ifname, said, owed>>
    BY <1>1 DEF Probe!OpenSocket, Probe!kernelVars
  <2> QED BY <1>b, <2>1 DEF ProbeTypes, Walk
<1>2. CASE Probe!KernelVersion
  <2>1. /\ pc = "version" /\ pc' = "list"
        /\ UNCHANGED <<kind, configured, header, lines, ifname, owed>>
        /\ \/ said' = <<<<"kernel", Probe!KernelWeVersion(header)>>>>
           \/ said' = << >>
    BY <1>2 DEF Probe!KernelVersion, Probe!kernelVars
  <2>2. header \in Headers
    BY DEF ProbeTypes
  <2> DEFINE e == <<"kernel", Probe!KernelWeVersion(header)>>
  <2>3. e \in Sayings /\ e[1] = "kernel" /\ (said' = <<e>> \/ said' = << >>)
    BY <2>1, <2>2, SayingsType
  <2> HIDE DEF e
  <2>4. said' \in Seq(Sayings) /\ \A k \in 1..Len(said') : said'[k][1] = "kernel"
    <3>1. CASE said' = <<e>>
      BY <2>3, <3>1
    <3>2. CASE said' = << >>
      BY <3>2
    <3> QED BY <2>3, <3>1, <3>2
  <2>5. ProbeTypes'
    BY <2>1, <2>4 DEF ProbeTypes, Probe!Present
  <2>6. lines = << >> /\ owed = {}
    BY <2>1 DEF Walk
  <2>7. lines' = << >> /\ owed' = {} /\ \A d \in Devices : ~Reported(d)'
    BY <2>1, <2>4, <2>6, OwnNames DEF Reported
  <2>8. \A j, k \in 1..Len(said') : said'[j][1] \notin Devices
    BY <2>4, OwnNames
  <2> QED BY <2>1, <2>4, <2>5, <2>7, <2>8 DEF Walk
<1>3. CASE Probe!OpenList
  <2>1. /\ pc = "list" /\ pc' = "walk" /\ owed' = Probe!Present
        /\ UNCHANGED <<kind, configured, header, ifname, said>>
    BY <1>3 DEF Probe!OpenList, Probe!kernelVars
  <2>2. PICK s \in Probe!Listings(Probe!Present) :
          \/ lines' = s
          \/ \E junk \in Probe!Junk, at \in 0..Cardinality(Probe!Present) :
               lines' = PutInto(s, junk, at)
    <3>1. \E s \in Probe!Listings(Probe!Present), junk \in Probe!Junk \cup {""},
             at \in 0..Probe!Cardinality(Probe!Present) :
            lines' = IF junk = "" THEN s ELSE PutInto(s, junk, at)
      BY <1>3, Zenon DEF Probe!OpenList, PutInto
    <3> QED BY <3>1, SameCardinality, Zenon
  <2>3. IsFiniteSet(Probe!Present)
    BY PresentFinite
  <2>4. /\ s \in Seq(Probe!Present) /\ Len(s) = Cardinality(Probe!Present)
        /\ \A x, y \in 1..Len(s) : s[x] = s[y] => x = y
        /\ \A d \in Probe!Present : \E x \in 1..Len(s) : s[x] = d
    BY <2>3, ListingsCover
  <2> QED BY <2>1, <2>2, <2>4, WalkBegins
<1>4. CASE Probe!ConfiguredList
  <2> DEFINE S == configured \cap Probe!Present
  <2>1. /\ pc = "list" /\ pc' = "walk"
        /\ owed' = IF Probe!Cardinality(S) <= Room THEN S ELSE {}
        /\ UNCHANGED <<kind, configured, header, ifname, said>>
        /\ \E s \in Probe!Listings(S) :
             lines' = SubSeq(s, 1, IF Room < Len(s) THEN Room ELSE Len(s))
    BY <1>4 DEF Probe!ConfiguredList, Probe!kernelVars
  <2>2. PICK s \in Probe!Listings(S) :
          lines' = SubSeq(s, 1, IF Room < Len(s) THEN Room ELSE Len(s))
    BY <2>1
  <2>3. S \subseteq Probe!Present
    OBVIOUS
  <2> HIDE DEF S
  <2>4. IsFiniteSet(S)
    BY <2>3, PresentFinite
  <2>5. /\ s \in Seq(S) /\ Len(s) = Cardinality(S) /\ Cardinality(S) \in Nat
        /\ \A x, y \in 1..Len(s) : s[x] = s[y] => x = y
        /\ \A d \in S : \E x \in 1..Len(s) : s[x] = d
    BY <2>4, ListingsCover
  <2> DEFINE m == IF Room < Len(s) THEN Room ELSE Len(s)
             t == SubSeq(s, 1, m)
  <2>6. m \in Nat /\ m <= Len(s) /\ (Len(s) <= Room => m = Len(s))
    <3>1. Room \in Nat
      BY ProbeAssumption
    <3> QED BY <2>5, <3>1
  <2> HIDE DEF m
  <2>7. t \in Seq(S) /\ Len(t) = m /\ \A x \in 1..m : t[x] = s[x]
    BY <2>5, <2>6
  <2>8. lines' = t
    BY <2>2 DEF m, t
  <2>9. \A x, y \in 1..Len(t) : t[x] = t[y] => x = y
    BY <2>5, <2>6, <2>7
  <2>10. owed' \subseteq S
    BY <2>1
  <2>11. ASSUME NEW d \in owed' PROVE \E x \in 1..Len(t) : t[x] = d
    <3>1. Cardinality(S) <= Room /\ d \in S
      BY <2>1, SameCardinality
    <3>2. m = Len(s)
      BY <2>5, <2>6, <3>1
    <3> QED BY <2>5, <2>7, <3>1, <3>2
  <2> HIDE DEF t
  <2> QED BY <2>1, <2>3, <2>7, <2>8, <2>9, <2>10, <2>11, WalkBegins
<1>5. CASE Probe!ListFails
  <2>1. /\ pc = "list" /\ pc' = "close"
        /\ UNCHANGED <<kind, configured, header, lines, ifname, said, owed>>
    BY <1>5 DEF Probe!ListFails, Probe!kernelVars
  <2> QED BY <1>b, <2>1 DEF ProbeTypes, Walk
<1>6. CASE Probe!NextLine
  <2>1. /\ pc = "walk" /\ lines # << >> /\ lines' = Tail(lines)
        /\ UNCHANGED <<kind, configured, header, owed>>
        /\ \/ /\ Head(lines) \in Probe!Junk /\ UNCHANGED <<pc, ifname>>
              /\ said' = said \/ said' = Append(said, <<"cannot parse">>)
           \/ /\ Head(lines) \notin Probe!Junk /\ ifname' = Head(lines) /\ pc' = "name"
              /\ said' = said
    BY <1>6 DEF Probe!NextLine, Probe!kernelVars
  <2>0. PICK h : h = lines[1]
    OBVIOUS
  <2>2. /\ Head(lines) = h /\ h = lines[1] /\ h \in Devices \cup Probe!Junk
        /\ Len(lines) >= 1
        /\ lines' \in Seq(Devices \cup Probe!Junk) /\ Len(lines') = Len(lines) - 1
        /\ \A x \in 1..Len(lines') : lines'[x] = lines[x + 1]
    <3>1. Len(lines) >= 1
      <4>1. Len(lines) # 0
        BY <1>a, <2>1, EmptySeq, Zenon
      <4> QED BY <1>a, <4>1
    <3>2. Head(lines) = lines[1] /\ lines[1] \in Devices \cup Probe!Junk
      BY <1>a, <3>1, ElementOfSeq
    <3>3. /\ Tail(lines) \in Seq(Devices \cup Probe!Junk) /\ Len(Tail(lines)) = Len(lines) - 1
          /\ \A x \in 1..Len(Tail(lines)) : Tail(lines)[x] = lines[x + 1]
      BY <1>a, <2>1, HeadTailProperties
    <3> QED BY <2>0, <2>1, <3>1, <3>2, <3>3
  <2>3. \A d : Listed(d) <=> d = h \/ Listed(d)'
    <3>1. \A x \in 1..Len(lines) : x # 1 => x - 1 \in 1..Len(lines') /\ (x - 1) + 1 = x
      BY <1>a, <2>2
    <3>2. \A x \in 1..Len(lines') : x + 1 \in 1..Len(lines)
      BY <1>a, <2>2
    <3>3. 1 \in 1..Len(lines)
      BY <1>a, <2>2
    <3> QED BY <2>2, <3>1, <3>2, <3>3 DEF Listed
  <2>4. /\ \A x, y \in 1..Len(lines') : lines'[x] = lines'[y] /\ lines'[x] \in Devices => x = y
        /\ h \in Devices => ~Listed(h)'
    <3>1. ASSUME NEW x \in 1..Len(lines'), NEW y \in 1..Len(lines'), lines'[x] = lines'[y],
                 lines'[x] \in Devices
          PROVE  x = y
      <4>1. x + 1 \in 1..Len(lines) /\ y + 1 \in 1..Len(lines)
        BY <1>a, <2>2
      <4>2. x + 1 = y + 1
        BY <2>2, <3>1, <4>1 DEF Walk
      <4> QED BY <4>2
    <3>2. ASSUME h \in Devices, NEW x \in 1..Len(lines'), lines'[x] = h
          PROVE  FALSE
      <4>1. x + 1 \in 1..Len(lines) /\ 1 \in 1..Len(lines) /\ x + 1 # 1
        BY <1>a, <2>2
      <4> QED BY <2>2, <3>2, <4>1 DEF Walk
    <3> QED BY <3>1, <3>2 DEF Listed
  <2>5. /\ said' \in Seq(Sayings)
        /\ \A d \in Devices : Reported(d)' <=> Reported(d)
        /\ \A d \in Devices : Told(d) => Told(d)'
        /\ \A j, k \in 1..Len(said') : said'[j][1] = said'[k][1] /\ said'[j][1] \in Devices => j = k
    <3>1. CASE said' = said
      BY <1>a, <2>1, <3>1 DEF Reported, Told, Walk
    <3>2. CASE said' = Append(said, <<"cannot parse">>)
      <4> DEFINE e == <<"cannot parse">>
      <4>1. e \in Sayings /\ e[1] \notin Devices /\ said' = Append(said, e)
        BY <3>2, SayingsType, OwnNames
      <4> HIDE DEF e
      <4>2. /\ said' \in Seq(Sayings) /\ Len(said') = Len(said) + 1
            /\ \A k \in 1..Len(said) : said'[k] = said[k]
            /\ said'[Len(said) + 1] = e
        BY <1>a, <4>1
      <4>3. \A k \in 1..Len(said') : said'[k][1] \in Devices => k \in 1..Len(said)
        BY <1>a, <4>1, <4>2
      <4>4. \A k \in 1..Len(said) : k \in 1..Len(said')
        BY <1>a, <4>2
      <4>5. \A d \in Devices : Reported(d)' <=> Reported(d)
        BY <4>2, <4>3, <4>4 DEF Reported
      <4>6. \A d \in Devices : Told(d) => Told(d)'
        BY <2>1, <4>2, <4>4, <4>5 DEF Told
      <4>7. \A j, k \in 1..Len(said') : said'[j][1] = said'[k][1] /\ said'[j][1] \in Devices => j = k
        BY <4>2, <4>3 DEF Walk
      <4> QED BY <4>2, <4>5, <4>6, <4>7
    <3> QED BY <2>1, <3>1, <3>2
  <2>6. owed \subseteq Devices /\ Probe!Present' = Probe!Present
    BY <2>1 DEF ProbeTypes, Probe!Present
  <2>7. CASE Head(lines) \in Probe!Junk
    <3>1. pc' = "walk" /\ ifname' = ifname /\ h \notin Devices
      BY <2>1, <2>2, <2>7, OwnNames
    <3>2. ProbeTypes'
      BY <2>1, <2>2, <2>5, <2>6, <3>1 DEF ProbeTypes
    <3>3. \A d \in Devices : ~(Reported(d)' /\ Listed(d)')
      BY <2>3, <2>5 DEF Walk
    <3>4. \A d \in owed' : Listed(d)' \/ Told(d)'
      BY <2>1, <2>3, <2>5, <2>6, <3>1 DEF Walk
    <3> QED BY <2>4, <2>5, <3>1, <3>2, <3>3, <3>4 DEF Walk
  <2>8. CASE Head(lines) \notin Probe!Junk
    <3>1. pc' = "name" /\ ifname' = h /\ h \in Devices
      BY <2>1, <2>2, <2>8
    <3>2. ProbeTypes'
      BY <2>1, <2>2, <2>5, <2>6, <3>1 DEF ProbeTypes
    <3>3. \A d \in Devices : ~(Reported(d)' /\ Listed(d)')
      BY <2>3, <2>5 DEF Walk
    <3>4. \A d \in owed' : Listed(d)' \/ d = ifname' \/ Told(d)'
      BY <2>1, <2>3, <2>5, <2>6, <3>1 DEF Walk
    <3>5. ~Reported(h)' /\ ~Listed(h)'
      BY <2>3, <2>4, <2>5, <3>1 DEF Walk
    <3>6. (~Reported(ifname))' /\ (~Listed(ifname))'
      BY <3>1, <3>5 DEF Reported, Listed
    <3> QED BY <2>4, <2>5, <3>1, <3>2, <3>3, <3>4, <3>6 DEF Walk
  <2> QED BY <2>7, <2>8
<1>7. CASE Probe!CloseList
  <2>1. /\ pc = "walk" /\ pc' = "close" /\ lines = << >>
        /\ UNCHANGED <<kind, configured, header, lines, ifname, said, owed>>
    BY <1>7 DEF Probe!CloseList, Probe!kernelVars
  <2> QED BY <1>b, <2>1 DEF ProbeTypes, Walk
<1>8. CASE Probe!AskName
  <2>1. /\ pc = "name" /\ pc' = (IF Probe!HasWireless(ifname) THEN "range" ELSE "walk")
        /\ UNCHANGED <<kind, configured, header, lines, ifname, said, owed>>
    BY <1>8 DEF Probe!AskName, Probe!kernelVars
  <2>2. ifname \in owed => (Probe!HasWireless(ifname) <=> kind[ifname] # "none")
    BY DEF Probe!HasWireless, ProbeTypes
  <2>3. ifname \in owed /\ kind[ifname] = "none" => Told(ifname)
    BY <2>1 DEF Told, Walk
  <2> QED BY <1>b, <2>1, <2>2, <2>3 DEF ProbeTypes, Walk
<1>9. CASE Probe!AskRange
  <2> DEFINE k0 == IF Probe!HasWireless(ifname) THEN kind[ifname] ELSE "norange"
             e == <<ifname, k0>>
  <2>1. /\ pc = "range" /\ pc' = "walk" /\ said' = Append(said, e)
        /\ UNCHANGED <<kind, configured, header, lines, ifname, owed>>
    BY <1>9 DEF Probe!AskRange, Probe!kernelVars
  <2>2. ifname \in Devices /\ ~Reported(ifname) /\ ~Listed(ifname)
    BY <2>1 DEF Walk
  <2>3. k0 \in Probe!Kinds
    BY DEF ProbeTypes, Probe!HasWireless, Probe!Kinds
  <2>4. e \in Sayings /\ e[1] = ifname
    BY <2>2, <2>3, SayingsType
  <2>5. ifname \in owed => kind[ifname] # "none" /\ e = <<ifname, kind[ifname]>>
    BY <2>1 DEF Walk, ProbeTypes, Probe!HasWireless
  <2> HIDE DEF e, k0
  <2>6. /\ said' \in Seq(Sayings) /\ Len(said') = Len(said) + 1
        /\ \A k \in 1..Len(said) : said'[k] = said[k]
        /\ said'[Len(said) + 1] = e
    BY <1>a, <2>1, <2>4
  <2>7. \A k \in 1..Len(said) : k \in 1..Len(said')
    BY <1>a, <2>6
  <2>8. Len(said) + 1 \in 1..Len(said') /\ \A k \in 1..Len(said') : k \in 1..Len(said) \/ k = Len(said) + 1
    BY <1>a, <2>6
  <2>9. \A d : Reported(d)' <=> Reported(d) \/ d = ifname
    BY <2>4, <2>6, <2>7, <2>8 DEF Reported
  <2>10. \A j, k \in 1..Len(said') : said'[j][1] = said'[k][1] /\ said'[j][1] \in Devices => j = k
    <3>1. \A k \in 1..Len(said) : said[k][1] # ifname
      BY <2>2 DEF Reported
    <3> QED BY <2>4, <2>6, <2>8, <3>1 DEF Walk
  <2>11. \A d : Listed(d)' <=> Listed(d)
    BY <2>1 DEF Listed
  <2>12. ASSUME NEW d \in owed PROVE Listed(d) \/ Told(d)'
    <3>1. CASE d = ifname
      <4>1. kind[d] # "none" /\ said'[Len(said) + 1] = <<d, kind[d]>>
        BY <2>5, <2>6, <3>1
      <4> QED BY <2>1, <2>8, <4>1 DEF Told
    <3>2. CASE d # ifname
      <4>1. Listed(d) \/ Told(d)
        BY <3>2 DEF Walk
      <4>2. Told(d) => Told(d)'
        BY <2>1, <2>6, <2>7, <2>9, <3>2 DEF Told
      <4> QED BY <4>1, <4>2
    <3> QED BY <3>1, <3>2
  <2>13. ProbeTypes'
    BY <2>1, <2>6 DEF ProbeTypes, Probe!Present
  <2>14. \A d \in Devices : ~(Reported(d)' /\ Listed(d)')
    BY <2>2, <2>9, <2>11 DEF Walk
  <2>15. \A x, y \in 1..Len(lines') : lines'[x] = lines'[y] /\ lines'[x] \in Devices => x = y
    BY <2>1 DEF Walk
  <2>16. \A d \in owed' : Listed(d)' \/ Told(d)'
    BY <2>1, <2>11, <2>12
  <2> QED BY <2>1, <2>10, <2>13, <2>14, <2>15, <2>16 DEF Walk
<1>10. CASE Probe!CloseSocket
  <2>1. /\ pc = "close" /\ pc' = "done"
        /\ UNCHANGED <<kind, configured, header, lines, ifname, said, owed>>
    BY <1>10 DEF Probe!CloseSocket, Probe!kernelVars
  <2> QED BY <1>b, <2>1 DEF ProbeTypes, Walk
<1>11. CASE Probe!DeviceChanges
  <2>1. UNCHANGED <<pc, configured, header, lines, ifname, said>>
    BY <1>11 DEF Probe!DeviceChanges, Probe!kernelVars
  <2>2. PICK d \in Devices :
          /\ owed' = owed \ {d}
          /\ \/ kind' = [e \in Probe!Present \ {d} |-> kind[e]]
             \/ \E k \in Probe!Kinds :
                  kind' = [e \in Probe!Present \cup {d} |-> IF e = d THEN k ELSE kind[e]]
    BY <1>11 DEF Probe!DeviceChanges
  <2>3. /\ Probe!Present' \subseteq Devices /\ \A e \in Probe!Present' : kind'[e] \in Probe!Kinds
        /\ owed' \subseteq Probe!Present'
        /\ \A e \in owed' : e \in owed /\ kind'[e] = kind[e]
    <3>1. CASE kind' = [e \in Probe!Present \ {d} |-> kind[e]]
      BY <2>2, <3>1 DEF ProbeTypes, Probe!Present
    <3>2. CASE \E k \in Probe!Kinds :
                 kind' = [e \in Probe!Present \cup {d} |-> IF e = d THEN k ELSE kind[e]]
      BY <2>2, <3>2 DEF ProbeTypes, Probe!Present
    <3> QED BY <2>2, <3>1, <3>2
  <2>4. ProbeTypes'
    BY <2>1, <2>3 DEF ProbeTypes
  <2>5. \A e : Reported(e)' = Reported(e) /\ Listed(e)' = Listed(e)
    BY <2>1 DEF Reported, Listed
  <2>6. \A e \in owed' : Told(e)' = Told(e)
    BY <2>1, <2>3, <2>5 DEF Told
  <2>7. pc \in {"socket", "version", "list"} => owed' = {}
    BY <2>2 DEF Walk
  <2>8. \A e \in owed' : Listed(e)' \/ (pc' \in {"name", "range"} /\ e = ifname') \/ Told(e)'
    BY <2>1, <2>3, <2>5, <2>6 DEF Walk
  <2>9. pc' = "range" /\ ifname' \in owed' => kind'[ifname'] # "none"
    BY <2>1, <2>3 DEF Walk
  <2>10. pc' \in {"name", "range"} => ifname' \in Devices /\ (~Reported(ifname))' /\ (~Listed(ifname))'
    BY <2>1 DEF Walk, Reported, Listed
  <2> QED BY <2>1, <2>4, <2>5, <2>7, <2>8, <2>9, <2>10 DEF Walk
<1>12. CASE UNCHANGED Probe!vars
  <2>1. UNCHANGED <<pc, kind, configured, header, lines, ifname, said, owed>>
    BY <1>12 DEF Probe!vars, Probe!kernelVars
  <2> QED BY <1>b, <2>1 DEF ProbeTypes, Walk
<1> QED BY <1>1, <1>2, <1>3, <1>4, <1>5, <1>6, <1>7, <1>8, <1>9, <1>10, <1>11, <1>12
        DEF Probe!Next, Probe!Probe

\* The walk is as it should be at every point of the probe.
LEMMA WalkCorrect == Spec => [](fn = "probe" => ProbeTypes /\ Walk)
<1>1. Init => (fn = "probe" => ProbeTypes /\ Walk)
  BY ProbeStarts, WalkInit
<1>2. (fn = "probe" => ProbeTypes /\ Walk) /\ [Next]_vars => (fn = "probe" => ProbeTypes /\ Walk)'
  BY ProbeRuns, WalkNext
<1> QED BY <1>1, <1>2, PTL DEF Spec

\* However many devices come, go or change their drivers, each one that stays as it was
\* since the list was read is reported once, as what it is, and nobody twice
\* (iwlib.c:385-423).
THEOREM OneReportEachCorrect == Spec => []OneReportEach
<1>1. (fn = "probe" => ProbeTypes /\ Walk) => OneReportEach
  <2> SUFFICES ASSUME ProbeTypes, Walk PROVE Probe!OneReportEach
    BY DEF OneReportEach
  <2>1. DOMAIN said = 1..Len(said)
    BY DEF ProbeTypes
  <2>2. ASSUME NEW d \in Devices PROVE \A j, k \in Probe!ReportsOf(d) : j = k
    BY <2>1 DEF Walk, Probe!ReportsOf
  <2>3. ASSUME pc = "done", NEW d \in owed
        PROVE  {said[k] : k \in Probe!ReportsOf(d)}
                 = IF kind[d] = "none" THEN {} ELSE {<<d, kind[d]>>}
    <3>1. Told(d) /\ d \in Devices
      BY <2>3 DEF Walk, ProbeTypes, Listed
    <3>2. CASE kind[d] = "none"
      BY <2>1, <3>1, <3>2 DEF Told, Reported, Probe!ReportsOf
    <3>3. CASE kind[d] # "none"
      <4>1. PICK k \in 1..Len(said) : said[k] = <<d, kind[d]>>
        BY <3>1, <3>3 DEF Told
      <4>2. k \in Probe!ReportsOf(d)
        BY <2>1, <4>1 DEF Probe!ReportsOf
      <4>3. Probe!ReportsOf(d) = {k}
        <5> DEFINE R == Probe!ReportsOf(d)
        <5>1. k \in R /\ \A j \in R : j = k
          BY <2>2, <3>1, <4>2, Zenon
        <5> HIDE DEF R
        <5>2. R = {k}
          BY <5>1, Zenon
        <5> QED BY <5>2 DEF R
      <4> QED BY <3>3, <4>1, <4>3
    <3> QED BY <3>2, <3>3
  <2> QED BY <2>2, <2>3 DEF Probe!OneReportEach
<1>2. Spec => [](fn = "probe" => ProbeTypes /\ Walk)
  BY WalkCorrect
<1> QED BY <1>1, <1>2, PTL

\* The probe's variables keep their types.
LEMMA ProbeTypeOK == Sockets /\ ProbeTypes => Probe!TypeOK
<1> SUFFICES ASSUME Sockets, ProbeTypes PROVE Probe!TypeOK
  OBVIOUS
<1>1. skfd \in supported \cup {""}
  <2>1. skfd = NoSocket \/ skfd \in supported
    BY DEF Sockets
  <2> QED BY <2>1, Zenon DEF NoSocket
<1>2. i \in 1..Len(Probe!Families)
  BY DEF Sockets, Probe!Families
<1>3. ret \in {-1, 0}
  BY DEF Sockets
<1>4. \A k \in DOMAIN said : said[k][1] \in Devices \cup {"kernel", "cannot parse"}
  <2>1. \A k \in DOMAIN said : said[k] \in Sayings
    BY DEF ProbeTypes
  <2> QED BY <2>1, SayingsType
<1> QED BY <1>1, <1>2, <1>3, <1>4, Zenon DEF ProbeTypes, Probe!TypeOK

-----------------------------------------------------------------------------
(* The private requests: the arrays that are tried *)

\* A non-empty set of numbers has a least one.
LEMMA LeastNumber ==
  ASSUME NEW S, S \subseteq Nat, S # {}
  PROVE  \E n \in S : \A m \in S : n <= m
<1> DEFINE Less == OpToRel(<, Nat)
<1>1. \E x \in S : \A y \in S : <<y, x>> \notin Less
  <2>1. IsWellFoundedOn(Less, Nat)
    BY NatLessThanWellFounded
  <2> HIDE DEF Less
  <2> QED BY <2>1, WFMin
<1>2. \A x, y \in Nat : y < x => <<y, x>> \in Less
  BY DEF OpToRel
<1>3. PICK n \in S : \A m \in S : <<m, n>> \notin Less
  BY <1>1
<1> HIDE DEF Less
<1>4. ASSUME NEW m \in S PROVE n <= m
  <2>1. ~(m < n)
    BY <1>2, <1>3
  <2> QED BY <2>1
<1> QED BY <1>4

\* The arrays tried from some size on.
TriedFrom(g, low) == g = [n \in low..(Limit - 1) |-> IF n * 2 < Limit THEN g[n * 2] ELSE n]

\* The definition of the last array that is tried has a solution.
LEMMA TriedExists ==
  ASSUME NEW m \in 0..(Limit - 1)
  PROVE  \E g : TriedFrom(g, Limit - m)
<1> DEFINE Bad == {l \in 0..(Limit - 1) : ~\E g : TriedFrom(g, Limit - l)}
<1>0. Limit \in Nat
  BY PrivAssumption
<1>1. SUFFICES Bad = {}
  OBVIOUS
<1>2. SUFFICES ASSUME Bad # {} PROVE FALSE
  OBVIOUS
<1>3. PICK l \in Bad : \A k \in Bad : l <= k
  <2>1. Bad \subseteq Nat
    OBVIOUS
  <2> HIDE DEF Bad
  <2> QED BY <1>2, <2>1, LeastNumber
<1>4. l # 0
  <2> DEFINE f == [n \in Limit..(Limit - 1) |-> 0]
  <2>1. TriedFrom(f, Limit)
    BY <1>0 DEF TriedFrom
  <2>2. Limit - 0 = Limit
    BY <1>0
  <2> QED BY <1>3, <2>1, <2>2
<1>5. l - 1 \in 0..(Limit - 1) /\ ~(l <= l - 1) /\ l \in 1..(Limit - 1)
  BY <1>0, <1>3, <1>4
<1>6. PICK f : TriedFrom(f, Limit - (l - 1))
  BY <1>3, <1>5
<1> DEFINE low == Limit - l
           g == [n \in low..(Limit - 1) |->
                   IF n = low THEN IF low * 2 < Limit THEN f[low * 2] ELSE low ELSE f[n]]
<1>7. low \in Nat \ {0} /\ Limit - (l - 1) = low + 1 /\ low <= Limit - 1
  BY <1>0, <1>5
<1>8. f = [n \in (low + 1)..(Limit - 1) |-> IF n * 2 < Limit THEN f[n * 2] ELSE n]
  BY <1>6, <1>7 DEF TriedFrom
<1> HIDE DEF low
<1>9. ASSUME NEW n \in low..(Limit - 1)
      PROVE  g[n] = IF n * 2 < Limit THEN g[n * 2] ELSE n
  <2>1. n * 2 > low /\ n * 2 > n /\ n \in Nat
    BY <1>0, <1>7
  <2>2. n * 2 < Limit => g[n * 2] = f[n * 2]
    BY <1>0, <1>7, <2>1
  <2>3. CASE n = low
    BY <2>2, <2>3
  <2>4. CASE n # low
    <3>1. n \in (low + 1)..(Limit - 1) /\ g[n] = f[n]
      BY <1>0, <1>7, <2>4
    <3>2. f[n] = IF n * 2 < Limit THEN f[n * 2] ELSE n
      BY <1>8, <3>1
    <3> HIDE DEF g
    <3> QED BY <2>2, <3>1, <3>2
  <2> QED BY <2>3, <2>4
<1>10. TriedFrom(g, low)
  <2>1. g = [n \in low..(Limit - 1) |-> g[n]]
    OBVIOUS
  <2> HIDE DEF g
  <2>2. g = [n \in low..(Limit - 1) |-> IF n * 2 < Limit THEN g[n * 2] ELSE n]
    BY <1>9, <2>1
  <2> QED BY <2>2 DEF TriedFrom
<1> HIDE DEF g
<1> QED BY <1>3, <1>10 DEF low

\* The last array that is tried.
LEMMA LastTriedValue ==
  ASSUME NEW n \in 1..(Limit - 1)
  PROVE  Priv!LastTried[n] = IF n * 2 < Limit THEN Priv!LastTried[n * 2] ELSE n
<1>1. Limit \in Nat /\ Limit - 1 \in 0..(Limit - 1) /\ Limit - (Limit - 1) = 1
  BY PrivAssumption
<1>2. \E g : TriedFrom(g, 1)
  BY <1>1, TriedExists
<1>3. Priv!LastTried = CHOOSE g : TriedFrom(g, 1)
  BY Zenon DEF Priv!LastTried, TriedFrom
<1>4. TriedFrom(Priv!LastTried, 1)
  BY <1>2, <1>3
<1> QED BY <1>4 DEF TriedFrom

\* It is not smaller than the first.
LEMMA LastTriedBound ==
  ASSUME NEW n \in 1..(Limit - 1)
  PROVE  Priv!LastTried[n] \in n..(Limit - 1)
<1> DEFINE Bad == {m \in 1..(Limit - 1) : Priv!LastTried[m] \notin m..(Limit - 1)}
           Up  == {Limit - m : m \in Bad}
<1>0. Limit \in Nat
  BY PrivAssumption
<1>1. SUFFICES ASSUME Bad # {} PROVE FALSE
  OBVIOUS
<1>2. Up \subseteq Nat /\ Up # {}
  BY <1>0, <1>1
<1>3. PICK u \in Up : \A v \in Up : u <= v
  <2> HIDE DEF Up
  <2> QED BY <1>2, LeastNumber
<1>4. PICK m \in Bad : u = Limit - m
  BY <1>3
<1>5. \A k \in Bad : Limit - m <= Limit - k
  BY <1>3, <1>4
<1>6. m \in 1..(Limit - 1) /\ Priv!LastTried[m] \notin m..(Limit - 1)
  BY <1>4
<1>7. CASE m * 2 < Limit
  <2>1. m * 2 \in 1..(Limit - 1) /\ ~(Limit - m <= Limit - m * 2)
    BY <1>0, <1>6, <1>7
  <2>2. m * 2 \notin Bad
    BY <1>5, <2>1
  <2>3. Priv!LastTried[m * 2] \in (m * 2)..(Limit - 1)
    BY <2>1, <2>2
  <2>4. Priv!LastTried[m] = Priv!LastTried[m * 2]
    BY <1>6, <1>7, LastTriedValue
  <2> QED BY <1>0, <1>6, <2>3, <2>4
<1>8. CASE ~(m * 2 < Limit)
  <2>1. Priv!LastTried[m] = m
    BY <1>6, <1>8, LastTriedValue
  <2> QED BY <1>0, <1>6, <2>1
<1> QED BY <1>7, <1>8

-----------------------------------------------------------------------------
(* The private requests *)

\* The caller was given the table that fits, or nothing was left behind.
Served ==
  IF size \in 0..(IF hint = "needed" THEN Limit - 1 ELSE Priv!Largest)
  THEN ret = size /\ ppriv >= size
  ELSE ret = -1 /\ ppriv = -1

\* The array grows along the sizes that are tried, and while nothing was lost those not
\* named by the driver lead to the largest.
Growth ==
  /\ size \in Nat \cup {-1} /\ hint \in {"needed", "low", "none"} /\ lost \in Nat
  /\ pc \in {"alloc", "ask", "done"} /\ maxpriv \in Nat /\ priv \in Nat \cup {-1}
  /\ pc # "done" => maxpriv \in Start..(Limit - 1) /\ ret = -1 /\ ppriv = -1
  /\ pc = "ask" => priv = maxpriv
  /\ pc # "done" /\ lost = 0 /\ hint # "needed" => Priv!LastTried[maxpriv] = Priv!Largest
  /\ pc = "done" => priv = ppriv /\ (ret >= 0 => ret <= ppriv)
  /\ pc = "done" /\ lost = 0 => Served

\* The first array is tried first.
LEMMA GrowthInit == Priv!Init => Growth
<1> SUFFICES ASSUME Priv!Init PROVE Growth
  OBVIOUS
<1>1. Start \in Nat \ {0} /\ Limit \in Nat /\ Start < Limit /\ Sizes \subseteq Nat
  BY PrivAssumption
<1> QED BY <1>1 DEF Priv!Init, Growth, Priv!Largest

\* Each answer of the driver makes the array grow, or ends the loop.
LEMMA GrowthNext == Growth /\ [Priv!Next]_(Priv!vars) => Growth'
<1> SUFFICES ASSUME Growth, [Priv!Next]_(Priv!vars) PROVE Growth'
  OBVIOUS
<1>0. Start \in Nat \ {0} /\ Limit \in Nat /\ Start < Limit /\ Sizes \subseteq Nat
  BY PrivAssumption
<1>L. Priv!Largest' = Priv!Largest /\ Priv!LastTried' = Priv!LastTried
  BY DEF Priv!Largest, Priv!LastTried
<1> USE DEF Growth
<1>1. CASE Priv!DriverChanges
  <2>1. /\ size' \in Sizes \cup {-1} /\ hint' \in {"needed", "low", "none"}
        /\ lost' = lost + 1 /\ UNCHANGED <<pc, maxpriv, priv, ppriv, ret>>
    BY <1>1 DEF Priv!DriverChanges
  <2>2. lost' \in Nat /\ lost' # 0
    BY <2>1
  <2> QED BY <1>0, <2>1, <2>2
<1>2. CASE Priv!Realloc
  <2>1. /\ pc = "alloc" /\ UNCHANGED <<size, hint, maxpriv>>
        /\ \/ priv' = maxpriv /\ pc' = "ask" /\ UNCHANGED <<ppriv, ret, lost>>
           \/ /\ pc' = "done" /\ priv' = -1 /\ ppriv' = -1 /\ ret' = -1
              /\ lost' = lost + 1
    BY <1>2 DEF Priv!Realloc, Priv!GiveUp, Priv!driverVars
  <2>2. lost + 1 \in Nat /\ lost + 1 # 0
    OBVIOUS
  <2> QED BY <1>L, <2>1, <2>2
<1>3. CASE Priv!Answered
  <2>1. /\ pc = "ask" /\ pc' = "done" /\ size \in 0..maxpriv
        /\ ppriv' = priv /\ ret' = size /\ UNCHANGED <<size, hint, maxpriv, priv, lost>>
    BY <1>3 DEF Priv!Answered, Priv!driverVars
  <2>2. priv = maxpriv /\ maxpriv \in 1..(Limit - 1)
    BY <1>0, <2>1
  <2>3. lost = 0 => size \in 0..(IF hint = "needed" THEN Limit - 1 ELSE Priv!Largest)
    <3>1. CASE hint = "needed"
      BY <1>0, <2>1, <2>2, <3>1
    <3>2. CASE hint # "needed" /\ lost = 0
      <4>1. Priv!LastTried[maxpriv] \in maxpriv..(Limit - 1) /\ Priv!LastTried[maxpriv] = Priv!Largest
        BY <2>1, <2>2, <3>2, LastTriedBound
      <4> QED BY <1>0, <2>1, <2>2, <3>2, <4>1
    <3> QED BY <3>1, <3>2
  <2>4. lost' = 0 => Served'
    BY <1>L, <2>1, <2>2, <2>3 DEF Served
  <2> QED BY <2>1, <2>2, <2>4
<1>4. CASE Priv!Unsupported
  <2>1. /\ pc = "ask" /\ size = -1 /\ UNCHANGED <<size, hint, maxpriv, lost>>
        /\ pc' = "done" /\ priv' = -1 /\ ppriv' = -1 /\ ret' = -1
    BY <1>4 DEF Priv!Unsupported, Priv!GiveUp, Priv!driverVars
  <2>2. Served'
    BY <2>1 DEF Served
  <2> QED BY <2>1, <2>2
<1>5. CASE Priv!TooBig
  <2>1. /\ pc = "ask" /\ size > maxpriv /\ maxpriv' = Priv!Grown
        /\ UNCHANGED <<size, hint, lost>>
        /\ \/ maxpriv' < Limit /\ pc' = "alloc" /\ UNCHANGED <<priv, ppriv, ret>>
           \/ /\ ~(maxpriv' < Limit)
              /\ pc' = "done" /\ priv' = -1 /\ ppriv' = -1 /\ ret' = -1
    BY <1>5 DEF Priv!TooBig, Priv!GiveUp, Priv!driverVars
  <2>2. maxpriv \in 1..(Limit - 1) /\ maxpriv >= Start /\ size \in Nat
    BY <1>0, <2>1
  <2>3. maxpriv' = IF hint = "needed" THEN size ELSE maxpriv * 2
    BY <2>1, <2>2 DEF Priv!Grown, Priv!Length
  <2>4. maxpriv' \in Nat /\ maxpriv' >= Start
    BY <1>0, <2>1, <2>2, <2>3
  <2>5. CASE maxpriv' < Limit
    <3>1. maxpriv' \in Start..(Limit - 1)
      BY <1>0, <2>4, <2>5
    <3>2. lost = 0 /\ hint # "needed" => Priv!LastTried[maxpriv'] = Priv!Largest
      BY <2>1, <2>2, <2>3, <2>5, LastTriedValue
    <3> QED BY <1>L, <2>1, <2>4, <2>5, <3>1, <3>2
  <2>6. CASE ~(maxpriv' < Limit)
    <3>1. lost = 0 => size \notin 0..(IF hint = "needed" THEN Limit - 1 ELSE Priv!Largest)
      <4>1. CASE hint = "needed"
        BY <1>0, <2>2, <2>3, <2>6, <4>1
      <4>2. CASE hint # "needed" /\ lost = 0
        <5>1. Priv!Largest = maxpriv
          BY <2>1, <2>2, <2>3, <2>6, <4>2, LastTriedValue
        <5> QED BY <2>1, <2>2, <4>2, <5>1
      <4> QED BY <4>1, <4>2
    <3>2. lost' = 0 => Served'
      BY <1>L, <2>1, <2>6, <3>1 DEF Served
    <3> QED BY <2>1, <2>4, <2>6, <3>2
  <2> QED BY <2>5, <2>6
<1>6. CASE UNCHANGED Priv!vars
  BY <1>6, <1>L DEF Priv!vars, Priv!driverVars, Served
<1> QED BY <1>1, <1>2, <1>3, <1>4, <1>5, <1>6 DEF Priv!Next, Priv!Caller

\* The array grows as it should at every point of the reading.
LEMMA GrowthCorrect == Spec => [](fn = "priv" => Growth)
<1>1. Init => (fn = "priv" => Growth)
  BY PrivStarts, GrowthInit
<1>2. (fn = "priv" => Growth) /\ [Next]_vars => (fn = "priv" => Growth)'
  BY PrivRuns, GrowthNext
<1> QED BY <1>1, <1>2, PTL DEF Spec

\* For any first array and limit, a table that did not change is read, all of it, if the
\* driver names its size and it is below the limit, or else if it fits the last array
\* that doubling tries; and a table that is not read leaves nothing behind
\* (iwlib.c:603-654).
THEOREM SatisfiedCorrect == Spec => []Satisfied
<1>1. (fn = "priv" => Growth) => Satisfied
  <2> SUFFICES ASSUME Growth PROVE Priv!Satisfied
    BY DEF Satisfied
  <2> QED BY DEF Growth, Served, Priv!Satisfied
<1>2. Spec => [](fn = "priv" => Growth)
  BY GrowthCorrect
<1> QED BY <1>1, <1>2, PTL

-----------------------------------------------------------------------------
(* The configuration: its types, and when the network is looked for *)

\* A state of the driver, and a wireless_config, by their members.
IsDevice(d) ==
  d = [mode |-> d.mode, freq |-> d.freq, fixedFreq |-> d.fixedFreq, keys |-> d.keys,
       index |-> d.index, enabled |-> d.enabled, hidden |-> d.hidden, nwid |-> d.nwid,
       fixedNwid |-> d.fixedNwid, essid |-> d.essid, on |-> d.on, tells |-> d.tells]

IsInfo(c) ==
  c = [has |-> c.has, nwid |-> c.nwid, fixedNwid |-> c.fixedNwid, freq |-> c.freq,
       fixedFreq |-> c.fixedFreq, key |-> c.key, index |-> c.index, enabled |-> c.enabled, nokey |-> c.nokey, essid |-> c.essid, on |-> c.on,
       mode |-> c.mode]

\* What the provers need to know of the states a device may be in.
LEMMA SettingsFacts ==
  ASSUME NEW d \in Settings
  PROVE  /\ IsDevice(d) /\ d.mode \in Nat /\ d.index \in Nat \ {0} /\ d.index \in DOMAIN d.keys
         /\ Config!Freq2Float(d.freq) \in Nat
         /\ Config!Freq2Float(Config!Float2Freq(Config!Freq2Float(d.freq))) = Config!Freq2Float(d.freq)
         /\ \A e \in Settings : DOMAIN e.keys = DOMAIN d.keys
         /\ \A k \in DOMAIN d.keys : d.keys[k] # "NULL"
<1> DEFINE R == [mode : Nat, freq : Nat \X Nat, fixedFreq : BOOLEAN, keys : Seq(STRING),
              index : Nat \ {0}, enabled : BOOLEAN, hidden : BOOLEAN, nwid : Nat,
              fixedNwid : BOOLEAN, essid : Seq(STRING \ {"NUL"}), on : Nat, tells : BOOLEAN]
<1>1. d \in R
  BY SettingsAssumption, Zenon
<1>2. d.mode \in Nat /\ d.index \in Nat \ {0}
  BY <1>1
<1>3. IsDevice(d)
  BY <1>1 DEF IsDevice
<1> QED BY <1>2, <1>3, SettingsAssumption, Zenon

\* A setting that is read changes only its own part of the wireless_config.
LEMMA GotTypes ==
  ASSUME drv \in Settings, IsInfo(info), NEW request \in {"NWID", "FREQ", "ENCODE", "ESSID", "MODE"}
  PROVE  /\ IsInfo(Config!Got(request)) /\ Config!Got(request).has = info.has
         /\ Config!Got(request).mode \in {info.mode} \cup 0..7
         /\ Config!Got(request).freq \in {info.freq} \cup Nat
         /\ Config!Got(request).index \in {info.index, 0} \cup DOMAIN drv.keys
<1> USE SettingsFacts DEF IsInfo, Config!Got
<1>1. CASE request = "NWID"
  BY <1>1
<1>2. CASE request = "FREQ"
  BY <1>2
<1>3. CASE request = "ENCODE"
  BY <1>3
<1>4. CASE request = "ESSID"
  BY <1>4
<1>5. CASE request = "MODE"
  <2>1. Config!ModeGot(drv.mode) \in 0..7
    BY DEF Config!ModeGot, Config!IW_NUM_OPER_MODE
  <2> QED BY <1>5, <2>1
<1> QED BY <1>1, <1>2, <1>3, <1>4, <1>5

\* The requests in their order.
LEMMA Orders ==
  /\ Len(Config!GetOrder) = 5 /\ DOMAIN Config!GetOrder = 1..5
  /\ \A k \in 1..5 : Config!GetOrder[k] \in {"NWID", "FREQ", "ENCODE", "ESSID", "MODE"}
  /\ Len(Config!SetOrder) = 6 /\ DOMAIN Config!SetOrder = 1..6
  /\ Config!SetOrder[1] = "MODE" /\ Config!SetOrder[2] = "FREQ" /\ Config!SetOrder[3] = "INDEX"
  /\ Config!SetOrder[4] = "ENCODE" /\ Config!SetOrder[5] = "NWID" /\ Config!SetOrder[6] = "ESSID"
BY DEF Config!GetOrder, Config!SetOrder

\* A setting that is written keeps the driver a driver with the same keys.
LEMMA WrittenTypes ==
  ASSUME IsDevice(drv), NEW k \in 1..6, NEW a
  PROVE  /\ IsDevice(Config!Written(drv, Config!SetOrder[k], a))
         /\ DOMAIN Config!Written(drv, Config!SetOrder[k], a).keys = DOMAIN drv.keys
<1> USE DEF IsDevice, Config!Written
<1>1. CASE k = 1
  BY <1>1, Orders
<1>2. CASE k = 2
  BY <1>2, Orders
<1>3. CASE k = 3
  BY <1>3, Orders
<1>4. CASE k = 4
  BY <1>4, Orders
<1>5. CASE k = 5
  BY <1>5, Orders
<1>6. CASE k = 6
  BY <1>6, Orders
<1> HIDE DEF IsDevice, Config!Written
<1> QED BY <1>1, <1>2, <1>3, <1>4, <1>5, <1>6

\* Where the two functions are, and what they hold: the keys are the same ones all the
\* time, and a network is looked for by the last request and no other.
Configured ==
  /\ pc \in {"get", "between", "set", "done"} /\ step \in 0..7 /\ meddled \in Nat
  /\ pc = "get" => step <= 6
  /\ pc = "between" => step = 0
  /\ IsDevice(drv) /\ saved \in Settings /\ before \in Settings
  /\ pc \in {"get", "between"} => drv \in Settings
  /\ DOMAIN drv.keys = DOMAIN saved.keys
  /\ IsInfo(info) /\ info.has \subseteq supports \cap {"NWID", "FREQ", "ENCODE", "ESSID", "MODE"}
  /\ info.mode \in 0..7 /\ info.freq \in Nat /\ info.index \in {0} \cup DOMAIN drv.keys
  /\ ret \in {-2, -1, 0} /\ refused \subseteq {Config!SetOrder[k] : k \in 1..6}
  /\ joined # <<>> => pc \in {"set", "done"} /\ step = 7
  /\ joined # <<>> /\ meddled = 0 => joined[1] = drv

LEMMA ConfiguredInit == Config!Init => Configured
<1> SUFFICES ASSUME Config!Init PROVE Configured
  OBVIOUS
<1>1. /\ drv \in Settings /\ joined = <<>> /\ info = Config!Unset /\ pc = "get" /\ step = 0
      /\ ret = 0 /\ refused = {} /\ saved = drv /\ before = drv /\ meddled = 0
  BY DEF Config!Init
<1>2. IsInfo(info) /\ info.has = {} /\ info.mode = 0 /\ info.freq = 0 /\ info.index = 0
  BY <1>1 DEF IsInfo, Config!Unset
<1> QED BY <1>1, <1>2, SettingsFacts DEF Configured

LEMMA ConfiguredNext == Configured /\ [Config!Next]_(Config!vars) => Configured'
<1> SUFFICES ASSUME Configured, [Config!Next]_(Config!vars) PROVE Configured'
  OBVIOUS
<1>O. Config!SetOrder' = Config!SetOrder
  BY DEF Config!SetOrder
<1> USE DEF Configured
<1>1. CASE Config!Meddle
  <2>1. /\ drv' \in Settings /\ meddled' = meddled + 1 /\ pc \in {"get", "set"}
        /\ UNCHANGED <<joined, supports, info, pc, step, ret, refused, saved, before>>
    BY <1>1 DEF Config!Meddle, Config!kernelVars
  <2>2. IsDevice(drv') /\ DOMAIN drv'.keys = DOMAIN saved.keys
    BY <2>1, SettingsFacts
  <2> QED BY <1>O, <2>1, <2>2
<1>2. CASE Config!Reset
  <2>1. /\ drv' \in Settings /\ before' = drv' /\ joined' = <<>> /\ pc = "between" /\ pc' = "set"
        /\ UNCHANGED <<supports, info, step, ret, refused, saved, meddled>>
    BY <1>2 DEF Config!Reset, Config!kernelVars
  <2>2. IsDevice(drv') /\ DOMAIN drv'.keys = DOMAIN saved.keys
    BY <2>1, SettingsFacts
  <2> QED BY <1>O, <2>1, <2>2
<1>3. CASE pc \in {"get", "set"} /\ Config!Name
  BY <1>O, <1>3 DEF Config!Name, Config!kernelVars, Config!historyVars
<1>4. ASSUME NEW e \in {-1, -2}, Config!NoName(e) PROVE Configured'
  BY <1>O, <1>4 DEF Config!NoName, Config!kernelVars, Config!historyVars
<1>5. CASE Config!Get
  <2> DEFINE request == Config!GetOrder[step]
  <2>1. /\ pc = "get" /\ step \in 1..5 /\ step' = step + 1
        /\ UNCHANGED <<drv, joined, supports, pc, ret, refused, saved, before, meddled>>
    BY <1>5, Orders DEF Config!Get, Config!kernelVars, Config!historyVars
  <2>2. info' = IF request \in supports
                THEN [Config!Got(request) EXCEPT !.has = @ \cup {request}] ELSE info
    BY <1>5 DEF Config!Get
  <2>3. request \in {"NWID", "FREQ", "ENCODE", "ESSID", "MODE"}
    BY <2>1, Orders
  <2> HIDE DEF request
  <2>4. CASE request \in supports
    <3> DEFINE c == Config!Got(request)
    <3>1. /\ IsInfo(c) /\ c.has = info.has /\ c.mode \in {info.mode} \cup 0..7
          /\ c.freq \in {info.freq} \cup Nat /\ c.index \in {info.index, 0} \cup DOMAIN drv.keys
      BY <2>1, <2>3, GotTypes
    <3>2. info' = [c EXCEPT !.has = @ \cup {request}]
      BY <2>2, <2>4
    <3> HIDE DEF c
    <3>3. /\ IsInfo(info') /\ info'.has = info.has \cup {request} /\ info'.mode = c.mode
          /\ info'.freq = c.freq /\ info'.index = c.index
      BY <3>1, <3>2 DEF IsInfo
    <3> QED BY <1>O, <2>1, <2>3, <2>4, <3>1, <3>3
  <2>5. CASE request \notin supports
    BY <1>O, <2>1, <2>2, <2>5
  <2> QED BY <2>4, <2>5
<1>6. CASE Config!GetEnds
  BY <1>O, <1>6 DEF Config!GetEnds, Config!kernelVars
<1>7. CASE Config!Skip
  BY <1>O, <1>7, Orders DEF Config!Skip, Config!kernelVars, Config!historyVars
<1>8. CASE Config!Set
  <2> DEFINE a(left) == Config!Argument(Config!SetOrder[step], left)
  <2>0. PICK left \in BOOLEAN : drv' = Config!Written(drv, Config!SetOrder[step], a(left))
    BY <1>8 DEF Config!Set
  <2>1. /\ pc = "set" /\ step \in 1..6
        /\ joined' = IF Config!SetOrder[step] = "ESSID" THEN <<drv'>> ELSE joined
        /\ step' = step + 1
        /\ UNCHANGED <<supports, info, pc, ret, refused, saved, before, meddled>>
    BY <1>8, Orders DEF Config!Set, Config!kernelVars, Config!historyVars
  <2> HIDE DEF a
  <2>2. IsDevice(drv') /\ DOMAIN drv'.keys = DOMAIN drv.keys
    BY <2>0, <2>1, WrittenTypes
  <2>3. Config!SetOrder[step] = "ESSID" <=> step = 6
    BY <2>1, Orders
  <2>4. joined = <<>>
    BY <2>1
  <2>5. joined' # <<>> => step = 6 /\ joined' = <<drv'>>
    BY <2>1, <2>3, <2>4
  <2> QED BY <1>O, <2>1, <2>2, <2>5
<1>9. CASE Config!Refuse
  <2>1. /\ pc = "set" /\ step \in 1..6 /\ refused' = refused \cup {Config!SetOrder[step]}
        /\ ret' = -1 /\ step' = step + 1
        /\ UNCHANGED <<drv, joined, supports, info, pc, saved, before, meddled>>
    BY <1>9, Orders DEF Config!Refuse, Config!kernelVars, Config!historyVars
  <2> QED BY <1>O, <2>1
<1>10. CASE Config!SetEnds
  BY <1>O, <1>10 DEF Config!SetEnds, Config!kernelVars, Config!historyVars
<1>11. CASE UNCHANGED Config!vars
  BY <1>O, <1>11 DEF Config!vars, Config!kernelVars, Config!historyVars
<1> QED BY <1>1, <1>2, <1>3, <1>4, <1>5, <1>6, <1>7, <1>8, <1>9, <1>10, <1>11 DEF Config!Next

LEMMA ConfiguredCorrect == Spec => [](fn = "config" => Configured)
<1>1. Init => (fn = "config" => Configured)
  BY ConfigStarts, ConfiguredInit
<1>2. (fn = "config" => Configured) /\ [Next]_vars => (fn = "config" => Configured)'
  BY ConfigRuns, ConfiguredNext
<1> QED BY <1>1, <1>2, PTL DEF Spec

\* For any settings and however many of them are refused, the driver looks for a network
\* with all the others in place: no request is made after that for the name
\* (iwlib.c:835-839).
THEOREM JoinsLastCorrect == Spec => []JoinsLast
<1>1. (fn = "config" => Configured) => JoinsLast
  BY Orders DEF Configured, JoinsLast, Config!JoinsLast, Config!SetDone
<1> QED BY <1>1, ConfiguredCorrect, PTL

-----------------------------------------------------------------------------
(* The configuration: what was read is written back *)

\* No key: the empty string.
NoKey == ""

\* The wireless_config c has the settings of d, where it has them at all.
MatchesKey(c, d) ==
  /\ c.index = IF d.tells THEN d.index ELSE 0
  /\ c.enabled = d.enabled
  /\ c.nokey <=> d.hidden \/ d.keys[d.index] = NoKey
  /\ ~c.nokey => c.key = d.keys[d.index]

Matches(c, d) ==
  /\ "NWID" \in c.has => c.nwid = d.nwid
  /\ "FREQ" \in c.has => c.freq = Config!Freq2Float(d.freq)
  /\ "ENCODE" \in c.has => MatchesKey(c, d)
  /\ "ESSID" \in c.has => c.essid = d.essid /\ c.on = d.on
  /\ "MODE" \in c.has => c.mode = Config!ModeGot(d.mode)

\* What is read is held, beside what was held already.
LEMMA GotMatches ==
  ASSUME drv \in Settings, IsInfo(info), Matches(info, drv),
         NEW request \in {"NWID", "FREQ", "ENCODE", "ESSID", "MODE"},
         NEW c, c = [Config!Got(request) EXCEPT !.has = @ \cup {request}]
  PROVE  Matches(c, drv)
<1> DEFINE g == Config!Got(request)
<1>1. /\ IsInfo(g) /\ g.has = info.has
  BY GotTypes
<1>2. /\ c.has = info.has \cup {request} /\ c.nwid = g.nwid /\ c.freq = g.freq
      /\ c.key = g.key /\ c.index = g.index /\ c.enabled = g.enabled /\ c.nokey = g.nokey
      /\ c.essid = g.essid /\ c.on = g.on /\ c.mode = g.mode
  <2>1. c = [g EXCEPT !.has = @ \cup {request}]
    OBVIOUS
  <2> HIDE DEF g
  <2> QED BY <1>1, <2>1 DEF IsInfo
<1>3. CASE request = "NWID"
  <2>1. g = [info EXCEPT !.nwid = drv.nwid, !.fixedNwid = drv.fixedNwid]
    BY <1>3 DEF Config!Got
  <2> HIDE DEF g
  <2> QED BY <1>2, <1>3, <2>1 DEF IsInfo, Matches, MatchesKey
<1>4. CASE request = "FREQ"
  <2>1. g = [info EXCEPT !.freq = Config!Freq2Float(drv.freq), !.fixedFreq = drv.fixedFreq]
    BY <1>4 DEF Config!Got
  <2> HIDE DEF g
  <2> QED BY <1>2, <1>4, <2>1 DEF IsInfo, Matches, MatchesKey
<1>5. CASE request = "ENCODE"
  <2>1. g = [info EXCEPT !.key = IF drv.hidden THEN NoKey ELSE drv.keys[drv.index],
                         !.index = IF drv.tells THEN drv.index ELSE 0,
                         !.enabled = drv.enabled,
                         !.nokey = drv.hidden \/ drv.keys[drv.index] = NoKey]
    BY <1>5, Zenon DEF Config!Got, NoKey
  <2> HIDE DEF g
  <2>2. MatchesKey(c, drv)
    BY <1>2, <2>1 DEF IsInfo, MatchesKey
  <2> QED BY <1>2, <1>5, <2>1, <2>2 DEF IsInfo, Matches
<1>6. CASE request = "ESSID"
  <2>1. g = [info EXCEPT !.essid = drv.essid, !.on = drv.on]
    BY <1>6 DEF Config!Got
  <2> HIDE DEF g
  <2> QED BY <1>2, <1>6, <2>1 DEF IsInfo, Matches, MatchesKey
<1>7. CASE request = "MODE"
  <2>1. g = [info EXCEPT !.mode = Config!ModeGot(drv.mode)]
    BY <1>7 DEF Config!Got
  <2> HIDE DEF g
  <2> QED BY <1>2, <1>7, <2>1 DEF IsInfo, Matches, MatchesKey
<1> QED BY <1>3, <1>4, <1>5, <1>6, <1>7

\* The name of a network, sent as the kernel of either version takes it, is the name.
LEMMA NameArrives ==
  ASSUME NEW d \in Settings, info.essid = d.essid, weVersion \in {18, 22}
  PROVE  Config!NameGiven(Config!NameSent) = d.essid
<1> DEFINE name == d.essid
           C == STRING \cup {"NUL"}
<1>1. name \in Seq(STRING \ {"NUL"})
  BY SettingsAssumption
<1>2. name \in Seq(C) /\ \A k \in 1..Len(name) : name[k] # "NUL"
  <2> HIDE DEF name
  <2>1. name \in Seq(C)
    BY <1>1
  <2>2. \A k \in 1..Len(name) : name[k] \in STRING \ {"NUL"}
    BY <1>1, ElementOfSeq
  <2> QED BY <2>1, <2>2
<1>3. Config!NameSent = IF readable /\ weVersion >= 21 THEN name ELSE Append(name, "NUL")
  <2>1. {k \in 1..Len(name) : name[k] = "NUL"} = {}
    BY <1>2
  <2>2. Config!SelectInSeq(name, LAMBDA ch : ch = "NUL") = 0
    BY <2>1 DEF Config!SelectInSeq
  <2> QED BY <2>2 DEF Config!NameSent
<1>4. Len(name) \in Nat /\ (name = <<>> <=> Len(name) = 0)
  BY <1>2, EmptySeq, LenProperties
<1> HIDE DEF name
<1>C. "NUL" \in C
  OBVIOUS
<1> HIDE DEF C
<1>5. Len(Append(name, "NUL")) = Len(name) + 1 /\ Append(name, "NUL") # <<>>
      /\ Append(name, "NUL")[Len(name) + 1] = "NUL" /\ Append(name, "NUL") \in Seq(C)
      /\ \A k \in 1..Len(name) : Append(name, "NUL")[k] = name[k]
  BY <1>2, <1>4, <1>C, AppendProperties
<1>6. Config!Front(Append(name, "NUL")) = name
  <2>1. Config!Front(Append(name, "NUL")) = SubSeq(Append(name, "NUL"), 1, Len(name))
    BY <1>4, <1>5 DEF Config!Front
  <2>2. SubSeq(Append(name, "NUL"), 1, Len(name)) = name
    BY <1>2, <1>4, <1>5
  <2> QED BY <2>1, <2>2
<1>7. CASE readable /\ weVersion >= 21
  <2>1. Config!NameSent = name /\ ~(weVersion < 21)
    BY <1>3, <1>7
  <2>2. name # <<>> => Config!Last(name) # "NUL"
    BY <1>2, <1>4 DEF Config!Last
  <2> QED BY <2>1, <2>2 DEF Config!NameGiven, name
<1>8. CASE ~(readable /\ weVersion >= 21)
  <2>1. Config!NameSent = Append(name, "NUL")
    BY <1>3, <1>8
  <2>2. Config!Last(Append(name, "NUL")) = "NUL"
    BY <1>5 DEF Config!Last
  <2> QED BY <1>5, <1>6, <2>1, <2>2 DEF Config!NameGiven, name
<1> QED BY <1>7, <1>8

\* The key in use when nobody meddles: the one that was, or the one there is if the
\* driver did not tell.
Current == IF saved.tells THEN saved.index ELSE before.index

KeyPlaced ==
  /\ drv.enabled = saved.enabled
  /\ \A k \in DOMAIN drv.keys :
       drv.keys[k] = IF k = Current /\ ~saved.hidden /\ saved.keys[saved.index] # NoKey
                     THEN saved.keys[saved.index] ELSE before.keys[k]

\* Each request that was accepted before this step left what it wrote, and no request
\* before it touched the keys.
Placed ==
  /\ step > 1 /\ "MODE" \in info.has /\ "MODE" \notin refused
       => drv.mode = Config!ModeGot(saved.mode)
  /\ step > 2 /\ "FREQ" \in info.has /\ "FREQ" \notin refused
       => Config!Freq2Float(drv.freq) = Config!Freq2Float(saved.freq)
  /\ step <= 3 => drv.index = before.index
  /\ step > 3 /\ "ENCODE" \in info.has /\ "INDEX" \notin refused => drv.index = Current
  /\ step <= 4 => drv.keys = before.keys
  /\ step > 4 /\ "ENCODE" \in info.has /\ "INDEX" \notin refused /\ "ENCODE" \notin refused
       => KeyPlaced
  /\ step > 5 /\ "NWID" \in info.has /\ "NWID" \notin refused
       => drv.nwid = saved.nwid /\ drv.fixedNwid
  /\ step > 6 /\ "ESSID" \in info.has /\ "ESSID" \notin refused
       => drv.essid = saved.essid /\ drv.on = saved.on

\* Whether the settings are being written, or were.
Writing == pc = "set" \/ (pc = "done" /\ step > 6)

\* While nobody meddles, what was read is held, then written as far as it was accepted.
Kept ==
  /\ weVersion \in {18, 22}
  /\ pc \in {"get", "between"} => refused = {} /\ ret = 0
  /\ Writing => ret = IF refused = {} THEN 0 ELSE -1
  /\ meddled = 0 =>
       /\ pc = "get" => Matches(info, drv)
       /\ pc = "between" => Matches(info, saved)
       /\ Writing => Matches(info, saved) /\ Placed

LEMMA KeptInit == Config!Init => Kept
<1> SUFFICES ASSUME Config!Init PROVE Kept
  OBVIOUS
<1>1. /\ info = Config!Unset /\ pc = "get" /\ ret = 0 /\ refused = {} /\ weVersion \in {18, 22}
  BY DEF Config!Init
<1>2. info.has = {}
  BY <1>1 DEF Config!Unset
<1> QED BY <1>1, <1>2 DEF Kept, Writing, Matches

\* The first request for each setting that is asked for puts it where it was.
LEMMA SetPlaces ==
  ASSUME Configured, Kept, meddled = 0, Config!Set
  PROVE  Placed'
<1>0. PICK left \in BOOLEAN :
        drv' = Config!Written(drv, Config!SetOrder[step],
                              Config!Argument(Config!SetOrder[step], left))
  BY DEF Config!Set
<1> DEFINE a == Config!Argument(Config!SetOrder[step], left)
<1>1. /\ pc = "set" /\ step \in 1..6 /\ drv' = Config!Written(drv, Config!SetOrder[step], a)
      /\ step' = step + 1 /\ Config!Wanted(Config!SetOrder[step])
      /\ UNCHANGED <<info, refused, saved, before>>
  BY <1>0, Orders DEF Config!Set, Config!kernelVars, Config!historyVars
<1>2. Matches(info, saved) /\ Placed /\ weVersion \in {18, 22}
  <2>1. Writing
    BY <1>1 DEF Writing
  <2> QED BY <2>1, Zenon DEF Kept
<1>3. IsDevice(drv) /\ IsInfo(info) /\ saved \in Settings /\ before \in Settings
      /\ DOMAIN drv.keys = DOMAIN saved.keys
  BY DEF Configured
<1>N. NoKey' = NoKey
  BY DEF NoKey
<1>4. Current' = Current /\ \A m : Config!ModeGot(m)' = Config!ModeGot(m)
  BY <1>1 DEF Current, Config!ModeGot, Config!IW_NUM_OPER_MODE
<1> HIDE DEF a
<1>5. CASE step = 1
  <2>1. a = info.mode /\ "MODE" \in info.has
    BY <1>1, <1>5, Orders DEF a, Config!Argument, Config!Wanted
  <2>2. drv' = [drv EXCEPT !.mode = a, !.freq = <<0, 0>>]
    BY <1>1, <1>5, Orders DEF Config!Written
  <2>3. drv'.mode = a /\ UNCHANGED <<drv.keys, drv.index>>
    BY <1>3, <2>2 DEF IsDevice
  <2>4. drv'.mode = Config!ModeGot(saved.mode)
    BY <1>2, <2>1, <2>3 DEF Matches
  <2> QED BY <1>1, <1>2, <1>4, <1>5, <2>3, <2>4 DEF Placed
<1>6. CASE step = 2
  <2>1. a.freq = Config!Float2Freq(info.freq) /\ "FREQ" \in info.has
    BY <1>1, <1>6, Orders DEF a, Config!Argument, Config!Wanted
  <2>2. drv' = [drv EXCEPT !.freq = a.freq, !.fixedFreq = a.fixed]
    BY <1>1, <1>6, Orders DEF Config!Written
  <2>3. drv'.freq = a.freq /\ UNCHANGED <<drv.mode, drv.keys, drv.index>>
    BY <1>3, <2>2 DEF IsDevice
  <2>4. Config!Freq2Float(drv'.freq) = Config!Freq2Float(saved.freq)
    BY <1>2, <1>3, <2>1, <2>3, SettingsFacts DEF Matches
  <2> QED BY <1>1, <1>2, <1>4, <1>6, <2>3, <2>4 DEF Placed
<1>7. CASE step = 3
  <2>1. a = info.index /\ "ENCODE" \in info.has /\ info.index > 0
    BY <1>1, <1>7, Orders DEF a, Config!Argument, Config!Wanted
  <2>2. drv' = [drv EXCEPT !.index = a]
    BY <1>1, <1>7, Orders DEF Config!Written
  <2>3. drv'.index = a /\ UNCHANGED <<drv.mode, drv.freq, drv.keys>>
    BY <1>3, <2>2 DEF IsDevice
  <2>4. drv'.index = Current
    BY <1>2, <1>3, <2>1, <2>3, SettingsFacts DEF Matches, MatchesKey, Current
  <2> QED BY <1>1, <1>2, <1>4, <1>7, <2>3, <2>4 DEF Placed
<1>8. CASE step = 4
  <2>1. /\ "ENCODE" \in info.has /\ a.enabled = info.enabled
        /\ a.pointer = IF info.nokey THEN "NULL" ELSE info.key
    BY <1>1, <1>8, Orders DEF a, Config!Argument, Config!Wanted
  <2>2. drv' = [drv EXCEPT !.keys[drv.index] = IF a.pointer = "NULL" THEN @ ELSE a.pointer,
                           !.enabled = a.enabled]
    BY <1>1, <1>8, Orders DEF Config!Written
  <2>3. /\ UNCHANGED <<drv.mode, drv.freq, drv.index>> /\ drv'.enabled = a.enabled
        /\ drv'.keys = [drv.keys EXCEPT ![drv.index] = IF a.pointer = "NULL" THEN @ ELSE a.pointer]
    BY <1>3, <2>2 DEF IsDevice
  <2>4. ASSUME "INDEX" \notin refused PROVE KeyPlaced'
    <3>1. drv.index = Current /\ drv.keys = before.keys
      BY <1>2, <1>8, <2>1, <2>4 DEF Placed
    <3>2. Current \in DOMAIN drv.keys /\ saved.index \in DOMAIN saved.keys
      BY <1>3, SettingsFacts DEF Current
    <3>3. MatchesKey(info, saved)
      BY <1>2, <2>1 DEF Matches
    <3>4. \A k \in DOMAIN saved.keys : saved.keys[k] # "NULL"
      BY <1>3, SettingsFacts
    <3>5. CASE info.nokey
      <4>1. DOMAIN drv'.keys = DOMAIN drv.keys /\ \A k \in DOMAIN drv.keys : drv'.keys[k] = drv.keys[k]
        BY <2>1, <2>3, <3>5
      <4>2. saved.hidden \/ saved.keys[saved.index] = NoKey
        BY <3>3, <3>5 DEF MatchesKey
      <4> QED BY <1>1, <1>4, <1>N, <2>1, <2>3, <3>1, <3>3, <4>1, <4>2 DEF KeyPlaced, MatchesKey
    <3>6. CASE ~info.nokey
      <4>1. a.pointer = saved.keys[saved.index] /\ a.pointer # "NULL"
        BY <2>1, <3>2, <3>3, <3>4, <3>6 DEF MatchesKey
      <4>2. ~saved.hidden /\ saved.keys[saved.index] # NoKey
        BY <3>3, <3>6 DEF MatchesKey
      <4>3. drv'.keys = [drv.keys EXCEPT ![Current] = saved.keys[saved.index]]
        BY <2>3, <3>1, <4>1
      <4> QED BY <1>1, <1>4, <1>N, <2>1, <2>3, <3>1, <3>2, <3>3, <4>2, <4>3 DEF KeyPlaced, MatchesKey
    <3> QED BY <3>5, <3>6
  <2> QED BY <1>1, <1>2, <1>4, <1>8, <2>3, <2>4 DEF Placed
<1>9. CASE step = 5
  <2>1. a.nwid = info.nwid /\ a.fixed = TRUE /\ "NWID" \in info.has
    BY <1>1, <1>9, Orders DEF a, Config!Argument, Config!Wanted
  <2>2. drv' = [drv EXCEPT !.nwid = a.nwid, !.fixedNwid = a.fixed]
    BY <1>1, <1>9, Orders DEF Config!Written
  <2>3. /\ drv'.nwid = a.nwid /\ drv'.fixedNwid = a.fixed
        /\ UNCHANGED <<drv.mode, drv.freq, drv.index, drv.keys, drv.enabled>>
    BY <1>3, <2>2 DEF IsDevice
  <2>4. drv'.nwid = saved.nwid /\ drv'.fixedNwid
    BY <1>2, <2>1, <2>3 DEF Matches
  <2>5. KeyPlaced => KeyPlaced'
    BY <1>1, <1>4, <1>N, <2>3 DEF KeyPlaced
  <2> QED BY <1>1, <1>2, <1>4, <1>9, <2>3, <2>4, <2>5 DEF Placed
<1>10. CASE step = 6
  <2>1. a.essid = Config!NameSent /\ a.on = info.on /\ "ESSID" \in info.has
    BY <1>1, <1>10, Orders DEF a, Config!Argument, Config!Wanted
  <2>2. drv' = [drv EXCEPT !.essid = Config!NameGiven(a.essid), !.on = a.on]
    BY <1>1, <1>10, Orders DEF Config!Written
  <2>3. /\ drv'.essid = Config!NameGiven(a.essid) /\ drv'.on = a.on
        /\ UNCHANGED <<drv.mode, drv.freq, drv.index, drv.keys, drv.enabled, drv.nwid,
                       drv.fixedNwid>>
    BY <1>3, <2>2 DEF IsDevice
  <2>4. info.essid = saved.essid /\ info.on = saved.on
    BY <1>2, <2>1 DEF Matches
  <2>5. drv'.essid = saved.essid
    BY <1>2, <1>3, <2>1, <2>3, <2>4, NameArrives
  <2>6. KeyPlaced => KeyPlaced'
    BY <1>1, <1>4, <1>N, <2>3 DEF KeyPlaced
  <2> QED BY <1>1, <1>2, <1>4, <1>10, <2>1, <2>3, <2>4, <2>5, <2>6 DEF Placed
<1> QED BY <1>1, <1>5, <1>6, <1>7, <1>8, <1>9, <1>10

\* What is skipped or refused leaves the rest as it was.
LEMMA OthersPlace ==
  ASSUME Configured, Kept, meddled = 0, Config!Skip \/ Config!Refuse
  PROVE  Placed'
<1>1. /\ pc = "set" /\ step \in 1..6 /\ step' = step + 1
      /\ \/ ~Config!Wanted(Config!SetOrder[step]) /\ refused' = refused
         \/ refused' = refused \cup {Config!SetOrder[step]}
      /\ UNCHANGED <<drv, info, saved, before>>
  BY Orders DEF Config!Skip, Config!Refuse, Config!kernelVars, Config!historyVars
<1>2. Matches(info, saved) /\ Placed
  <2>1. Writing
    BY <1>1 DEF Writing
  <2> QED BY <2>1, Zenon DEF Kept
<1>3. Current' = Current /\ NoKey' = NoKey /\ (\A m : Config!ModeGot(m)' = Config!ModeGot(m))
  BY <1>1 DEF Current, Config!ModeGot, Config!IW_NUM_OPER_MODE, NoKey
<1>4. KeyPlaced => KeyPlaced'
  BY <1>1, <1>3 DEF KeyPlaced
<1>5. CASE refused' = refused /\ ~Config!Wanted(Config!SetOrder[step])
  <2>1. /\ step \in {1, 2, 4, 5, 6} => Config!SetOrder[step] \notin info.has
        /\ step = 3 => "ENCODE" \notin info.has \/ ~(info.index > 0)
    BY <1>1, <1>5, Orders DEF Config!Wanted
  <2>2. step = 3 /\ "ENCODE" \in info.has => drv.index = Current
    <3> SUFFICES ASSUME step = 3, "ENCODE" \in info.has PROVE drv.index = Current
      OBVIOUS
    <3>1. info.index = IF saved.tells THEN saved.index ELSE 0
      BY <1>2 DEF Matches, MatchesKey
    <3>2. saved.index \in Nat \ {0}
      BY SettingsFacts DEF Configured
    <3> QED BY <1>2, <2>1, <3>1, <3>2 DEF Current, Placed
  <2> QED BY <1>1, <1>2, <1>3, <1>4, <1>5, <2>1, <2>2, Orders DEF Placed
<1>6. CASE refused' = refused \cup {Config!SetOrder[step]}
  BY <1>1, <1>2, <1>3, <1>4, <1>6, Orders DEF Placed
<1> QED BY <1>1, <1>5, <1>6

LEMMA KeptNext == Configured /\ Kept /\ [Config!Next]_(Config!vars) => Kept'
<1> SUFFICES ASSUME Configured, Kept, [Config!Next]_(Config!vars) PROVE Kept'
  OBVIOUS
<1>M. \A m : Config!ModeGot(m)' = Config!ModeGot(m)
  BY DEF Config!ModeGot, Config!IW_NUM_OPER_MODE
<1>N. NoKey' = NoKey
  BY DEF NoKey
<1>H. ASSUME UNCHANGED <<info, drv, saved>>
      PROVE  Matches(info, drv)' = Matches(info, drv) /\ Matches(info, saved)' = Matches(info, saved)
  BY <1>H, <1>M, <1>N DEF Matches, MatchesKey
<1>P. ASSUME UNCHANGED <<info, drv, saved, before, step, refused>>, Placed PROVE Placed'
  <2>1. Current' = Current
    BY <1>P DEF Current
  <2>2. KeyPlaced' = KeyPlaced
    BY <1>P, <1>N, <2>1 DEF KeyPlaced
  <2> QED BY <1>P, <1>M, <2>1, <2>2 DEF Placed
<1>1. CASE Config!Meddle
  <2>1. meddled' = meddled + 1 /\ UNCHANGED <<weVersion, pc, step, ret, refused>>
    BY <1>1 DEF Config!Meddle, Config!kernelVars
  <2>2. meddled' # 0
    BY <2>1 DEF Configured
  <2> QED BY <2>1, <2>2 DEF Kept, Writing
<1>2. CASE Config!Reset
  <2>1. /\ before' = drv' /\ drv' \in Settings /\ pc = "between" /\ pc' = "set" /\ step = 0
        /\ UNCHANGED <<weVersion, info, step, ret, refused, saved, meddled>>
    BY <1>2 DEF Config!Reset, Config!kernelVars, Configured
  <2>2. Placed'
    BY <2>1 DEF Placed
  <2>3. Matches(info, saved)' = Matches(info, saved)
    BY <1>M, <1>N, <2>1 DEF Matches, MatchesKey
  <2> QED BY <2>1, <2>2, <2>3 DEF Kept, Writing
<1>3. CASE pc \in {"get", "set"} /\ Config!Name
  <2>1. /\ pc \in {"get", "set"} /\ step = 0 /\ step' = 1
        /\ UNCHANGED <<weVersion, drv, info, pc, ret, refused, saved, before, meddled>>
    BY <1>3 DEF Config!Name, Config!kernelVars, Config!historyVars
  <2>2. Placed => Placed'
    BY <2>1 DEF Placed
  <2> QED BY <1>H, <2>1, <2>2 DEF Kept, Writing
<1>4. ASSUME NEW e \in {-1, -2}, Config!NoName(e) PROVE Kept'
  <2>1. step = 0 /\ step' = 0 /\ pc' = "done" /\ UNCHANGED weVersion
    BY <1>4 DEF Config!NoName, Config!kernelVars
  <2> QED BY <2>1 DEF Kept, Writing
<1>5. CASE Config!Get
  <2> DEFINE request == Config!GetOrder[step]
  <2>1. /\ pc = "get" /\ step \in 1..5
        /\ UNCHANGED <<weVersion, drv, pc, ret, refused, meddled>>
    BY <1>5, Orders DEF Config!Get, Config!kernelVars, Config!historyVars
  <2>2. info' = IF request \in supports
                THEN [Config!Got(request) EXCEPT !.has = @ \cup {request}] ELSE info
    BY <1>5 DEF Config!Get
  <2>3. request \in {"NWID", "FREQ", "ENCODE", "ESSID", "MODE"}
    BY <2>1, Orders
  <2>4. drv \in Settings /\ IsInfo(info)
    BY <2>1 DEF Configured
  <2> HIDE DEF request
  <2>5. ASSUME Matches(info, drv) PROVE Matches(info', drv)
    BY <2>2, <2>3, <2>4, <2>5, GotMatches
  <2>6. Matches(info', drv) => Matches(info, drv)'
    BY <1>M, <1>N, <2>1 DEF Matches, MatchesKey
  <2> QED BY <2>1, <2>5, <2>6 DEF Kept, Writing
<1>6. CASE Config!GetEnds
  <2>1. /\ pc = "get" /\ pc' = "between" /\ saved' = drv
        /\ UNCHANGED <<weVersion, info, drv, ret, refused, meddled>>
    BY <1>6 DEF Config!GetEnds, Config!kernelVars
  <2>2. Matches(info, drv) => Matches(info, saved)'
    BY <1>M, <1>N, <2>1 DEF Matches, MatchesKey
  <2> QED BY <2>1, <2>2 DEF Kept, Writing
<1>7. CASE Config!Skip \/ Config!Refuse
  <2>1. /\ pc = "set" /\ pc' = "set" /\ UNCHANGED <<weVersion, drv, info, saved, before, meddled>>
        /\ \/ UNCHANGED <<ret, refused>>
           \/ ret' = -1 /\ refused' # {}
    BY <1>7 DEF Config!Skip, Config!Refuse, Config!kernelVars, Config!historyVars
  <2>2. meddled = 0 => Placed'
    BY <1>7, OthersPlace
  <2>3. Writing /\ Writing'
    BY <2>1 DEF Writing
  <2> QED BY <1>H, <2>1, <2>2, <2>3 DEF Kept
<1>8. CASE Config!Set
  <2>1. /\ pc = "set" /\ pc' = "set"
        /\ UNCHANGED <<weVersion, info, saved, before, meddled, ret, refused>>
    BY <1>8 DEF Config!Set, Config!kernelVars, Config!historyVars
  <2>2. meddled = 0 => Placed'
    BY <1>8, SetPlaces
  <2>3. Writing /\ Writing'
    BY <2>1 DEF Writing
  <2>4. Matches(info, saved)' = Matches(info, saved)
    BY <1>M, <1>N, <2>1 DEF Matches, MatchesKey
  <2> QED BY <2>1, <2>2, <2>3, <2>4 DEF Kept
<1>9. CASE Config!SetEnds
  <2>1. /\ pc = "set" /\ pc' = "done"
        /\ UNCHANGED <<weVersion, drv, info, saved, before, meddled, ret, refused, step>>
    BY <1>9 DEF Config!SetEnds, Config!kernelVars, Config!historyVars
  <2> QED BY <1>H, <1>P, <2>1 DEF Kept, Writing
<1>10. CASE UNCHANGED Config!vars
  <2>1. UNCHANGED <<pc, weVersion, drv, info, saved, before, meddled, ret, refused, step>>
    BY <1>10 DEF Config!vars, Config!kernelVars, Config!historyVars
  <2> QED BY <1>H, <1>P, <2>1 DEF Kept, Writing
<1> QED BY <1>1, <1>2, <1>3, <1>4, <1>5, <1>6, <1>7, <1>8, <1>9, <1>10 DEF Config!Next

LEMMA KeptCorrect == Spec => [](fn = "config" => Kept)
<1>1. Init => (fn = "config" => Kept)
  BY ConfigStarts, KeptInit
<1>2. (fn = "config" => Configured) /\ (fn = "config" => Kept) /\ [Next]_vars
        => (fn = "config" => Kept)'
  BY ConfigRuns, KeptNext
<1> QED BY <1>1, <1>2, ConfiguredCorrect, PTL DEF Spec

\* For any settings that SettingsAssumption admits (frequencies that iw_float2freq gives
\* back, keys that are not the word for no key), whatever the driver supports and however
\* many requests it refuses: what was read before a reset and accepted after it has the
\* value it had, the keys that were not the current one are those of the reset card, and
\* a refusal is reported (iwlib.c:741-859).  Only values come back: the network id is
\* fixed from then on (iwlib.c:826), and whether the frequency is fixed or the driver's
\* choice is not written at all (iwlib.c:770-774).
THEOREM RestoredCorrect == Spec => []Restored
<1>1. Configured /\ Kept => Config!Restored
  <2> SUFFICES ASSUME Configured, Kept, Config!SetDone PROVE
        /\ ret = IF refused = {} THEN 0 ELSE -1
        /\ meddled = 0 =>
             \A request \in info.has :
               refused \cap (IF request = "ENCODE" THEN {"INDEX", "ENCODE"} ELSE {request}) = {}
                 => Config!Same(request)
    BY DEF Config!Restored
  <2>1. pc = "done" /\ step = 7
    BY Orders DEF Config!SetDone, Configured
  <2>2. Writing
    BY <2>1 DEF Writing
  <2>3. ret = IF refused = {} THEN 0 ELSE -1
    BY <2>2, Zenon DEF Kept
  <2>4. ASSUME meddled = 0, NEW request \in info.has,
               refused \cap (IF request = "ENCODE" THEN {"INDEX", "ENCODE"} ELSE {request}) = {}
        PROVE  Config!Same(request)
    <3>1. Placed
      BY <2>2, <2>4, Zenon DEF Kept
    <3>2. CASE request = "MODE"
      BY <2>1, <2>4, <3>1, <3>2 DEF Placed, Config!Same
    <3>3. CASE request = "FREQ"
      BY <2>1, <2>4, <3>1, <3>3 DEF Placed, Config!Same
    <3>4. CASE request = "NWID"
      BY <2>1, <2>4, <3>1, <3>4 DEF Placed, Config!Same
    <3>5. CASE request = "ESSID"
      BY <2>1, <2>4, <3>1, <3>5 DEF Placed, Config!Same
    <3>6. CASE request = "ENCODE"
      <4>1. "INDEX" \notin refused /\ "ENCODE" \notin refused
        BY <2>4, <3>6
      <4>2. drv.index = Current /\ KeyPlaced
        BY <2>1, <2>4, <3>1, <3>6, <4>1 DEF Placed
      <4> QED BY <3>6, <4>2, Zenon DEF KeyPlaced, Current, NoKey, Config!Same
    <3> QED BY <2>4, <3>2, <3>3, <3>4, <3>5, <3>6 DEF Configured
  <2> QED BY <2>3, <2>4
<1>2. (fn = "config" => Configured) /\ (fn = "config" => Kept) => Restored
  BY <1>1 DEF Restored
<1> QED BY <1>2, ConfiguredCorrect, KeptCorrect, PTL

-----------------------------------------------------------------------------
(* The range: the versions arrive, and what is said of them *)

\* The sizes of the two structs, and how much of them a driver may write.
LEMMA Lengths ==
  ASSUME NEW d \in Drivers
  PROVE  /\ Ranges!SizeOf = 588 /\ Ranges!Size15 = 308
         /\ d.compiled \in 10..255 /\ d.source \in 0..255
         /\ d.compiled = 10 => Ranges!Length(d) = 280
         /\ d.compiled > 10 => Ranges!Length(d) \in 304..588
<1>1. /\ OldLayout["avg_qual"] = <<304, 4>> /\ NewLayout["bitrate_capa"] = <<584, 4>>
      /\ OldLayout["we_version_compiled"] = <<280, 1>>
      /\ NewLayout["enc_capa"][1] = 564 /\ NewLayout["min_pms"][1] = 568
  BY LayoutAssumption
<1>2. Ranges!SizeOf = 588 /\ Ranges!Size15 = 308
  BY <1>1 DEF Ranges!SizeOf, Ranges!Size15
<1>3. d.compiled \in 10..255 /\ d.source \in 0..255
  BY RangeAssumption
<1>4. CASE d.compiled = 10
  BY <1>1, <1>2, <1>3, <1>4 DEF Ranges!Length
<1>5. CASE d.compiled = 11
  BY <1>1, <1>2, <1>3, <1>5 DEF Ranges!Length
<1>6. CASE d.compiled \in 12..15
  BY <1>1, <1>2, <1>3, <1>6 DEF Ranges!Length
<1>7. CASE d.compiled \in 16..17
  BY <1>1, <1>2, <1>3, <1>7 DEF Ranges!Length
<1>8. CASE d.compiled \in 18..21
  BY <1>1, <1>2, <1>3, <1>8 DEF Ranges!Length
<1>9. CASE d.compiled \in 22..255
  BY <1>1, <1>2, <1>3, <1>9 DEF Ranges!Length
<1> QED BY <1>2, <1>3, <1>4, <1>5, <1>6, <1>7, <1>8, <1>9

\* The two bytes at 280 are the versions, in whatever layout the driver uses.
LEMMA VersionBytes ==
  ASSUME NEW d \in Drivers, d.compiled > 10
  PROVE  /\ Ranges!ByteOf(d, 280) = <<"we_version_compiled", d.compiled>>
         /\ Ranges!ByteOf(d, 281) = <<"we_version_source", d.source>>
<1> DEFINE L == Ranges!Layout(d)
           Here(at) == {f \in DOMAIN L : L[f][1] <= at /\ at < L[f][1] + L[f][2]}
<1>1. L \in {OldLayout, NewLayout}
  BY DEF Ranges!Layout
<1>2. /\ "we_version_compiled" \in DOMAIN L /\ L["we_version_compiled"] = <<280, 1>>
      /\ "we_version_source" \in DOMAIN L /\ L["we_version_source"] = <<281, 1>>
      /\ \A f, g \in DOMAIN L :
           /\ L[f] \in Nat \X Nat
           /\ f # g => L[f][1] + L[f][2] <= L[g][1] \/ L[g][1] + L[g][2] <= L[f][1]
  BY <1>1, LayoutAssumption
<1>3. Ranges!Length(d) \in 304..588
  BY Lengths
<1> HIDE DEF L
<1>4. Here(280) = {"we_version_compiled"}
  BY <1>2
<1>5. Here(281) = {"we_version_source"}
  BY <1>2
<1>6. \A at \in {280, 281} : Ranges!ByteOf(d, at) =
        IF at >= Ranges!Length(d) \/ Here(at) = {} THEN Ranges!Zero
        ELSE Ranges!Written(d, CHOOSE f \in Here(at) : TRUE, at - L[CHOOSE f \in Here(at) : TRUE][1])
  BY Zenon DEF Ranges!ByteOf, L
<1>7. (CHOOSE f \in Here(280) : TRUE) = "we_version_compiled"
  BY <1>4
<1>8. (CHOOSE f \in Here(281) : TRUE) = "we_version_source"
  BY <1>5
<1> HIDE DEF Here
<1>9. /\ Ranges!ByteOf(d, 280) = Ranges!Written(d, "we_version_compiled", 280 - L["we_version_compiled"][1])
      /\ Ranges!ByteOf(d, 281) = Ranges!Written(d, "we_version_source", 281 - L["we_version_source"][1])
  BY <1>3, <1>4, <1>5, <1>6, <1>7, <1>8
<1> QED BY <1>9 DEF Ranges!Written

\* The eight copies that bring the old struct into the later one.
LEMMA CopiesLaid ==
  /\ DOMAIN Ranges!Copies = 1..8
  /\ Ranges!Copies[1] = <<0, 0, 12>>
  /\ Ranges!Copies[2] = <<304, 12, 132>>
  /\ Ranges!Copies[3] = <<40, 144, 8>>
  /\ Ranges!Copies[4] = <<52, 152, 36>>
  /\ Ranges!Copies[5] = <<184, 188, 56>>
  /\ Ranges!Copies[6] = <<242, 244, 4>>
  /\ Ranges!Copies[7] = <<248, 248, 56>>
  /\ Ranges!Copies[8] = <<48, 304, 4>>
<1> DEFINE T(k) == <<Ranges!iwr_off(Ranges!Blocks[k][1]), Ranges!iwr15_off(Ranges!Blocks[k][1]),
                     Ranges!iwr15_off(Ranges!Blocks[k][2]) - Ranges!iwr15_off(Ranges!Blocks[k][1])>>
           x == <<0, 0, Ranges!iwr15_off("num_channels")>>
           y == <<Ranges!iwr_off("avg_qual"), Ranges!iwr15_off("avg_qual"), 4>>
           m == [k \in DOMAIN Ranges!Blocks |-> T(k)]
           S == {x, y} \cup {T(k) : k \in 1..6}
<1>1. DOMAIN Ranges!Blocks = 1..6
  BY DEF Ranges!Blocks
<1>2. /\ x = <<0, 0, 12>> /\ y = <<48, 304, 4>>
      /\ T(1) = <<304, 12, 132>> /\ T(2) = <<40, 144, 8>> /\ T(3) = <<52, 152, 36>>
      /\ T(4) = <<184, 188, 56>> /\ T(5) = <<242, 244, 4>> /\ T(6) = <<248, 248, 56>>
  <2>1. /\ Ranges!iwr15_off("num_channels") = 12 /\ Ranges!iwr_off("num_channels") = 304
        /\ Ranges!iwr15_off("sensitivity") = 144 /\ Ranges!iwr_off("sensitivity") = 40
        /\ Ranges!iwr15_off("num_bitrates") = 152 /\ Ranges!iwr_off("num_bitrates") = 52
        /\ Ranges!iwr15_off("min_rts") = 188 /\ Ranges!iwr_off("min_rts") = 184
        /\ Ranges!iwr15_off("txpower_capa") = 244 /\ Ranges!iwr_off("txpower_capa") = 242
        /\ Ranges!iwr15_off("txpower") = 248 /\ Ranges!iwr_off("txpower") = 248
        /\ Ranges!iwr15_off("avg_qual") = 304 /\ Ranges!iwr_off("avg_qual") = 48
    BY PlacesAssumption DEF Ranges!iwr_off, Ranges!iwr15_off
  <2>2. /\ Ranges!Blocks[1] = <<"num_channels", "sensitivity">>
        /\ Ranges!Blocks[2] = <<"sensitivity", "num_bitrates">>
        /\ Ranges!Blocks[3] = <<"num_bitrates", "min_rts">>
        /\ Ranges!Blocks[4] = <<"min_rts", "txpower_capa">>
        /\ Ranges!Blocks[5] = <<"txpower_capa", "txpower">>
        /\ Ranges!Blocks[6] = <<"txpower", "avg_qual">>
    BY DEF Ranges!Blocks
  <2>3. \A f, g, k : Ranges!Blocks[k] = <<f, g>> =>
          T(k) = <<Ranges!iwr_off(f), Ranges!iwr15_off(f), Ranges!iwr15_off(g) - Ranges!iwr15_off(f)>>
    OBVIOUS
  <2> HIDE DEF T
  <2> QED BY <2>1, <2>2, <2>3
<1>3. Ranges!Copies = <<x>> \o m \o <<y>>
  BY Zenon DEF Ranges!Copies
<1>4. m = [k \in 1..6 |-> T(k)] /\ x \in S /\ y \in S /\ \A k \in 1..6 : T(k) \in S
  BY <1>1
<1> HIDE DEF T, x, y, m, S
<1>5. m \in Seq(S) /\ Len(m) = 6
      /\ m[1] = T(1) /\ m[2] = T(2) /\ m[3] = T(3) /\ m[4] = T(4) /\ m[5] = T(5) /\ m[6] = T(6)
  BY <1>4
<1>6. <<x>> \in Seq(S) /\ <<y>> \in Seq(S) /\ Len(<<x>>) = 1 /\ Len(<<y>>) = 1
      /\ <<x>>[1] = x /\ <<y>>[1] = y
  BY <1>4
<1>7. /\ <<x>> \o m \in Seq(S) /\ Len(<<x>> \o m) = Len(<<x>>) + Len(m)
      /\ \A k \in 1..(Len(<<x>>) + Len(m)) :
           (<<x>> \o m)[k] = IF k <= Len(<<x>>) THEN <<x>>[k] ELSE m[k - Len(<<x>>)]
  BY <1>5, <1>6, ConcatProperties
<1> DEFINE c == <<x>> \o m
<1> HIDE DEF c
<1>8. c \in Seq(S) /\ Len(c) = 7 /\ c[1] = x /\ \A k \in 2..7 : c[k] = m[k - 1]
  BY <1>5, <1>6, <1>7 DEF c
<1>9. /\ c \o <<y>> \in Seq(S) /\ Len(c \o <<y>>) = Len(c) + Len(<<y>>)
      /\ \A k \in 1..(Len(c) + Len(<<y>>)) :
           (c \o <<y>>)[k] = IF k <= Len(c) THEN c[k] ELSE <<y>>[k - Len(c)]
  BY <1>6, <1>8, ConcatProperties
<1>10. Ranges!Copies = c \o <<y>>
  BY <1>3 DEF c
<1>11. Len(c \o <<y>>) = 8 /\ DOMAIN (c \o <<y>>) = 1..8
  BY <1>6, <1>8, <1>9, LenProperties
<1>12. (c \o <<y>>)[1] = x /\ (c \o <<y>>)[8] = y /\ \A k \in 2..7 : (c \o <<y>>)[k] = m[k - 1]
  BY <1>6, <1>8, <1>9
<1> DEFINE e == c \o <<y>>
<1> HIDE DEF e
<1>13. /\ e[1] = x /\ e[2] = m[1] /\ e[3] = m[2] /\ e[4] = m[3] /\ e[5] = m[4]
       /\ e[6] = m[5] /\ e[7] = m[6] /\ e[8] = y
  <2>1. e[1] = x /\ e[8] = y /\ \A k \in 2..7 : e[k] = m[k - 1]
    BY <1>12 DEF e
  <2>2. 2 - 1 = 1 /\ 3 - 1 = 2 /\ 4 - 1 = 3 /\ 5 - 1 = 4 /\ 6 - 1 = 5 /\ 7 - 1 = 6
    OBVIOUS
  <2>3. 2 \in 2..7 /\ 3 \in 2..7 /\ 4 \in 2..7 /\ 5 \in 2..7 /\ 6 \in 2..7 /\ 7 \in 2..7
    OBVIOUS
  <2> QED BY <2>1, <2>2, <2>3, Zenon
<1>14. Ranges!Copies = e /\ DOMAIN e = 1..8
  BY <1>10, <1>11 DEF e
<1> QED BY <1>2, <1>5, <1>13, <1>14, ZenonT(60)

\* The byte at 280 or 281 of the caller's struct is the one that the driver's buffer has
\* there, copied as a whole or by the last copy but one.
LEMMA VersionsStay ==
  ASSUME NEW d \in Drivers, NEW at \in {280, 281}
  PROVE  Ranges!Converted(d)[at] = Ranges!Guessed(d, at)
<1> DEFINE copies == Ranges!Copies
           covering == {k \in DOMAIN copies : Ranges!Covers(copies[k], at)}
           last == CHOOSE k \in covering : \A l \in covering : l <= k
<1>1. at \in 0..(Ranges!SizeOf - 1)
  BY Lengths
<1>2. DOMAIN copies = 1..8 /\ copies[7] = <<248, 248, 56>> /\ copies[8] = <<48, 304, 4>>
  BY CopiesLaid
<1>3. Ranges!Converted(d)[at] \in
        {Ranges!Guessed(d, at),
         IF covering = {} THEN Ranges!Zero
         ELSE Ranges!Guessed(d, copies[last][2] + at - copies[last][1])}
  <2>1. CASE Ranges!Guessed(d, Ranges!iwr_off("we_version_compiled"))[2] > 15
    BY <1>1, <2>1, Zenon DEF Ranges!Converted
  <2>2. CASE ~(Ranges!Guessed(d, Ranges!iwr_off("we_version_compiled"))[2] > 15)
    BY <1>1, <2>2, Zenon DEF Ranges!Converted
  <2> QED BY <2>1, <2>2
<1> HIDE DEF copies
<1>4. 7 \in covering /\ \A k \in covering : k \in 1..7
  BY <1>2 DEF Ranges!Covers
<1> HIDE DEF covering
<1>5. last = 7
  <2>1. \A l \in covering : l <= 7
    BY <1>4
  <2>2. last \in covering /\ \A l \in covering : l <= last
    BY <1>4, <2>1
  <2> HIDE DEF last
  <2> QED BY <1>4, <2>2
<1> HIDE DEF last
<1>6. copies[last][2] + at - copies[last][1] = at
  BY <1>2, <1>5
<1> QED BY <1>3, <1>4, <1>6

\* The versions arrive, that of a driver too old to have one as 9.
LEMMA VersionsArrive ==
  ASSUME NEW d \in Drivers
  PROVE  /\ Ranges!Version(Ranges!Converted(d), "we_version_compiled")
              = IF d.compiled = 10 THEN 9 ELSE d.compiled
         /\ d.compiled > 10 =>
              Ranges!Version(Ranges!Converted(d), "we_version_source") = d.source
<1>1. Ranges!iwr_off("we_version_compiled") = 280 /\ Ranges!iwr_off("we_version_source") = 281
  BY LayoutAssumption DEF Ranges!iwr_off
<1>2. d.compiled \in 10..255 /\ d.source \in 0..255
  BY Lengths
<1>3. CASE d.compiled = 10
  <2>1. Ranges!Guessed(d, 280) = <<"we_version_compiled", 9>>
    BY <1>1, <1>3, Lengths DEF Ranges!Guessed
  <2>2. Ranges!Converted(d)[280] = <<"we_version_compiled", 9>>
    BY <2>1, VersionsStay
  <2> QED BY <1>1, <1>3, <2>2 DEF Ranges!Version
<1>4. CASE d.compiled > 10
  <2>1. Ranges!Length(d) \in 304..588
    BY <1>4, Lengths
  <2>2. /\ Ranges!Guessed(d, 280) = <<"we_version_compiled", d.compiled>>
        /\ Ranges!Guessed(d, 281) = <<"we_version_source", d.source>>
    BY <1>1, <1>4, <2>1, VersionBytes DEF Ranges!Guessed
  <2>3. /\ Ranges!Converted(d)[280] = <<"we_version_compiled", d.compiled>>
        /\ Ranges!Converted(d)[281] = <<"we_version_source", d.source>>
    BY <2>2, VersionsStay
  <2> QED BY <1>1, <1>2, <1>4, <2>3 DEF Ranges!Version
<1> QED BY <1>2, <1>3, <1>4

\* What is said of a driver: one thing once, and nothing of one that this program knows.
LEMMA WhatIsSaid ==
  ASSUME NEW d \in Drivers
  PROVE  LET w == Ranges!Warnings(Ranges!Converted(d)) IN
         /\ w \in {<<>>, <<"ancient">>, <<"future">>, <<"recommends">>, <<"future", "recommends">>}
         /\ w # <<>> <=> (d.compiled \notin 11..22 \/ d.source > d.compiled)
<1> DEFINE w == Ranges!Warnings(Ranges!Converted(d))
           c == Ranges!Version(Ranges!Converted(d), "we_version_compiled")
           s == Ranges!Version(Ranges!Converted(d), "we_version_source")
<1>1. w = (IF c <= 10 THEN <<"ancient">> ELSE <<>>)
          \o (IF c > 22 THEN <<"future">> ELSE <<>>)
          \o (IF c > 10 /\ c < s THEN <<"recommends">> ELSE <<>>)
  BY DEF Ranges!Warnings, Ranges!WeMaxVersion
<1>2. /\ c = IF d.compiled = 10 THEN 9 ELSE d.compiled
      /\ d.compiled > 10 => s = d.source
  BY VersionsArrive
<1>3. d.compiled \in 10..255 /\ d.source \in 0..255
  BY Lengths
<1>S. SUFFICES
        /\ w \in {<<>>, <<"ancient">>, <<"future">>, <<"recommends">>, <<"future", "recommends">>}
        /\ w # <<>> <=> (d.compiled \notin 11..22 \/ d.source > d.compiled)
  OBVIOUS
<1> HIDE DEF w, c, s
<1>4. CASE d.compiled = 10
  <2>1. w = <<"ancient">> \o <<>> \o <<>>
    BY <1>1, <1>2, <1>4
  <2>2. w = <<"ancient">>
    BY <2>1
  <2> QED BY <1>4, <2>2
<1>5. CASE d.compiled \in 11..22 /\ ~(d.source > d.compiled)
  <2>1. w = <<>> \o <<>> \o <<>>
    BY <1>1, <1>2, <1>3, <1>5
  <2>2. w = <<>>
    BY <2>1
  <2> QED BY <1>3, <1>5, <2>2
<1>6. CASE d.compiled \in 11..22 /\ d.source > d.compiled
  <2>0. ~(c <= 10) /\ ~(c > 22) /\ c > 10 /\ c < s
    BY <1>2, <1>3, <1>6
  <2>1. w = <<>> \o <<>> \o <<"recommends">>
    BY <1>1, <2>0, Zenon
  <2>2. w = <<"recommends">>
    BY <2>1
  <2> QED BY <1>3, <1>6, <2>2
<1>7. CASE d.compiled > 22 /\ ~(d.source > d.compiled)
  <2>0. ~(c <= 10) /\ c > 22 /\ ~(c > 10 /\ c < s)
    BY <1>2, <1>3, <1>7
  <2>1. w = <<>> \o <<"future">> \o <<>>
    BY <1>1, <2>0, Zenon
  <2>2. w = <<"future">>
    BY <2>1
  <2> QED BY <1>3, <1>7, <2>2
<1>8. CASE d.compiled > 22 /\ d.source > d.compiled
  <2>0. ~(c <= 10) /\ c > 22 /\ c > 10 /\ c < s
    BY <1>2, <1>3, <1>8
  <2>1. w = <<>> \o <<"future">> \o <<"recommends">>
    BY <1>1, <2>0, Zenon
  <2>2. <<>> \o <<"future">> = <<"future">>
    OBVIOUS
  <2>4. <<"future">> \o <<"recommends">> = <<"future", "recommends">>
    <3> DEFINE T == {"future", "recommends"}
               u == <<"future">> \o <<"recommends">>
    <3>1. <<"future">> \in Seq(T) /\ <<"recommends">> \in Seq(T)
      OBVIOUS
    <3>2. /\ u \in Seq(T) /\ Len(u) = Len(<<"future">>) + Len(<<"recommends">>)
          /\ \A k \in 1..(Len(<<"future">>) + Len(<<"recommends">>)) :
               u[k] = IF k <= Len(<<"future">>) THEN <<"future">>[k]
                      ELSE <<"recommends">>[k - Len(<<"future">>)]
      BY <3>1, ConcatProperties
    <3> HIDE DEF u
    <3>3. u \in Seq(T) /\ Len(u) = 2 /\ u[1] = "future" /\ u[2] = "recommends"
      BY <3>2
    <3>4. u = <<"future", "recommends">>
      BY <3>3
    <3> QED BY <3>4 DEF u
  <2>3. w = <<"future", "recommends">>
    BY <2>1, <2>2, <2>4, Zenon
  <2> QED BY <1>3, <1>8, <2>3
<1>9. \/ d.compiled = 10
      \/ d.compiled \in 11..22 /\ ~(d.source > d.compiled)
      \/ d.compiled \in 11..22 /\ d.source > d.compiled
      \/ d.compiled > 22 /\ ~(d.source > d.compiled)
      \/ d.compiled > 22 /\ d.source > d.compiled
  BY <1>3
<1> QED BY <1>4, <1>5, <1>6, <1>7, <1>8, <1>9, Zenon

\* The name of the bytes that nobody wrote.
NoMember == ""

\* A byte of the driver's buffer belongs to a member of the later struct, or to none.
LEMMA BytesOfMembers ==
  ASSUME NEW d \in Drivers, NEW at
  PROVE  Ranges!Guessed(d, at)[1] \in DOMAIN NewLayout \cup {NoMember}
<1> DEFINE L == Ranges!Layout(d)
           Here == {f \in DOMAIN L : L[f][1] <= at /\ at < L[f][1] + L[f][2]}
           pick == CHOOSE f \in Here : TRUE
<1>1. Ranges!Zero = <<NoMember, 0>>
  BY Zenon DEF Ranges!Zero, NoMember
<1>2. DOMAIN L \subseteq DOMAIN NewLayout /\ "we_version_compiled" \in DOMAIN NewLayout
  BY LayoutAssumption DEF Ranges!Layout
<1>3. \A f, j : Ranges!Written(d, f, j)[1] = f
  BY DEF Ranges!Written
<1>4. Ranges!ByteOf(d, at) = IF at >= Ranges!Length(d) \/ Here = {} THEN Ranges!Zero
                             ELSE Ranges!Written(d, pick, at - L[pick][1])
  BY Zenon DEF Ranges!ByteOf
<1>5. Here # {} => pick \in DOMAIN L
  OBVIOUS
<1> HIDE DEF L, Here, pick
<1>6. Ranges!ByteOf(d, at)[1] \in DOMAIN NewLayout \cup {NoMember}
  BY <1>1, <1>2, <1>3, <1>4, <1>5
<1>7. Ranges!Guessed(d, at) \in {<<"we_version_compiled", 9>>, Ranges!ByteOf(d, at)}
  BY Zenon DEF Ranges!Guessed
<1> QED BY <1>2, <1>6, <1>7

\* The caller's struct is filled from end to end, with such bytes.
LEMMA Filled ==
  ASSUME NEW d \in Drivers
  PROVE  /\ DOMAIN Ranges!Converted(d) = 0..(Ranges!SizeOf - 1)
         /\ \A at \in 0..(Ranges!SizeOf - 1) :
              Ranges!Converted(d)[at][1] \in DOMAIN NewLayout \cup {NoMember}
<1>1. Ranges!Zero[1] = NoMember
  <2>1. Ranges!Zero = <<NoMember, 0>>
    BY Zenon DEF Ranges!Zero, NoMember
  <2> QED BY <2>1
<1>2. CASE Ranges!Guessed(d, Ranges!iwr_off("we_version_compiled"))[2] > 15
  <2>1. Ranges!Converted(d) = [at \in 0..(Ranges!SizeOf - 1) |-> Ranges!Guessed(d, at)]
    BY <1>2, Zenon DEF Ranges!Converted
  <2> QED BY <2>1, BytesOfMembers
<1>3. CASE ~(Ranges!Guessed(d, Ranges!iwr_off("we_version_compiled"))[2] > 15)
  <2> DEFINE copies == Ranges!Copies
             covering(at) == {k \in DOMAIN copies : Ranges!Covers(copies[k], at)}
             last(at) == CHOOSE k \in covering(at) : \A l \in covering(at) : l <= k
             from(at) == copies[last(at)][2] + at - copies[last(at)][1]
  <2>1. Ranges!Converted(d) =
          [at \in 0..(Ranges!SizeOf - 1) |->
             IF covering(at) = {} THEN Ranges!Zero ELSE Ranges!Guessed(d, from(at))]
    BY <1>3, Zenon DEF Ranges!Converted
  <2> HIDE DEF covering, from
  <2> QED BY <1>1, <2>1, BytesOfMembers
<1> QED BY <1>2, <1>3

\* What was said is what there is to say of the first driver that answered.
Complaint ==
  /\ DOMAIN range = 0..(Ranges!SizeOf - 1)
  /\ \A at \in DOMAIN range : range[at][1] \in DOMAIN NewLayout \cup {NoMember}
  /\ iwIgnoreVersion \in BOOLEAN /\ got \in {<<>>} \cup {<<d>> : d \in Drivers}
  /\ first = <<>> => said = <<>> /\ ~iwIgnoreVersion
  /\ first # <<>> =>
       /\ iwIgnoreVersion
       /\ \E d \in Drivers :
            LET w == Ranges!Warnings(Ranges!Converted(d)) IN
            /\ first = <<d>>
            /\ said = [k \in DOMAIN w |-> <<d, w[k]>>]

LEMMA ComplaintInit == Ranges!Init => Complaint
<1> SUFFICES ASSUME Ranges!Init PROVE Complaint
  OBVIOUS
<1>1. Ranges!Zero = <<NoMember, 0>>
  BY Zenon DEF Ranges!Zero, NoMember
<1>2. range = [at \in 0..(Ranges!SizeOf - 1) |-> Ranges!Zero]
  BY DEF Ranges!Init
<1>3. DOMAIN range = 0..(Ranges!SizeOf - 1) /\ \A at \in DOMAIN range : range[at][1] = NoMember
  BY <1>1, <1>2
<1>4. iwIgnoreVersion = FALSE /\ said = <<>> /\ got = <<>> /\ first = <<>>
  BY DEF Ranges!Init
<1> QED BY <1>3, <1>4 DEF Complaint

LEMMA ComplaintNext == Complaint /\ [Ranges!Next]_(Ranges!vars) => Complaint'
<1> SUFFICES ASSUME Complaint, [Ranges!Next]_(Ranges!vars) PROVE Complaint'
  OBVIOUS
<1>P. NoMember' = NoMember /\ Ranges!SizeOf' = Ranges!SizeOf /\ NewLayout' = NewLayout
      /\ \A d : Ranges!Warnings(Ranges!Converted(d))' = Ranges!Warnings(Ranges!Converted(d))
  OBVIOUS
<1>1. ASSUME UNCHANGED <<range, iwIgnoreVersion, said, got, first>> PROVE Complaint'
  BY <1>1, <1>P DEF Complaint
<1>2. ASSUME NEW d \in Drivers, Ranges!GetRangeInfo(d) PROVE Complaint'
  <2> DEFINE w == Ranges!Warnings(Ranges!Converted(d))
             more == [k \in DOMAIN w |-> <<d, w[k]>>]
  <2>1. /\ range' = Ranges!Converted(d) /\ iwIgnoreVersion' = TRUE /\ got' = <<d>>
        /\ first' = IF first = <<>> THEN <<d>> ELSE first
        /\ said' = said \o IF iwIgnoreVersion THEN <<>> ELSE more
    BY <1>2, Zenon DEF Ranges!GetRangeInfo
  <2>2. w \in {<<>>, <<"ancient">>, <<"future">>, <<"recommends">>, <<"future", "recommends">>}
    BY WhatIsSaid
  <2>3. more \in Seq(Drivers \X {"ancient", "future", "recommends"})
    <3> HIDE DEF w
    <3> QED BY <2>2
  <2> HIDE DEF more
  <2>4. CASE first = <<>>
    <3>1. first' = <<d>> /\ said' = <<>> \o more
      BY <2>1, <2>4 DEF Complaint
    <3>2. said' = more
      BY <2>3, <3>1, ConcatEmptySeq
    <3>3. said' = [k \in DOMAIN Ranges!Warnings(Ranges!Converted(d)) |->
                     <<d, Ranges!Warnings(Ranges!Converted(d))[k]>>]
      BY <3>2 DEF more
    <3> HIDE DEF w
    <3>4. first' # <<>>
      BY <3>1
    <3> QED BY <1>P, <2>1, <3>1, <3>3, <3>4, Filled DEF Complaint
  <2>5. CASE first # <<>>
    <3>1. first' = first /\ said' = said \o <<>>
      BY <2>1, <2>5 DEF Complaint
    <3>2. PICK e \in Drivers :
            /\ first = <<e>>
            /\ said = [k \in DOMAIN Ranges!Warnings(Ranges!Converted(e)) |->
                         <<e, Ranges!Warnings(Ranges!Converted(e))[k]>>]
      BY <2>5 DEF Complaint
    <3>3. said' = said
      <4> DEFINE v == Ranges!Warnings(Ranges!Converted(e))
      <4>1. v \in {<<>>, <<"ancient">>, <<"future">>, <<"recommends">>, <<"future", "recommends">>}
        BY WhatIsSaid
      <4>2. said = [k \in DOMAIN v |-> <<e, v[k]>>]
        BY <3>2
      <4> HIDE DEF v
      <4>3. said \in Seq(Drivers \X {"ancient", "future", "recommends"})
        BY <4>1, <4>2
      <4> QED BY <3>1, <4>3, ConcatEmptySeq
    <3> QED BY <1>P, <2>1, <3>1, <3>2, <3>3, Filled DEF Complaint
  <2> QED BY <2>4, <2>5
<1> QED BY <1>1, <1>2 DEF Ranges!Next, Ranges!Refused, Ranges!vars

LEMMA ComplaintCorrect == Spec => [](fn = "range" => Complaint)
<1>1. Init => (fn = "range" => Complaint)
  BY RangeStarts, ComplaintInit
<1>2. (fn = "range" => Complaint) /\ [Next]_vars => (fn = "range" => Complaint)'
  BY RangeRuns, ComplaintNext
<1> QED BY <1>1, <1>2, PTL DEF Spec

\* For any drivers and any number of calls: all that is said is said of the first driver
\* that answers, no warning of it twice, and some warning unless this program knows its
\* version and has no reason to want a later one (iwlib.c:546-581).
THEOREM OneComplaintCorrect == Spec => []OneComplaint
<1>1. (fn = "range" => Complaint) => OneComplaint
  <2> SUFFICES ASSUME Complaint PROVE Ranges!OneComplaint
    BY DEF OneComplaint
  <2>1. CASE first = <<>>
    BY <2>1 DEF Complaint, Ranges!OneComplaint
  <2>2. CASE first # <<>>
    <3>1. PICK d \in Drivers :
            /\ first = <<d>>
            /\ said = [k \in DOMAIN Ranges!Warnings(Ranges!Converted(d)) |->
                         <<d, Ranges!Warnings(Ranges!Converted(d))[k]>>]
      BY <2>2 DEF Complaint
    <3> DEFINE w == Ranges!Warnings(Ranges!Converted(d))
    <3>2. /\ w \in {<<>>, <<"ancient">>, <<"future">>, <<"recommends">>, <<"future", "recommends">>}
          /\ w # <<>> <=> (d.compiled \notin 11..22 \/ d.source > d.compiled)
      BY WhatIsSaid
    <3>3. said = [k \in DOMAIN w |-> <<d, w[k]>>]
      BY <3>1
    <3> HIDE DEF w
    <3>4. \A j, k \in DOMAIN said : said[j][1] = first[1] /\ (said[j] = said[k] => j = k)
      BY <3>1, <3>2, <3>3
    <3>5. said # <<>> <=> w # <<>>
      BY <3>2, <3>3
    <3>6. {first[k] : k \in DOMAIN first} = {d}
      BY <3>1
    <3> QED BY <3>2, <3>4, <3>5, <3>6 DEF Ranges!OneComplaint, Ranges!WeMaxVersion
  <2> QED BY <2>1, <2>2
<1> QED BY <1>1, ComplaintCorrect, PTL

-----------------------------------------------------------------------------
(* The range: each member arrives in the member of the same name *)

\* A byte of the later struct that no copy writes.
Bare(at) == \A k \in 1..8 : ~Ranges!Covers(Ranges!Copies[k], at)

\* A driver of the old layout is found out, and only it.
LEMMA WhichLayout ==
  ASSUME NEW d \in Drivers
  PROVE  Ranges!Guessed(d, Ranges!iwr_off("we_version_compiled"))[2] > 15 <=> d.compiled > 15
<1>1. Ranges!iwr_off("we_version_compiled") = 280
  BY LayoutAssumption DEF Ranges!iwr_off
<1>2. d.compiled \in 10..255
  BY Lengths
<1>3. CASE d.compiled = 10
  <2>1. Ranges!Guessed(d, 280) = <<"we_version_compiled", 9>>
    BY <1>1, <1>3, Lengths DEF Ranges!Guessed
  <2> QED BY <1>1, <1>3, <2>1
<1>4. CASE d.compiled > 10
  <2>1. Ranges!Guessed(d, 280) = <<"we_version_compiled", d.compiled>>
    <3>1. Ranges!Length(d) \in 304..588
      BY <1>4, Lengths
    <3> QED BY <1>1, <1>4, <3>1, VersionBytes DEF Ranges!Guessed
  <2> QED BY <1>1, <2>1
<1> QED BY <1>2, <1>3, <1>4

\* A byte of the caller's struct that a copy writes is the one that it copies there.
LEMMA Brought ==
  ASSUME NEW d \in Drivers, d.compiled <= 15, NEW at \in 0..587,
         NEW k \in 1..8, Ranges!Covers(Ranges!Copies[k], at)
  PROVE  Ranges!Converted(d)[at]
           = Ranges!Guessed(d, Ranges!Copies[k][2] + at - Ranges!Copies[k][1])
<1> DEFINE copies == Ranges!Copies
           covering == {l \in DOMAIN copies : Ranges!Covers(copies[l], at)}
           last == CHOOSE l \in covering : \A o \in covering : o <= l
<1>1. at \in 0..(Ranges!SizeOf - 1)
  BY Lengths
<1>2. ~(Ranges!Guessed(d, Ranges!iwr_off("we_version_compiled"))[2] > 15)
  <2>1. d.compiled \in 10..255
    BY Lengths
  <2> QED BY <2>1, WhichLayout
<1>3. Ranges!Converted(d)[at] =
         IF covering = {} THEN Ranges!Zero
         ELSE Ranges!Guessed(d, copies[last][2] + at - copies[last][1])
  BY <1>1, <1>2, Zenon DEF Ranges!Converted
<1>4. covering = {k}
  BY CopiesLaid, SMTT(60) DEF Ranges!Covers
<1>5. last = k
  <2> HIDE DEF covering
  <2>1. \A l \in covering : l <= k
    BY <1>4
  <2>2. last \in covering
    BY <1>4, <2>1
  <2> HIDE DEF last
  <2> QED BY <1>4, <2>2
<1> HIDE DEF copies, covering, last
<1>6. Ranges!Converted(d)[at] = Ranges!Guessed(d, copies[k][2] + at - copies[k][1])
  BY <1>3, <1>4, <1>5
<1> QED BY <1>6 DEF copies

\* One that no copy writes is zero.
LEMMA LeftClear ==
  ASSUME NEW d \in Drivers, d.compiled <= 15, NEW at \in 0..587, Bare(at)
  PROVE  Ranges!Converted(d)[at] = Ranges!Zero
<1> DEFINE copies == Ranges!Copies
           covering == {l \in DOMAIN copies : Ranges!Covers(copies[l], at)}
           last == CHOOSE l \in covering : \A o \in covering : o <= l
<1>1. at \in 0..(Ranges!SizeOf - 1)
  BY Lengths
<1>2. ~(Ranges!Guessed(d, Ranges!iwr_off("we_version_compiled"))[2] > 15)
  <2>1. d.compiled \in 10..255
    BY Lengths
  <2> QED BY <2>1, WhichLayout
<1>3. Ranges!Converted(d)[at] =
         IF covering = {} THEN Ranges!Zero
         ELSE Ranges!Guessed(d, copies[last][2] + at - copies[last][1])
  BY <1>1, <1>2, Zenon DEF Ranges!Converted
<1>4. covering = {}
  BY CopiesLaid, ZenonT(60) DEF Bare
<1> QED BY <1>3, <1>4, Zenon

\* What a byte of the driver's buffer is, by the member it belongs to.
LEMMA ByteOfMember ==
  ASSUME NEW d \in Drivers, NEW f \in DOMAIN Ranges!Layout(d),
         NEW j \in 0..(Ranges!Layout(d)[f][2] - 1)
  PROVE  Ranges!ByteOf(d, Ranges!Layout(d)[f][1] + j)
           = IF Ranges!Layout(d)[f][1] + j >= Ranges!Length(d) THEN Ranges!Zero
             ELSE Ranges!Written(d, f, j)
<1> DEFINE L == Ranges!Layout(d)
           at == L[f][1] + j
           Here == {g \in DOMAIN L : L[g][1] <= at /\ at < L[g][1] + L[g][2]}
           pick == CHOOSE g \in Here : TRUE
<1>1. L \in {OldLayout, NewLayout}
  BY DEF Ranges!Layout
<1>2. \A g, h \in DOMAIN L :
        /\ L[g] \in Nat \X Nat
        /\ g # h => L[g][1] + L[g][2] <= L[h][1] \/ L[h][1] + L[h][2] <= L[g][1]
  BY <1>1, LayoutAssumption
<1>3. Ranges!ByteOf(d, at) = IF at >= Ranges!Length(d) \/ Here = {} THEN Ranges!Zero
                             ELSE Ranges!Written(d, pick, at - L[pick][1])
  BY Zenon DEF Ranges!ByteOf
<1>4. f \in DOMAIN L /\ j \in 0..(L[f][2] - 1)
  OBVIOUS
<1> HIDE DEF L
<1>5. Here = {f} /\ at - L[f][1] = j
  BY <1>2, <1>4
<1>6. pick = f
  BY <1>5
<1> HIDE DEF at, Here, pick
<1>7. Ranges!ByteOf(d, at) = IF at >= Ranges!Length(d) THEN Ranges!Zero ELSE Ranges!Written(d, f, j)
  BY <1>3, <1>5, <1>6
<1> QED BY <1>7 DEF at, L

\* Drivers write whole members.
LEMMA WholeMembers ==
  ASSUME NEW d \in Drivers, NEW f \in DOMAIN Ranges!Layout(d)
  PROVE  /\ Ranges!Layout(d)[f][1] \in Nat /\ Ranges!Layout(d)[f][2] \in Nat
         /\ \/ Ranges!Layout(d)[f][1] >= Ranges!Length(d)
            \/ Ranges!Layout(d)[f][1] + Ranges!Layout(d)[f][2] <= Ranges!Length(d)
<1>1. d.compiled \in 10..255 /\ Ranges!SizeOf = 588 /\ Ranges!Size15 = 308
  BY Lengths
<1>2. CASE d.compiled <= 15
  <2>1. Ranges!Layout(d) = OldLayout
    BY <1>2 DEF Ranges!Layout
  <2>2. /\ "we_version_compiled" \in DOMAIN OldLayout /\ OldLayout["we_version_compiled"] = <<280, 1>>
        /\ "avg_qual" \in DOMAIN OldLayout /\ OldLayout["avg_qual"] = <<304, 4>>
        /\ \A g, h \in DOMAIN OldLayout :
             /\ OldLayout[g] \in Nat \X Nat
             /\ g # h => \/ OldLayout[g][1] + OldLayout[g][2] <= OldLayout[h][1]
                         \/ OldLayout[h][1] + OldLayout[h][2] <= OldLayout[g][1]
    BY LayoutAssumption
  <2>3. Ranges!Length(d) \in {280, 304, 308}
    <3>1. CASE d.compiled = 10
      BY <3>1, <2>2 DEF Ranges!Length
    <3>2. CASE d.compiled = 11
      BY <3>2, <2>2 DEF Ranges!Length
    <3>3. CASE d.compiled \in 12..15
      BY <1>1, <3>3, <2>2 DEF Ranges!Length
    <3> QED BY <1>1, <1>2, <3>1, <3>2, <3>3
  <2> QED BY <2>1, <2>2, <2>3
<1>3. CASE d.compiled > 15
  <2>1. Ranges!Layout(d) = NewLayout
    BY <1>1, <1>3 DEF Ranges!Layout
  <2>2. /\ "enc_capa" \in DOMAIN NewLayout /\ NewLayout["enc_capa"] = <<564, 4>>
        /\ "min_pms" \in DOMAIN NewLayout /\ NewLayout["min_pms"] = <<568, 4>>
        /\ "bitrate_capa" \in DOMAIN NewLayout /\ NewLayout["bitrate_capa"] = <<584, 4>>
    BY PlacesAssumption
  <2>3. \A g, h \in DOMAIN NewLayout :
             /\ NewLayout[g] \in Nat \X Nat
             /\ g # h => \/ NewLayout[g][1] + NewLayout[g][2] <= NewLayout[h][1]
                         \/ NewLayout[h][1] + NewLayout[h][2] <= NewLayout[g][1]
    BY LayoutAssumption
  <2>4. Ranges!Length(d) \in {564, 568, 588}
    <3>1. CASE d.compiled \in 16..17
      BY <3>1, <2>2 DEF Ranges!Length
    <3>2. CASE d.compiled \in 18..21
      BY <3>2, <2>2 DEF Ranges!Length
    <3>3. CASE d.compiled \in 22..255
      BY <1>1, <3>3, <2>2 DEF Ranges!Length
    <3> QED BY <1>1, <1>3, <3>1, <3>2, <3>3
  <2> QED BY <2>1, <2>2, <2>3, <2>4
<1> QED BY <1>1, <1>2, <1>3

\* What is known of a member stands where the driver's layout has it, and zero otherwise;
\* only where the version is, a guess is put in a buffer that ends before it.
LEMMA GuessedMember ==
  ASSUME NEW d \in Drivers, NEW f \in DOMAIN Ranges!Layout(d),
         NEW j \in 0..(Ranges!Layout(d)[f][2] - 1)
  PROVE  Ranges!Guessed(d, Ranges!Layout(d)[f][1] + j)
           = IF f = "we_version_compiled" /\ d.compiled = 10 THEN <<f, 9>>
             ELSE IF j < Ranges!Known(d, f) THEN Ranges!Written(d, f, j) ELSE Ranges!Zero
<1> DEFINE L == Ranges!Layout(d)
           at == L[f][1] + j
           v == "we_version_compiled"
<1>1. Ranges!iwr_off(v) = 280
  BY LayoutAssumption DEF Ranges!iwr_off
<1>2. /\ v \in DOMAIN L /\ L[v] = <<280, 1>>
      /\ f # v => L[f][1] + L[f][2] <= 280 \/ 281 <= L[f][1]
      /\ L[f][1] \in Nat /\ L[f][2] \in Nat
  <2>1. L \in {OldLayout, NewLayout}
    BY DEF Ranges!Layout
  <2>2. /\ v \in DOMAIN L /\ L[v] = <<280, 1>>
        /\ \A g, h \in DOMAIN L :
             /\ L[g] \in Nat \X Nat
             /\ g # h => L[g][1] + L[g][2] <= L[h][1] \/ L[h][1] + L[h][2] <= L[g][1]
    BY <2>1, LayoutAssumption
  <2>3. f \in DOMAIN L
    OBVIOUS
  <2> HIDE DEF L
  <2> QED BY <2>2, <2>3
<1>3. at = 280 <=> f = v
  <2>1. j \in 0..(L[f][2] - 1)
    OBVIOUS
  <2> HIDE DEF L
  <2> QED BY <1>2, <2>1
<1>4. /\ d.compiled \in 10..255
      /\ Ranges!Length(d) < 300 <=> d.compiled = 10
  <2>1. /\ d.compiled \in 10..255
        /\ d.compiled = 10 => Ranges!Length(d) = 280
        /\ d.compiled > 10 => Ranges!Length(d) \in 304..588
    BY Lengths
  <2> QED BY <2>1
<1>5. Ranges!Guessed(d, at) = IF d.compiled = 10 /\ f = v THEN <<v, 9>> ELSE Ranges!ByteOf(d, at)
  BY <1>1, <1>3, <1>4, Zenon DEF Ranges!Guessed
<1>6. Ranges!ByteOf(d, at) = IF at >= Ranges!Length(d) THEN Ranges!Zero ELSE Ranges!Written(d, f, j)
  BY ByteOfMember
<1>7. at >= Ranges!Length(d) <=> ~(j < Ranges!Known(d, f))
  <2>1. Ranges!Known(d, f) = IF L[f][1] >= Ranges!Length(d) THEN 0 ELSE L[f][2]
    BY DEF Ranges!Known
  <2>2. L[f][1] >= Ranges!Length(d) \/ L[f][1] + L[f][2] <= Ranges!Length(d)
    BY WholeMembers
  <2>3. j \in 0..(L[f][2] - 1)
    OBVIOUS
  <2>4. Ranges!Length(d) \in Nat
    BY Lengths, <1>4
  <2> HIDE DEF L
  <2> QED BY <1>2, <2>1, <2>2, <2>3, <2>4
<1> HIDE DEF at
<1>8. Ranges!Guessed(d, at)
        = IF f = v /\ d.compiled = 10 THEN <<f, 9>>
          ELSE IF j < Ranges!Known(d, f) THEN Ranges!Written(d, f, j) ELSE Ranges!Zero
  BY <1>5, <1>6, <1>7
<1> QED BY <1>8 DEF at

\* The members by the copy that moves them, and those that the old struct does not have.
Members ==
  <<{"throughput", "min_nwid", "max_nwid"},
    {"num_channels", "num_frequency", "freq"},
    {"sensitivity", "max_qual"},
    {"num_bitrates", "bitrate"},
    {"min_rts", "max_rts", "min_frag", "max_frag", "min_pmp", "max_pmp", "min_pmt",
     "max_pmt", "pmp_flags", "pmt_flags", "pm_capa", "encoding_size", "num_encoding_sizes",
     "max_encoding_tokens"},
    {"txpower_capa", "num_txpower"},
    {"txpower", "we_version_compiled", "we_version_source", "retry_capa", "retry_flags",
     "r_time_flags", "min_retry", "max_retry", "min_r_time", "max_r_time"},
    {"avg_qual"}>>
NewMembers ==
  {"old_num_channels", "old_num_frequency", "event_capa", "encoding_login_index",
   "enc_capa", "min_pms", "max_pms", "pms_flags", "modul_capa", "bitrate_capa"}

\* Copy k brings member f of the old struct, whole, to where the later one has it, and
\* what the later one has room for beyond it is left as it was.
Lands(f, k) ==
  LET c == Ranges!Copies[k] IN
  /\ f \in DOMAIN OldLayout
  /\ c[2] <= OldLayout[f][1] /\ OldLayout[f][1] + OldLayout[f][2] <= c[2] + c[3]
  /\ NewLayout[f][1] = OldLayout[f][1] + c[1] - c[2]
  /\ OldLayout[f][2] <= NewLayout[f][2] /\ NewLayout[f][1] + NewLayout[f][2] <= 588
  /\ \A j \in OldLayout[f][2]..(NewLayout[f][2] - 1) : Bare(NewLayout[f][1] + j)

\* Copy 1, with the members it moves (iwlib.c:510-513).
LEMMA Copy1 == \A f \in Members[1] : Lands(f, 1)
<1>1. /\ OldLayout["throughput"] = <<0, 4>> /\ NewLayout["throughput"] = <<0, 4>>
      /\ OldLayout["min_nwid"] = <<4, 4>> /\ NewLayout["min_nwid"] = <<4, 4>>
      /\ OldLayout["max_nwid"] = <<8, 4>> /\ NewLayout["max_nwid"] = <<8, 4>>
  BY PlacesAssumption
<1>2. Members[1] \subseteq DOMAIN OldLayout
  BY PlacesAssumption DEF Members
<1>3. Ranges!Copies[1] = <<0, 0, 12>>
  BY CopiesLaid
<1> QED BY <1>1, <1>2, <1>3 DEF Members, Lands

\* Copy 2, with the members it moves (iwlib.c:514-517).
LEMMA Copy2 == \A f \in Members[2] : Lands(f, 2)
<1>1. /\ OldLayout["num_channels"] = <<12, 2>> /\ NewLayout["num_channels"] = <<304, 2>>
      /\ OldLayout["num_frequency"] = <<14, 1>> /\ NewLayout["num_frequency"] = <<306, 1>>
      /\ OldLayout["freq"] = <<16, 128>> /\ NewLayout["freq"] = <<308, 256>>
  BY PlacesAssumption
<1>2. Members[2] \subseteq DOMAIN OldLayout
  BY PlacesAssumption DEF Members
<1>3. Ranges!Copies[2] = <<304, 12, 132>>
  BY CopiesLaid
<1>4. \A j \in 128..255 : Bare(308 + j)
  BY CopiesLaid DEF Bare, Ranges!Covers
<1> QED BY <1>1, <1>2, <1>3, <1>4 DEF Members, Lands

\* Copy 3, with the members it moves (iwlib.c:518-521).
LEMMA Copy3 == \A f \in Members[3] : Lands(f, 3)
<1>1. /\ OldLayout["sensitivity"] = <<144, 4>> /\ NewLayout["sensitivity"] = <<40, 4>>
      /\ OldLayout["max_qual"] = <<148, 4>> /\ NewLayout["max_qual"] = <<44, 4>>
  BY PlacesAssumption
<1>2. Members[3] \subseteq DOMAIN OldLayout
  BY PlacesAssumption DEF Members
<1>3. Ranges!Copies[3] = <<40, 144, 8>>
  BY CopiesLaid
<1> QED BY <1>1, <1>2, <1>3 DEF Members, Lands

\* Copy 4, with the members it moves (iwlib.c:522-525).
LEMMA Copy4 == \A f \in Members[4] : Lands(f, 4)
<1>1. /\ OldLayout["num_bitrates"] = <<152, 1>> /\ NewLayout["num_bitrates"] = <<52, 1>>
      /\ OldLayout["bitrate"] = <<156, 32>> /\ NewLayout["bitrate"] = <<56, 128>>
  BY PlacesAssumption
<1>2. Members[4] \subseteq DOMAIN OldLayout
  BY PlacesAssumption DEF Members
<1>3. Ranges!Copies[4] = <<52, 152, 36>>
  BY CopiesLaid
<1>4. \A j \in 32..127 : Bare(56 + j)
  BY CopiesLaid DEF Bare, Ranges!Covers
<1> QED BY <1>1, <1>2, <1>3, <1>4 DEF Members, Lands

\* Copy 5, with the members it moves (iwlib.c:526-529).
LEMMA Copy5 == \A f \in Members[5] : Lands(f, 5)
<1>1. /\ OldLayout["min_rts"] = <<188, 4>> /\ NewLayout["min_rts"] = <<184, 4>>
      /\ OldLayout["max_rts"] = <<192, 4>> /\ NewLayout["max_rts"] = <<188, 4>>
      /\ OldLayout["min_frag"] = <<196, 4>> /\ NewLayout["min_frag"] = <<192, 4>>
      /\ OldLayout["max_frag"] = <<200, 4>> /\ NewLayout["max_frag"] = <<196, 4>>
      /\ OldLayout["min_pmp"] = <<204, 4>> /\ NewLayout["min_pmp"] = <<200, 4>>
      /\ OldLayout["max_pmp"] = <<208, 4>> /\ NewLayout["max_pmp"] = <<204, 4>>
      /\ OldLayout["min_pmt"] = <<212, 4>> /\ NewLayout["min_pmt"] = <<208, 4>>
      /\ OldLayout["max_pmt"] = <<216, 4>> /\ NewLayout["max_pmt"] = <<212, 4>>
      /\ OldLayout["pmp_flags"] = <<220, 2>> /\ NewLayout["pmp_flags"] = <<216, 2>>
      /\ OldLayout["pmt_flags"] = <<222, 2>> /\ NewLayout["pmt_flags"] = <<218, 2>>
      /\ OldLayout["pm_capa"] = <<224, 2>> /\ NewLayout["pm_capa"] = <<220, 2>>
      /\ OldLayout["encoding_size"] = <<226, 16>> /\ NewLayout["encoding_size"] = <<222, 16>>
      /\ OldLayout["num_encoding_sizes"] = <<242, 1>> /\ NewLayout["num_encoding_sizes"] = <<238, 1>>
      /\ OldLayout["max_encoding_tokens"] = <<243, 1>> /\ NewLayout["max_encoding_tokens"] = <<239, 1>>
  BY PlacesAssumption
<1>2. Members[5] \subseteq DOMAIN OldLayout
  BY PlacesAssumption DEF Members
<1>3. Ranges!Copies[5] = <<184, 188, 56>>
  BY CopiesLaid
<1> QED BY <1>1, <1>2, <1>3 DEF Members, Lands

\* Copy 6, with the members it moves (iwlib.c:530-533).
LEMMA Copy6 == \A f \in Members[6] : Lands(f, 6)
<1>1. /\ OldLayout["txpower_capa"] = <<244, 2>> /\ NewLayout["txpower_capa"] = <<242, 2>>
      /\ OldLayout["num_txpower"] = <<246, 1>> /\ NewLayout["num_txpower"] = <<244, 1>>
  BY PlacesAssumption
<1>2. Members[6] \subseteq DOMAIN OldLayout
  BY PlacesAssumption DEF Members
<1>3. Ranges!Copies[6] = <<242, 244, 4>>
  BY CopiesLaid
<1> QED BY <1>1, <1>2, <1>3 DEF Members, Lands

\* Copy 7, with the members it moves (iwlib.c:534-537).
LEMMA Copy7 == \A f \in Members[7] : Lands(f, 7)
<1>1. /\ OldLayout["txpower"] = <<248, 32>> /\ NewLayout["txpower"] = <<248, 32>>
      /\ OldLayout["we_version_compiled"] = <<280, 1>> /\ NewLayout["we_version_compiled"] = <<280, 1>>
      /\ OldLayout["we_version_source"] = <<281, 1>> /\ NewLayout["we_version_source"] = <<281, 1>>
      /\ OldLayout["retry_capa"] = <<282, 2>> /\ NewLayout["retry_capa"] = <<282, 2>>
      /\ OldLayout["retry_flags"] = <<284, 2>> /\ NewLayout["retry_flags"] = <<284, 2>>
      /\ OldLayout["r_time_flags"] = <<286, 2>> /\ NewLayout["r_time_flags"] = <<286, 2>>
      /\ OldLayout["min_retry"] = <<288, 4>> /\ NewLayout["min_retry"] = <<288, 4>>
      /\ OldLayout["max_retry"] = <<292, 4>> /\ NewLayout["max_retry"] = <<292, 4>>
      /\ OldLayout["min_r_time"] = <<296, 4>> /\ NewLayout["min_r_time"] = <<296, 4>>
      /\ OldLayout["max_r_time"] = <<300, 4>> /\ NewLayout["max_r_time"] = <<300, 4>>
  BY PlacesAssumption
<1>2. Members[7] \subseteq DOMAIN OldLayout
  BY PlacesAssumption DEF Members
<1>3. Ranges!Copies[7] = <<248, 248, 56>>
  BY CopiesLaid
<1> QED BY <1>1, <1>2, <1>3 DEF Members, Lands

\* Copy 8, with the members it moves (iwlib.c:538-541).
LEMMA Copy8 == \A f \in Members[8] : Lands(f, 8)
<1>1. /\ OldLayout["avg_qual"] = <<304, 4>> /\ NewLayout["avg_qual"] = <<48, 4>>
  BY PlacesAssumption
<1>2. Members[8] \subseteq DOMAIN OldLayout
  BY PlacesAssumption DEF Members
<1>3. Ranges!Copies[8] = <<48, 304, 4>>
  BY CopiesLaid
<1> QED BY <1>1, <1>2, <1>3 DEF Members, Lands

\* No copy touches the members that the old struct does not have.
LEMMA NoCopy ==
  \A f \in NewMembers :
    /\ f \notin DOMAIN OldLayout /\ NewLayout[f][1] + NewLayout[f][2] <= 588
    /\ \A j \in 0..(NewLayout[f][2] - 1) : Bare(NewLayout[f][1] + j)
<1>1. /\ NewLayout["old_num_channels"] = <<12, 2>>
      /\ NewLayout["old_num_frequency"] = <<14, 1>>
      /\ NewLayout["event_capa"] = <<16, 24>>
      /\ NewLayout["encoding_login_index"] = <<240, 1>>
      /\ NewLayout["enc_capa"] = <<564, 4>>
      /\ NewLayout["min_pms"] = <<568, 4>>
      /\ NewLayout["max_pms"] = <<572, 4>>
      /\ NewLayout["pms_flags"] = <<576, 2>>
      /\ NewLayout["modul_capa"] = <<580, 4>>
      /\ NewLayout["bitrate_capa"] = <<584, 4>>
  BY PlacesAssumption
<1>2. \A f \in NewMembers : f \notin DOMAIN OldLayout
  BY PlacesAssumption DEF NewMembers
<1>3. \A at \in 12..39 \cup 240..241 \cup 564..587 : Bare(at)
  BY CopiesLaid DEF Bare, Ranges!Covers
<1> QED BY <1>1, <1>2, <1>3 DEF NewMembers

\* Every member of the later struct is brought by a copy, or not touched.
LEMMA AllMembers ==
  ASSUME NEW f \in DOMAIN NewLayout
  PROVE  \/ \E k \in 1..8 : Lands(f, k)
         \/ f \in NewMembers
<1>1. \/ f \in Members[1] \/ f \in Members[2] \/ f \in Members[3] \/ f \in Members[4]
      \/ f \in Members[5] \/ f \in Members[6] \/ f \in Members[7] \/ f \in Members[8]
      \/ f \in NewMembers
  BY PlacesAssumption DEF Members, NewMembers
<1> QED BY <1>1, Copy1, Copy2, Copy3, Copy4, Copy5, Copy6, Copy7, Copy8

\* Each member of a driver arrives in the member of the same name.
LEMMA MembersArrive ==
  ASSUME NEW d \in Drivers, NEW f \in DOMAIN NewLayout, NEW j \in 0..(NewLayout[f][2] - 1)
  PROVE  Ranges!Converted(d)[Ranges!iwr_off(f) + j]
           = IF f = "we_version_compiled" /\ d.compiled = 10 THEN <<f, 9>>
             ELSE IF j < Ranges!Known(d, f) THEN Ranges!Written(d, f, j) ELSE Ranges!Zero
<1>1. /\ NewLayout[f] \in Nat \X Nat /\ NewLayout[f][1] + NewLayout[f][2] <= 588
      /\ Ranges!iwr_off(f) = NewLayout[f][1] /\ d.compiled \in 10..255
  BY LayoutAssumption, AllMembers, NoCopy, Lengths DEF Lands, Ranges!iwr_off
<1> DEFINE at == NewLayout[f][1] + j
<1>2. at \in 0..587
  <2>1. NewLayout[f][1] \in Nat /\ NewLayout[f][2] \in Nat
    BY <1>1
  <2>2. j \in Int /\ 0 <= j /\ j <= NewLayout[f][2] - 1
    BY <2>1
  <2>3. NewLayout[f][1] + NewLayout[f][2] <= 588
    BY <1>1
  <2>4. \A a, b \in Nat, n \in Int : 0 <= n /\ n <= b - 1 /\ a + b <= 588 => a + n \in 0..587
    OBVIOUS
  <2> QED BY <2>1, <2>2, <2>3, <2>4
<1>3. CASE d.compiled > 15
  <2>1. Ranges!Layout(d) = NewLayout
    BY <1>1, <1>3 DEF Ranges!Layout
  <2>2. at \in 0..(Ranges!SizeOf - 1)
    BY <1>2, Lengths
  <2>3. Ranges!Guessed(d, Ranges!iwr_off("we_version_compiled"))[2] > 15
    BY <1>3, WhichLayout
  <2> HIDE DEF at
  <2>4. Ranges!Converted(d)[at] = Ranges!Guessed(d, at)
    BY <2>2, <2>3, Zenon DEF Ranges!Converted
  <2>5. Ranges!Guessed(d, at)
           = IF f = "we_version_compiled" /\ d.compiled = 10 THEN <<f, 9>>
             ELSE IF j < Ranges!Known(d, f) THEN Ranges!Written(d, f, j) ELSE Ranges!Zero
    BY <2>1, GuessedMember DEF at
  <2> QED BY <1>1, <2>4, <2>5 DEF at
<1>4. CASE d.compiled <= 15 /\ f \in NewMembers
  <2>1. f \notin DOMAIN OldLayout /\ Bare(at)
    BY <1>4, NoCopy
  <2>2. Ranges!Converted(d)[at] = Ranges!Zero
    <3> HIDE DEF at
    <3> QED BY <1>2, <1>4, <2>1, LeftClear
  <2>3. f # "we_version_compiled" /\ Ranges!Known(d, f) = 0
    BY <1>4, <2>1, LayoutAssumption DEF Ranges!Known, Ranges!Layout
  <2> QED BY <1>1, <2>2, <2>3
<1>5. ASSUME d.compiled <= 15, NEW k \in 1..8, Lands(f, k), NEW b, b = OldLayout[f][1] + j,
             j < OldLayout[f][2]
      PROVE  Ranges!Converted(d)[at] = Ranges!Guessed(d, b)
  <2>1. /\ Ranges!Copies[k][1] \in Nat /\ Ranges!Copies[k][2] \in Nat
        /\ Ranges!Copies[k][3] \in Nat
    <3>1. k = 1 \/ k = 2 \/ k = 3 \/ k = 4 \/ k = 5 \/ k = 6 \/ k = 7 \/ k = 8
      BY <1>5
    <3> QED BY <3>1, CopiesLaid
  <2>2. f \in DOMAIN OldLayout /\ OldLayout[f] \in Nat \X Nat
    BY <1>5, LayoutAssumption DEF Lands
  <2>3. /\ Ranges!Covers(Ranges!Copies[k], at)
        /\ Ranges!Copies[k][2] + at - Ranges!Copies[k][1] = b
    BY <1>1, <1>5, <2>1, <2>2 DEF Lands, Ranges!Covers
  <2> HIDE DEF at
  <2> QED BY <1>2, <1>5, <2>3, Brought
<1>6. CASE d.compiled <= 15 /\ \E k \in 1..8 : Lands(f, k)
  <2>1. PICK k \in 1..8 : Lands(f, k)
    BY <1>6
  <2>2. Ranges!Layout(d) = OldLayout /\ f \in DOMAIN OldLayout /\ OldLayout[f] \in Nat \X Nat
    BY <1>6, <2>1, LayoutAssumption DEF Lands, Ranges!Layout
  <2>3. CASE j < OldLayout[f][2]
    <3> DEFINE b == OldLayout[f][1] + j
    <3>1. j \in 0..(OldLayout[f][2] - 1)
      BY <2>2, <2>3, <1>1
    <3>2. Ranges!Guessed(d, b)
             = IF f = "we_version_compiled" /\ d.compiled = 10 THEN <<f, 9>>
               ELSE IF j < Ranges!Known(d, f) THEN Ranges!Written(d, f, j) ELSE Ranges!Zero
      BY <2>2, <3>1, GuessedMember
    <3>3. Ranges!Converted(d)[at] = Ranges!Guessed(d, b)
      BY <1>5, <1>6, <2>1, <2>3
    <3> QED BY <1>1, <3>2, <3>3
  <2>4. CASE ~(j < OldLayout[f][2])
    <3>1. j \in OldLayout[f][2]..(NewLayout[f][2] - 1)
      BY <1>1, <2>2, <2>4
    <3>2. Bare(at)
      BY <2>1, <3>1 DEF Lands
    <3>3. Ranges!Converted(d)[at] = Ranges!Zero
      <4> HIDE DEF at
      <4> QED BY <1>2, <1>6, <3>2, LeftClear
    <3>4. f # "we_version_compiled"
      BY <1>1, <2>4, LayoutAssumption
    <3>5. ~(j < Ranges!Known(d, f))
      BY <2>2, <2>4 DEF Ranges!Known
    <3> QED BY <1>1, <3>3, <3>4, <3>5
  <2> QED BY <2>3, <2>4
<1> QED BY <1>1, <1>3, <1>4, <1>6, AllMembers

\* Whatever was got is what that driver's range is converted to.
Arrived == \A d \in Drivers : got = <<d>> => range = Ranges!Converted(d)

\* The range is the one converted last, in every behaviour.
LEMMA ArrivedCorrect == Spec => [](fn = "range" => Arrived)
<1>1. Init => (fn = "range" => Arrived)
  <2>1. Ranges!Init => Arrived
    BY DEF Ranges!Init, Arrived
  <2> QED BY <2>1, RangeStarts
<1>2. (fn = "range" => Arrived) /\ [Next]_vars => (fn = "range" => Arrived)'
  <2>1. ASSUME Arrived, [Ranges!Next]_(Ranges!vars) PROVE Arrived'
    <3>1. CASE UNCHANGED <<range, got>>
      BY <2>1, <3>1 DEF Arrived, Ranges!Converted
    <3>2. ASSUME NEW d \in Drivers, Ranges!GetRangeInfo(d) PROVE Arrived'
      <4>1. range' = Ranges!Converted(d) /\ got' = <<d>>
        BY <3>2, Zenon DEF Ranges!GetRangeInfo
      <4>2. \A e : Ranges!Converted(e)' = Ranges!Converted(e)
        OBVIOUS
      <4>3. \A e : <<d>> = <<e>> => e = d
        OBVIOUS
      <4> QED BY <4>1, <4>2, <4>3 DEF Arrived
    <3> QED BY <2>1, <3>1, <3>2 DEF Ranges!Next, Ranges!Refused, Ranges!vars
  <2> QED BY <2>1, RangeRuns
<1> QED BY <1>1, <1>2, PTL DEF Spec

\* For every driver, of whatever version, and any number of calls: each member that it wrote
\* arrives whole in the member of the same name, the others are zero, and only the version
\* of a driver that has none is guessed (iwlib.c:497-541).
THEOREM FieldsArriveCorrect == Spec => []FieldsArrive
<1>1. (fn = "range" => Arrived) /\ (fn = "range" => Complaint) => FieldsArrive
  <2> SUFFICES ASSUME Arrived, Complaint PROVE Ranges!FieldsArrive
    BY DEF FieldsArrive
  <2> SUFFICES ASSUME NEW d \in {got[k] : k \in DOMAIN got}, NEW f \in DOMAIN NewLayout,
                      NEW j \in 0..(NewLayout[f][2] - 1)
               PROVE  range[Ranges!iwr_off(f) + j] =
                        CASE f = "we_version_compiled" /\ d.compiled <= 10 -> <<f, 9>>
                          [] j < Ranges!Known(d, f) -> Ranges!Written(d, f, j)
                          [] OTHER -> Ranges!Zero
    BY Zenon DEF Ranges!FieldsArrive
  <2>1. d \in Drivers /\ got = <<d>>
    BY DEF Complaint
  <2>2. range = Ranges!Converted(d)
    BY <2>1 DEF Arrived
  <2>3. d.compiled \in 10..255
    BY <2>1, Lengths
  <2>4. f = "we_version_compiled" /\ d.compiled = 10 => ~(j < Ranges!Known(d, f))
    <3> SUFFICES ASSUME f = "we_version_compiled", d.compiled = 10
                 PROVE  Ranges!Known(d, f) = 0
      BY <2>1
    <3>1. Ranges!Length(d) = 280
      BY <2>1, Lengths
    <3>2. Ranges!Layout(d)[f][1] = 280
      BY LayoutAssumption DEF Ranges!Layout
    <3> QED BY <3>1, <3>2 DEF Ranges!Known
  <2>5. range[Ranges!iwr_off(f) + j]
           = IF f = "we_version_compiled" /\ d.compiled = 10 THEN <<f, 9>>
             ELSE IF j < Ranges!Known(d, f) THEN Ranges!Written(d, f, j) ELSE Ranges!Zero
    BY <2>1, <2>2, MembersArrive
  <2>6. CASE f = "we_version_compiled" /\ d.compiled <= 10
    <3>1. d.compiled = 10
      BY <2>3, <2>6
    <3> QED BY <2>4, <2>5, <2>6, <3>1
  <2>7. CASE ~(f = "we_version_compiled" /\ d.compiled <= 10)
    <3>1. ~(f = "we_version_compiled" /\ d.compiled = 10)
      BY <2>7
    <3>2. range[Ranges!iwr_off(f) + j]
            = IF j < Ranges!Known(d, f) THEN Ranges!Written(d, f, j) ELSE Ranges!Zero
      BY <2>5, <3>1
    <3> HIDE DEF Ranges!Known
    <3> QED BY <2>7, <3>2
  <2> QED BY <2>6, <2>7
<1> QED BY <1>1, ArrivedCorrect, ComplaintCorrect, PTL

-----------------------------------------------------------------------------
(* The types of the four functions *)

\* A behaviour is one of the four.
LEMMA OneFunction == Spec => [](fn \in {"probe", "range", "priv", "config"})
<1>1. Init => fn \in {"probe", "range", "priv", "config"}
  BY DEF Init
<1>2. fn \in {"probe", "range", "priv", "config"} /\ [Next]_vars
        => (fn \in {"probe", "range", "priv", "config"})'
  BY DEF Next, ProbeAlone, RangeAlone, PrivAlone, ConfigAlone, vars
<1> QED BY <1>1, <1>2, PTL DEF Spec

\* For any devices, drivers, tables and settings, every variable of the function that runs
\* stays in its range: the mode read from a driver is one this program has a name for, no
\* more is taken for read than the driver supports, and its key is one the driver has
\* (iwlib.c:667-859); each byte of a range is a member's or nobody's (iwlib.c:497-541).
THEOREM TypeCorrect == Spec => []TypeOK
<1>1. ASSUME fn = "probe" => Sockets, fn = "probe" => ProbeTypes /\ Walk,
             fn = "range" => Complaint, fn = "priv" => Growth, fn = "config" => Configured,
             fn \in {"probe", "range", "priv", "config"}
      PROVE  TypeOK
  <2>1. CASE fn = "probe"
    BY <1>1, <2>1, ProbeTypeOK DEF TypeOK
  <2>2. CASE fn = "range"
    <3>1. Ranges!TypeOK
      BY <1>1, <2>2, Zenon DEF Complaint, NoMember, Ranges!TypeOK
    <3> QED BY <2>2, <3>1 DEF TypeOK
  <2>3. CASE fn = "priv"
    <3>1. Priv!TypeOK
      BY <1>1, <2>3, PrivAssumption DEF Growth, Priv!TypeOK
    <3> QED BY <2>3, <3>1 DEF TypeOK
  <2>4. CASE fn = "config"
    <3>1. Config!TypeOK
      BY <1>1, <2>4, Orders DEF Configured, Config!TypeOK, Config!IW_NUM_OPER_MODE
    <3> QED BY <2>4, <3>1 DEF TypeOK
  <2> QED BY <1>1, <2>1, <2>2, <2>3, <2>4
<1> QED BY <1>1, SocketsCorrect, WalkCorrect, ComplaintCorrect, GrowthCorrect,
          ConfiguredCorrect, OneFunction, PTL
=============================================================================
