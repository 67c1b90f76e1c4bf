---------------------------- MODULE LegacyProofs ----------------------------
(***************************************************************************)
(* Theorems about Legacy, for every set of names, of interface states, of  *)
(* devices and of command lines, and any number of changes and failures.   *)
(***************************************************************************)
EXTENDS LegacyInv, WellFoundedInduction, SequenceTheorems, FiniteSetTheorems,
        TLAPS

-----------------------------------------------------------------------------
(***************************************************************************)
(* Lemmas about the operators.                                             *)
(***************************************************************************)

\* A non-empty set of numbers has a least one.
LEMMA LeastNumber ==
  ASSUME NEW S, S \subseteq Nat, S # {}
  PROVE  \E n \in S : \A m \in S : n <= m
<1> DEFINE Less == OpToRel(<, Nat)
<1>1. \E x \in S : \A y \in S : <<y, x>> \notin Less
  <2>1. IsWellFoundedOn(Less, Nat)
    BY NatLessThanWellFounded
  <2> HIDE DEF Less
  <2> QED BY <2>1, WFMin
<1>2. \A x, y \in Nat : y < x => <<y, x>> \in Less
  BY DEF OpToRel
<1>3. PICK n \in S : \A m \in S : <<m, n>> \notin Less
  BY <1>1
<1> HIDE DEF Less
<1>4. ASSUME NEW m \in S PROVE n <= m
  <2>1. ~(m < n)
    BY <1>2, <1>3
  <2> QED BY <2>1
<1> QED BY <1>4

\* The words on /proc/interrupts that are read are numbers.
LEMMA CountersType ==
  ASSUME NEW irq
  PROVE  GetInterruptCounter(irq) \in Seq(Nat)
<1> DEFINE line == IF irq \in DOMAIN Interrupts THEN Interrupts[irq] ELSE << >>
           Fit(n) == \A i \in 1 .. n : line[i] <= IntMax
           Ends(n) == Fit(n) /\ (n = Len(line) \/ ~Fit(n + 1))
           read == CHOOSE n \in 0 .. Len(line) : Ends(n)
           Stops == {n \in 0 .. Len(line) : n = Len(line) \/ ~Fit(n + 1)}
<1>1. line \in Seq(Nat)
  BY LegacyIfrAssumption, EmptySeq
<1>2. Len(line) \in Nat /\ \A i \in 1 .. Len(line) : line[i] \in Nat
  BY <1>1
<1> HIDE DEF line
<1>3. PICK n \in Stops : \A m \in Stops : n <= m
  <2>1. Len(line) \in Stops
    BY <1>2
  <2>2. Stops \subseteq Nat
    BY <1>2
  <2> HIDE DEF Stops
  <2> QED BY <2>1, <2>2, LeastNumber
<1>4. Fit(n)
  <2>1. CASE n = 0
    BY <2>1
  <2>2. CASE n > 0
    <3>1. n - 1 \in 0 .. Len(line) /\ n - 1 # Len(line) /\ n - 1 \notin Stops
      BY <1>2, <1>3, <2>2
    <3>2. Fit((n - 1) + 1)
      BY <3>1
    <3> QED BY <1>2, <1>3, <3>2
  <2> QED BY <1>2, <1>3, <2>1, <2>2
<1>5. n \in 0 .. Len(line) /\ Ends(n)
  BY <1>3, <1>4
<1>6. read \in 0 .. Len(line)
  <2> HIDE DEF Ends
  <2> QED BY <1>5
<1>7. SubSeq(line, 1, read) \in Seq(Nat)
  <2> HIDE DEF read
  <2>1. \A i \in 1 .. read : line[i] \in Nat
    BY <1>2, <1>6
  <2> QED BY <1>1, <1>2, <1>6, SubSeqProperties
<1>8. GetInterruptCounter(irq) = SubSeq(line, 1, read)
  BY DEF GetInterruptCounter, line
<1> QED BY <1>7, <1>8

\* The loop over the counters of an irq prints pairs of numbers.
LEMMA EventsType ==
  ASSUME NEW counters \in Seq(Nat)
  PROVE  CpuEvents(counters) \in Seq(Nat \X Nat)
<1> DEFINE Step(f, k) == IF k = 0 THEN << >>
                         ELSE IF counters[k] > 0
                         THEN Append(f[k - 1], <<Len(f[k - 1]), counters[k]>>)
                         ELSE f[k - 1]
           Shows(f, n) == f = [k \in 0 .. n |-> Step(f, k)]
           Bad == {n \in Nat : n <= Len(counters) /\ ~\E f : Shows(f, n)}
<1>1. Len(counters) \in Nat /\ \A i \in 1 .. Len(counters) : counters[i] \in Nat
  OBVIOUS
<1>2. Bad = {}
  <2>1. SUFFICES ASSUME Bad # {} PROVE FALSE
    OBVIOUS
  <2>2. PICK n \in Bad : \A m \in Bad : n <= m
    <3>1. Bad \subseteq Nat
      OBVIOUS
    <3> HIDE DEF Bad
    <3> QED BY <2>1, <3>1, LeastNumber
  <2>3. CASE n = 0
    <3> DEFINE f == [k \in 0 .. 0 |-> << >>]
    <3>1. Shows(f, 0)
      OBVIOUS
    <3> QED BY <2>2, <2>3, <3>1
  <2>4. CASE n > 0
    <3>1. n - 1 \in Nat /\ n - 1 <= Len(counters) /\ ~(n <= n - 1)
      BY <1>1, <2>2, <2>4
    <3>2. PICK f : Shows(f, n - 1)
      <4>1. n - 1 \notin Bad
        <5> HIDE DEF Bad
        <5> QED BY <2>2, <3>1
      <4> HIDE DEF Shows
      <4> QED BY <3>1, <4>1
    <3> DEFINE g == [k \in 0 .. n |-> IF k < n THEN f[k] ELSE Step(f, n)]
    <3>3. \A k \in 0 .. n : g[k] = Step(g, k)
      <4>1. ASSUME NEW k \in 0 .. n, k < n PROVE g[k] = Step(g, k)
        <5>1. g[k] = f[k] /\ (k # 0 => g[k - 1] = f[k - 1])
          BY <4>1, <2>2
        <5>2. k \in 0 .. n - 1
          BY <4>1, <2>2
        <5>3. f[k] = Step(f, k)
          BY <3>2, <5>2
        <5> HIDE DEF g
        <5> QED BY <5>1, <5>3
      <4>2. g[n] = Step(g, n)
        <5>1. g[n] = Step(f, n) /\ g[n - 1] = f[n - 1]
          BY <2>2, <2>4, <3>1
        <5> HIDE DEF g
        <5> QED BY <5>1, <2>4
      <4>3. \A k \in 0 .. n : k < n \/ k = n
        BY <2>2
      <4> HIDE DEF g, Step
      <4> QED BY <4>1, <4>2, <4>3
    <3>4. Shows(g, n)
      <4>1. g = [k \in 0 .. n |-> g[k]]
        OBVIOUS
      <4> HIDE DEF g, Step
      <4> QED BY <3>3, <4>1
    <3> HIDE DEF g, Shows
    <3> QED BY <2>2, <3>4
  <2> QED BY <2>2, <2>3, <2>4
<1> DEFINE shown == CHOOSE f : Shows(f, Len(counters))
<1>3. Shows(shown, Len(counters))
  <2> HIDE DEF Shows
  <2>1. \E f : Shows(f, Len(counters))
    <3>1. Len(counters) \notin Bad
      BY <1>2
    <3> QED BY <1>1, <3>1
  <2> QED BY <2>1
<1>4. CpuEvents(counters) = shown[Len(counters)]
  BY DEF CpuEvents
<1> DEFINE Odd == {n \in 0 .. Len(counters) : shown[n] \notin Seq(Nat \X Nat)}
<1> HIDE DEF shown
<1>5. \A k \in 0 .. Len(counters) : shown[k] = Step(shown, k)
  BY <1>3
<1>6. Odd = {}
  <2>1. SUFFICES ASSUME Odd # {} PROVE FALSE
    OBVIOUS
  <2>2. PICK n \in Odd : \A m \in Odd : n <= m
    <3>1. Odd \subseteq Nat
      OBVIOUS
    <3> HIDE DEF Odd
    <3> QED BY <2>1, <3>1, LeastNumber
  <2>3. n # 0
    BY <1>5, <2>2, EmptySeq
  <2>4. n - 1 \in 0 .. Len(counters) /\ n \in 1 .. Len(counters)
    BY <1>1, <2>2, <2>3
  <2>5. n - 1 \notin Odd
    <3>1. ~(n <= n - 1)
      BY <2>4
    <3> QED BY <2>2, <3>1
  <2>6. shown[n - 1] \in Seq(Nat \X Nat)
    BY <2>4, <2>5
  <2>7. <<Len(shown[n - 1]), counters[n]>> \in Nat \X Nat
    BY <1>1, <2>4, <2>6
  <2>8. Append(shown[n - 1], <<Len(shown[n - 1]), counters[n]>>) \in Seq(Nat \X Nat)
    BY <2>6, <2>7, AppendProperties
  <2>9. shown[n] \in Seq(Nat \X Nat)
    BY <1>5, <2>3, <2>4, <2>6, <2>8
  <2> QED BY <2>2, <2>9
<1> QED BY <1>1, <1>4, <1>6

\* A block stays a block when one of its lines is printed.
LEMMA BlockLines ==
  ASSUME NEW b \in BlockType
  PROVE  /\ \A v \in BOOLEAN \cup {None} :
              [b EXCEPT !.blank = v] \in BlockType
         /\ \A v \in {"yes", "no", None} : [b EXCEPT !.bold = v] \in BlockType
         /\ \A v \in {"yes", "no", None} : [b EXCEPT !.link = v] \in BlockType
         /\ \A v \in Macs \cup {None} : [b EXCEPT !.mac = v] \in BlockType
         /\ \A v \in Nat \cup {None} : [b EXCEPT !.wifi = v] \in BlockType
         /\ \A v \in Nat \cup {None} : [b EXCEPT !.radio = v] \in BlockType
         /\ \A v \in (SUBSET (I16Flags \cup HighFlags)) \cup {None} :
              [b EXCEPT !.flags = v] \in BlockType
         /\ \A v \in Nat \cup {None} : [b EXCEPT !.mtu = v] \in BlockType
         /\ \A v \in Nat \cup {None} : [b EXCEPT !.metric = v] \in BlockType
         /\ \A v \in Seq(Addrs) \cup {None} :
              [b EXCEPT !.v4 = v] \in BlockType
         /\ \A v \in Seq(Addrs) \cup {None} :
              [b EXCEPT !.v6 = v] \in BlockType
         /\ \A v \in (Word \X Word) \cup {None} :
              [b EXCEPT !.stats = v] \in BlockType
         /\ \A v \in {"length", None} : [b EXCEPT !.queue = v] \in BlockType
         /\ \A v \in PciDevices \cup {None} :
              [b EXCEPT !.pci = v] \in BlockType
         /\ \A v \in 0 .. IrqRange - 1 \cup {None}, w \in Seq(Nat \X Nat) \cup {None} :
              [b EXCEPT !.irq = v, !.cpus = w] \in BlockType
         /\ \A v \in Drivers \cup {None}, w \in BusNames \cup {None} :
              [b EXCEPT !.driver = v, !.bus = w] \in BlockType
<1> DEFINE Mark == BOOLEAN \cup {None}
           Texts3 == {"yes", "no", None}
           Address == Macs \cup {None}
           Number == Nat \cup {None}
           Bits == (SUBSET (I16Flags \cup HighFlags)) \cup {None}
           Addresses == Seq(Addrs) \cup {None}
           Irq == 0 .. IrqRange - 1 \cup {None}
           Events == Seq(Nat \X Nat) \cup {None}
           Counters == (Word \X Word) \cup {None}
           Length == {"length", None}
           Device == PciDevices \cup {None}
           Driver == Drivers \cup {None}
           Place == BusNames \cup {None}
<1>0. BlockType =
        [blank : Mark, bold : Texts3, link : Texts3, mac : Address,
         wifi : Number, radio : Number, flags : Bits, mtu : Number,
         metric : Number, v4 : Addresses, v6 : Addresses, irq : Irq,
         cpus : Events, stats : Counters, queue : Length, pci : Device,
         driver : Driver, bus : Place]
  BY DEF BlockType, Texts
<1> HIDE DEF Mark, Texts3, Address, Number, Bits, Addresses, Irq, Events,
             Counters, Length, Device, Driver, Place
<1>1. \A v \in Mark : [b EXCEPT !.blank = v] \in BlockType
  BY <1>0
<1>2. \A v \in Texts3 : [b EXCEPT !.bold = v] \in BlockType
  BY <1>0
<1>3. \A v \in Texts3 : [b EXCEPT !.link = v] \in BlockType
  BY <1>0
<1>4. \A v \in Address : [b EXCEPT !.mac = v] \in BlockType
  BY <1>0
<1>5. \A v \in Number : [b EXCEPT !.wifi = v] \in BlockType
  BY <1>0
<1>6. \A v \in Number : [b EXCEPT !.radio = v] \in BlockType
  BY <1>0
<1>7. \A v \in Bits : [b EXCEPT !.flags = v] \in BlockType
  BY <1>0
<1>8. \A v \in Number : [b EXCEPT !.mtu = v] \in BlockType
  BY <1>0
<1>9. \A v \in Number : [b EXCEPT !.metric = v] \in BlockType
  BY <1>0
<1>10. \A v \in Addresses : [b EXCEPT !.v4 = v] \in BlockType
  BY <1>0
<1>11. \A v \in Addresses : [b EXCEPT !.v6 = v] \in BlockType
  BY <1>0
<1>12. \A v \in Counters : [b EXCEPT !.stats = v] \in BlockType
  BY <1>0
<1>13. \A v \in Length : [b EXCEPT !.queue = v] \in BlockType
  BY <1>0
<1>14. \A v \in Device : [b EXCEPT !.pci = v] \in BlockType
  BY <1>0
<1>15. \A v \in Irq, w \in Events :
        [b EXCEPT !.irq = v, !.cpus = w] \in BlockType
  BY <1>0
<1>16. \A v \in Driver, w \in Place :
        [b EXCEPT !.driver = v, !.bus = w] \in BlockType
  BY <1>0
<1> QED
  BY <1>1, <1>2, <1>3, <1>4, <1>5, <1>6, <1>7, <1>8,
     <1>9, <1>10, <1>11, <1>12, <1>13, <1>14, <1>15, <1>16
     DEF Mark, Texts3, Address, Number, Bits, Addresses, Irq, Events,
         Counters, Length, Device, Driver, Place

LEMMA NoLinesType == NoLines \in BlockType
BY DEF NoLines, BlockType, Texts

\* What a state of an interface is made of.
LEMMA StateType ==
  ASSUME NEW e \in Observable, e # Absent
  PROVE  /\ e.flags \subseteq I16Flags \cup HighFlags
         /\ e.link \in Nat \cup {None}
         /\ e.mac \in Macs /\ e.v4 \in Seq(Addrs) /\ e.v6 \in Seq(Addrs)
         /\ e.info \in InfoType \cup {None}
         /\ e.mtu \in Nat /\ e.metric \in Nat /\ e.rx \in Nat /\ e.tx \in Nat
         /\ e.wireless \in Nat \cup {None} /\ e.irq \in Nat
<1>1. e \in IfaceType
  BY KernelAssumption DEF Observable
<1> QED BY <1>1 DEF IfaceType

\* What the accessors return, for whatever a call may find.
LEMMA AccessorTypes ==
  ASSUME NEW e \in Observable
  PROVE  /\ EthtoolInfo(e) \in InfoType \cup {None}
         /\ EthtoolLink(e) \in {"yes", "no", None}
         /\ Mac(e) \in Macs \cup {None}
         /\ WifiInfo(e) \in Nat \cup {None}
         /\ WirelessStatus(e) \in Nat \cup {None}
         /\ FlagsStr(e) \in (SUBSET (I16Flags \cup HighFlags)) \cup {None}
         /\ Mtu(e) \in Nat \cup {None}
         /\ Metric(e) \in Nat \cup {None}
         /\ InetAddr(e) \in Seq(Addrs)
         /\ Inet6Addr(e) \in Seq(Addrs)
         /\ MapIrq(e) \in 0 .. IrqRange - 1 \cup {None}
         /\ CpuEvents(GetInterruptCounter(MapIrq(e))) \in Seq(Nat \X Nat)
         /\ GetStats(e) \subseteq (Word \X Word) \cup {None}
         /\ TxQueueLen(e) \in {"length", None}
<1>1. CpuEvents(GetInterruptCounter(MapIrq(e))) \in Seq(Nat \X Nat)
  BY CountersType, EventsType
<1>2. CASE e = Absent
  <2>1. << >> \in Seq(Addrs)
    BY EmptySeq
  <2> QED
    BY <1>1, <1>2, <2>1
       DEF EthtoolInfo, EthtoolLink, Mac, WifiInfo, WirelessStatus, FlagsStr,
           Mtu, Metric, InetAddr, Inet6Addr, MapIrq, GetStats, TxQueueLen
<1>3. CASE e # Absent
  <2>1. /\ EthtoolInfo(e) \in InfoType \cup {None}
        /\ EthtoolLink(e) \in {"yes", "no", None}
        /\ Mac(e) \in Macs \cup {None}
        /\ InetAddr(e) \in Seq(Addrs) /\ Inet6Addr(e) \in Seq(Addrs)
        /\ TxQueueLen(e) \in {"length", None}
    BY <1>3, StateType
       DEF EthtoolInfo, EthtoolLink, Mac, InetAddr, Inet6Addr, TxQueueLen
  <2>2. /\ WifiInfo(e) \in Nat \cup {None} /\ WirelessStatus(e) \in Nat \cup {None}
        /\ Mtu(e) \in Nat \cup {None} /\ Metric(e) \in Nat \cup {None}
    BY <1>3, StateType DEF WifiInfo, WirelessStatus, Mtu, Metric
  <2>3. FlagsStr(e) \in (SUBSET (I16Flags \cup HighFlags)) \cup {None}
    <3>1. Flags(e) \subseteq I16Flags
      BY <1>3 DEF Flags
    <3> QED BY <1>3, <3>1 DEF FlagsStr
  <2>4. MapIrq(e) \in 0 .. IrqRange - 1 \cup {None}
    <3>1. e.irq \in Nat /\ IrqRange \in Nat \ {0}
      BY <1>3, StateType, LegacyIfrAssumption
    <3>2. e.irq % IrqRange \in 0 .. IrqRange - 1
      BY <3>1
    <3> QED BY <1>3, <3>2 DEF MapIrq
  <2>5. GetStats(e) \subseteq (Word \X Word) \cup {None}
    <3>1. e.rx \in Nat /\ e.tx \in Nat
      BY <1>3, StateType
    <3>2. /\ e.rx <= UIntMax => e.rx \in Word
          /\ e.tx <= UIntMax => e.tx \in Word
          /\ UIntMax \in Word /\ Garbage \subseteq Word
      BY <3>1, LegacyIfrAssumption DEF Word
    <3>3. GetStats(e) = IF e.rx > UIntMax
                        THEN {<<UIntMax, g>> : g \in Garbage}
                        ELSE {<<e.rx, IF e.tx > UIntMax THEN UIntMax
                                                       ELSE e.tx>>}
      BY <1>3 DEF GetStats, ReadCounters
    <3>4. CASE e.rx > UIntMax
      BY <3>2, <3>3, <3>4
    <3>5. CASE ~(e.rx > UIntMax)
      <4>1. e.rx \in Word /\ (IF e.tx > UIntMax THEN UIntMax ELSE e.tx) \in Word
        BY <3>1, <3>2, <3>5, LegacyIfrAssumption
      <4> QED BY <3>3, <3>5, <4>1
    <3> QED BY <3>4, <3>5
  <2> QED BY <1>1, <2>1, <2>2, <2>3, <2>4, <2>5
<1> QED BY <1>2, <1>3

\* The filter leads to a device of the bus or to none.
LEMMA FirstMatchType ==
  ASSUME bus \in PciBuses, NEW f \in Slots \cup {AnySlot}
  PROVE  FirstMatch(f) \in PciDevices \cup {None}
<1>1. bus \in [Slots -> PciDevices \cup {None}]
  BY KernelAssumption
<1>2. (\E s \in Slots : bus[s] # None) =>
        bus[CHOOSE s \in Slots : bus[s] # None] \in PciDevices \cup {None}
  BY <1>1
<1> QED BY <1>1, <1>2 DEF FirstMatch, AnySlot

\* An order of the names is a sequence of names.
LEMMA OrdersType ==
  ASSUME NEW S, S \subseteq Names
  PROVE  Orders(S) \subseteq Seq(Names)
<1>1. Cardinality(S) \in Nat
  BY LegacyAssumption, FS_Subset, FS_CardinalityType
<1> QED BY <1>1 DEF Orders
-----------------------------------------------------------------------------
(***************************************************************************)
(* Types.                                                                  *)
(***************************************************************************)

\* The part of TypeOK about the environment, which a call may touch.
EnvType ==
  /\ kernel \in [Names -> Observable]
  /\ bus \in PciBuses
  /\ changes \in 0 .. MaxChanges
  /\ faults \in 0 .. MaxFaults
  /\ sock \in {"unopened", "open", "failed"}

LEMMA FaultType ==
  ASSUME EnvType, Fault, sock' \in {"unopened", "open", "failed"}
  PROVE  EnvType'
BY LegacyAssumption DEF EnvType, Fault

LEMMA SameEnvType ==
  ASSUME EnvType, UNCHANGED env
  PROVE  EnvType'
BY DEF EnvType, env

LEMMA FindsType ==
  ASSUME EnvType, cur \in Names, NEW e, Finds(e)
  PROVE  EnvType' /\ e \in Observable
<1>1. CASE e = Absent /\ SocketThrows
  BY <1>1, FaultType, SameEnvType DEF SocketThrows, Observable
<1>2. CASE sock' = Opened /\ e = kernel[cur]
           /\ UNCHANGED <<kernel, bus, changes, faults>>
  BY <1>2 DEF EnvType, Opened
<1>3. CASE sock' = Opened /\ e = Absent /\ Fault
  BY <1>3, FaultType DEF EnvType, Opened, Observable
<1> QED BY <1>1, <1>2, <1>3 DEF Finds

\* A call in a turn, made at p and leading to q, keeps the types.
LEMMA CallType ==
  ASSUME TypeOK, Framing, NEW e, NEW p, NEW q, Call(p, q, e),
         p \in FromFlags1, q \in FromFlags1,
         info' \in InfoType \cup {None}, filter' \in Slots \cup {AnySlot},
         devnum' \in Nat, block' \in BlockType
  PROVE  TypeOK' /\ Framing'
<1>1. pc \in TurnPoints /\ pc' \in TurnPoints \ {"filter"} /\ cur \in Names
  BY DEF Call, Framing, TurnPoints, FromFlags1, FromDrvinfo, FromSettings,
         FromMac, FromWifi, FromRadio, FromFlags2, FromMtu, FromInet,
         FromInet6, FromMap, FromPci
<1>2. EnvType' /\ e \in Observable
  BY <1>1, FindsType DEF Call, TypeOK, EnvType
<1>3. window' \subseteq Observable
  BY <1>2 DEF Call, TypeOK
<1>4. Framing'
  BY <1>1 DEF Call, walk, Framing, TurnPoints, FromFlags1, FromDrvinfo,
         FromSettings, FromMac, FromWifi, FromRadio, FromFlags2, FromMtu,
         FromInet, FromInet6, FromMap, FromPci
<1>5. UNCHANGED <<opts, todo, cur, turns, listed>>
  BY DEF Call, walk
<1>6. pc' \in {"flags1", "drvinfo", "settings", "link1", "link2", "mac",
               "wifi", "radio", "flags2", "mtu", "metric", "inet", "inet6",
               "map", "stats", "queue", "pci", "driver"}
  BY <1>1 DEF TurnPoints, FromFlags1, FromDrvinfo,
         FromSettings, FromMac, FromWifi, FromRadio, FromFlags2, FromMtu,
         FromInet, FromInet6, FromMap, FromPci
<1> QED
  BY <1>1, <1>2, <1>3, <1>4, <1>5, <1>6 DEF TypeOK, EnvType

\* The end of a turn keeps the types.
LEMMA EndTurnType ==
  ASSUME TypeOK, cur \in Names, EnvType', NEW lines \in BlockType,
         NEW o \in {"excluded", "thrown", "down", "otherdriver", "cut", "shown"},
         NEW seen, seen \subseteq Observable,
         EndTurn(o, lines, seen),
         filter' \in Slots \cup {AnySlot}, devnum' \in Nat
  PROVE  TypeOK' /\ Framing'
<1> DEFINE t == [name |-> cur, outcome |-> o, window |-> seen,
                 block |-> lines]
<1>1. t \in TurnType
  BY DEF TurnType
<1>2. turns' \in Seq(TurnType)
  <2>1. turns' = Append(turns, t)
    BY DEF EndTurn
  <2> HIDE DEF t
  <2> QED BY <1>1, <2>1, AppendProperties DEF TypeOK
<1>3. Framing'
  BY DEF EndTurn, Framing, TurnPoints, FromFlags1, FromDrvinfo,
         FromSettings, FromMac, FromWifi, FromRadio, FromFlags2, FromMtu,
         FromInet, FromInet6, FromMap, FromPci
<1> QED
  BY <1>2, <1>3, NoLinesType DEF EndTurn, TypeOK, EnvType

\* A step between two turns, or one that begins or abandons a turn.
LEMMA StepType ==
  ASSUME TypeOK, EnvType', UNCHANGED <<opts, turns>>,
         todo' \in Seq(Names), listed' \in Seq(Names),
         window' \subseteq Observable,
         info' \in InfoType \cup {None}, filter' \in Slots \cup {AnySlot},
         devnum' \in Nat, block' \in BlockType,
         \/ pc' \in TurnPoints /\ cur' \in Names
         \/ pc' \in {"start", "list", "next", "done"} /\ cur' = None
         \/ pc' = "crashed" /\ cur' \in Names \cup {None}
  PROVE  TypeOK' /\ Framing'
<1> USE DEF TurnPoints, FromFlags1, FromDrvinfo, FromSettings, FromMac,
            FromWifi, FromRadio, FromFlags2, FromMtu, FromInet, FromInet6,
            FromMap, FromPci
<1>1. Framing'
  BY DEF Framing
<1>2. pc' \in {"start", "list", "next", "filter", "flags1", "drvinfo",
             "settings", "link1", "link2", "mac", "wifi", "radio", "flags2",
             "mtu", "metric", "inet", "inet6", "map", "stats", "queue", "pci",
             "driver", "done", "crashed"} /\ cur' \in Names \cup {None}
  OBVIOUS
<1> QED BY <1>1, <1>2 DEF TypeOK, EnvType

LEMMA TypeInit == Init => TypeOK /\ Framing
<1> SUFFICES ASSUME Init PROVE TypeOK /\ Framing
  OBVIOUS
<1>1. << >> \in Seq(Names) /\ << >> \in Seq(TurnType)
  BY EmptySeq
<1>2. Framing
  BY DEF Init, Framing, TurnPoints, FromFlags1, FromDrvinfo,
         FromSettings, FromMac, FromWifi, FromRadio, FromFlags2, FromMtu,
         FromInet, FromInet6, FromMap, FromPci
<1>3. opts \in OptsChoices /\ filter \in Slots \cup {AnySlot}
  BY DEF Init
<1> QED
  BY <1>1, <1>2, <1>3, NoLinesType, LegacyAssumption DEF Init, TypeOK

LEMMA TypeNext == TypeOK /\ Framing /\ [Next]_vars => TypeOK' /\ Framing'
<1> SUFFICES ASSUME TypeOK, Framing, [Next]_vars
             PROVE  TypeOK' /\ Framing'
  OBVIOUS
<1> USE DEF TurnPoints, FromFlags1, FromDrvinfo, FromSettings, FromMac,
            FromWifi, FromRadio, FromFlags2, FromMtu, FromInet, FromInet6,
            FromMap, FromPci
<1>1. /\ EnvType /\ info \in InfoType \cup {None} /\ block \in BlockType
      /\ filter \in Slots \cup {AnySlot} /\ devnum \in Nat
      /\ todo \in Seq(Names) /\ listed \in Seq(Names)
      /\ window \subseteq Observable
  BY DEF TypeOK, EnvType
<1>2. CASE ListForWidth
  <2>1. EnvType'
    BY <1>1, <1>2, FaultType, SameEnvType DEF ListForWidth, EnvType
  <2>2. /\ cur' = None /\ pc' \in {"list", "crashed"}
        /\ UNCHANGED <<opts, turns, todo, listed, info, filter, devnum,
                       block, window>>
    BY <1>2 DEF ListForWidth, walk, Framing
  <2> HIDE DEF TurnPoints
  <2> QED BY <1>1, <2>1, <2>2, StepType
<1>3. CASE ListNames
  <2>1. EnvType'
    BY <1>1, <1>3, FaultType, SameEnvType DEF ListNames, EnvType
  <2>2. listed' \in Seq(Names)
    BY <1>3, OrdersType, EmptySeq DEF ListNames, Present
  <2>3. /\ cur' = None /\ pc' = "next" /\ todo' = listed'
        /\ UNCHANGED <<opts, turns, info, filter, devnum, block, window>>
    BY <1>3 DEF ListNames, Framing
  <2> HIDE DEF TurnPoints
  <2> QED BY <1>1, <2>1, <2>2, <2>3, StepType
<1>4. CASE NextName
  <2>1. EnvType'
    BY <1>1, <1>4, SameEnvType DEF NextName
  <2>2. cur' \in Names /\ todo' \in Seq(Names)
    BY <1>1, <1>4, HeadTailProperties DEF NextName
  <2>3. window' \subseteq Observable
    BY <1>4, <2>2 DEF NextName, TypeOK
  <2>4. /\ pc' = "filter"
        /\ UNCHANGED <<opts, turns, listed, info, filter, devnum, block>>
    BY <1>4 DEF NextName
  <2>5. pc' \in TurnPoints
    BY <2>4
  <2> HIDE DEF TurnPoints
  <2> QED BY <1>1, <2>1, <2>2, <2>3, <2>4, <2>5, StepType
<1>5. CASE \/ Included \/ InetCrashes \/ Finish
  <2>1. /\ UNCHANGED env
        /\ UNCHANGED <<opts, todo, cur, turns, listed>>
        /\ UNCHANGED <<info, filter, devnum, block, window>>
    BY <1>5 DEF Included, InetCrashes, Finish, walk
  <2>2. EnvType'
    BY <1>1, <2>1, SameEnvType
  <2>3. \/ pc' \in TurnPoints /\ cur \in Names
        \/ pc' = "done" /\ cur = None
        \/ pc' = "crashed" /\ cur \in Names
    BY <1>5 DEF Included, InetCrashes, Finish, Framing
  <2> HIDE DEF TurnPoints
  <2> QED BY <1>1, <2>1, <2>2, <2>3, StepType
<1>6. CASE Excluded \/ PrintDriver
  <2>1. PICK lines \in BlockType :
          /\ pc \in {"filter", "driver"} /\ UNCHANGED env
          /\ UNCHANGED <<filter, devnum>>
          /\ \E o \in {"excluded", "shown"} : EndTurn(o, lines, window)
    <3>1. WithDriverLines \in BlockType
      <4>1. info # None => info.driver \in Drivers /\ info.bus \in BusNames
        BY <1>1 DEF InfoType
      <4> QED BY <1>1, <4>1, BlockLines DEF WithDriverLines
    <3> QED BY <1>6, <3>1, NoLinesType DEF Excluded, PrintDriver
  <2>2. EnvType' /\ cur \in Names
    BY <1>1, <2>1, SameEnvType DEF Framing
  <2> QED BY <1>1, <2>1, <2>2, EndTurnType
<1>7. CASE SkipDown \/ FlagsThrow \/ SkipDriver
  <2>1. PICK e \in Observable, o \in {"down", "thrown", "otherdriver"} :
          /\ pc \in {"flags1", "drvinfo"} /\ Finds(e)
          /\ EndTurn(o, NoLines, window \cup {e})
          /\ UNCHANGED <<filter, devnum>>
    BY <1>7 DEF SkipDown, FlagsThrow, SkipDriver
  <2>2. EnvType' /\ cur \in Names
    BY <1>1, <2>1, FindsType DEF Framing
  <2>3. window \cup {e} \subseteq Observable
    BY <1>1
  <2> QED BY <1>1, <2>1, <2>2, <2>3, EndTurnType, NoLinesType
<1>8. CASE InetThrows
  <2>1. EnvType' /\ cur \in Names
    BY <1>1, <1>8, FaultType DEF InetThrows, Framing, EnvType
  <2>2. window \cup {Absent} \subseteq Observable
    BY <1>1 DEF Observable
  <2>3. /\ EndTurn("cut", block, window \cup {Absent})
        /\ UNCHANGED <<filter, devnum>>
    BY <1>8 DEF InetThrows
  <2> QED BY <1>1, <2>1, <2>2, <2>3, EndTurnType
<1>9. CASE PrintPci
  <2>1. filter' \in Slots \cup {AnySlot}
    BY <1>1, <1>9 DEF PrintPci, FilterAfter
  <2>2. FirstMatch(filter') \in PciDevices \cup {None}
    BY <1>1, <2>1, FirstMatchType DEF EnvType
  <2>3. block' \in BlockType
    BY <1>1, <1>9, <2>2, BlockLines DEF PrintPci
  <2>4. EnvType'
    BY <1>1, <1>9, SameEnvType DEF PrintPci
  <2>5. /\ pc' \in TurnPoints /\ cur' \in Names
        /\ UNCHANGED <<opts, turns, todo, listed, info, devnum, window>>
    BY <1>9 DEF PrintPci, walk, Framing
  <2> HIDE DEF TurnPoints
  <2> QED BY <1>1, <2>1, <2>3, <2>4, <2>5, StepType
<1>10. CASE \/ CheckUp \/ GetInfo \/ AskSettings \/ AskLink \/ PrintLink
            \/ PrintMac \/ PrintWifi \/ PrintRadio \/ PrintFlags \/ PrintMtu
            \/ PrintMetric \/ PrintInet \/ PrintInet6 \/ PrintMap
            \/ PrintStats \/ PrintQueue
  <2>1. /\ info \in InfoType \cup {None} /\ block \in BlockType
        /\ filter \in Slots \cup {AnySlot} /\ devnum \in Nat
    BY <1>1
  <2>2. CASE CheckUp
    <3>1. PICK e \in Observable, q \in {"drvinfo"} :
            Call("flags1", q, e) /\ UNCHANGED <<info, filter, devnum>>
            /\ block' = block
      BY <2>2 DEF CheckUp
    <3>2. block' \in BlockType
      BY <2>1, <3>1
    <3> QED BY <2>1, <3>1, <3>2, CallType
  <2>3. CASE AskSettings
    <3>1. PICK e \in Observable, q \in {"mac", "link1"} :
            Call("settings", q, e) /\ UNCHANGED <<info, filter, devnum>>
            /\ block' = block
      BY <2>3 DEF AskSettings
    <3>2. block' \in BlockType
      BY <2>1, <3>1
    <3> QED BY <2>1, <3>1, <3>2, CallType
  <2>4. CASE AskLink
    <3>1. PICK e \in Observable, q \in {"mac", "link2"} :
            Call("link1", q, e) /\ UNCHANGED <<info, filter, devnum>>
            /\ block' = [block EXCEPT !.bold = EthtoolLink(e)]
      BY <2>4 DEF AskLink
    <3>2. block' \in BlockType
      BY <2>1, <3>1, AccessorTypes, BlockLines
    <3> QED BY <2>1, <3>1, <3>2, CallType
  <2>5. CASE PrintLink
    <3>1. PICK e \in Observable, q \in {"mac"} :
            Call("link2", q, e) /\ UNCHANGED <<info, filter, devnum>>
            /\ block' = [block EXCEPT !.link = EthtoolLink(e)]
      BY <2>5 DEF PrintLink
    <3>2. block' \in BlockType
      BY <2>1, <3>1, AccessorTypes, BlockLines
    <3> QED BY <2>1, <3>1, <3>2, CallType
  <2>6. CASE PrintMac
    <3>1. PICK e \in Observable, q \in {"wifi"} :
            Call("mac", q, e) /\ UNCHANGED <<info, filter, devnum>>
            /\ block' = [block EXCEPT !.mac = Mac(e)]
      BY <2>6 DEF PrintMac
    <3>2. block' \in BlockType
      BY <2>1, <3>1, AccessorTypes, BlockLines
    <3> QED BY <2>1, <3>1, <3>2, CallType
  <2>7. CASE PrintWifi
    <3>1. PICK e \in Observable, q \in {"radio"} :
            Call("wifi", q, e) /\ UNCHANGED <<info, filter, devnum>>
            /\ block' = [block EXCEPT !.wifi = WifiInfo(e)]
      BY <2>7 DEF PrintWifi
    <3>2. block' \in BlockType
      BY <2>1, <3>1, AccessorTypes, BlockLines
    <3> QED BY <2>1, <3>1, <3>2, CallType
  <2>8. CASE PrintRadio
    <3>1. PICK e \in Observable, q \in {"flags2"} :
            Call("radio", q, e) /\ UNCHANGED <<info, filter, devnum>>
            /\ block' = [block EXCEPT !.radio = WirelessStatus(e)]
      BY <2>8 DEF PrintRadio
    <3>2. block' \in BlockType
      BY <2>1, <3>1, AccessorTypes, BlockLines
    <3> QED BY <2>1, <3>1, <3>2, CallType
  <2>9. CASE PrintFlags
    <3>1. PICK e \in Observable, q \in {"inet", "mtu"} :
            Call("flags2", q, e) /\ UNCHANGED <<info, filter, devnum>>
            /\ block' = [block EXCEPT !.flags = FlagsStr(e)]
      BY <2>9 DEF PrintFlags
    <3>2. block' \in BlockType
      BY <2>1, <3>1, AccessorTypes, BlockLines
    <3> QED BY <2>1, <3>1, <3>2, CallType
  <2>10. CASE PrintMtu
    <3>1. PICK e \in Observable, q \in {"inet", "metric"} :
            Call("mtu", q, e) /\ UNCHANGED <<info, filter, devnum>>
            /\ block' = [block EXCEPT !.mtu = Mtu(e)]
      BY <2>10 DEF PrintMtu
    <3>2. block' \in BlockType
      BY <2>1, <3>1, AccessorTypes, BlockLines
    <3> QED BY <2>1, <3>1, <3>2, CallType
  <2>11. CASE PrintMetric
    <3>1. PICK e \in Observable, q \in {"inet"} :
            Call("metric", q, e) /\ UNCHANGED <<info, filter, devnum>>
            /\ block' = [block EXCEPT !.metric = Metric(e)]
      BY <2>11 DEF PrintMetric
    <3>2. block' \in BlockType
      BY <2>1, <3>1, AccessorTypes, BlockLines
    <3> QED BY <2>1, <3>1, <3>2, CallType
  <2>12. CASE PrintInet
    <3>1. PICK e \in Observable, q \in {"inet6"} :
            Call("inet", q, e) /\ UNCHANGED <<info, filter, devnum>>
            /\ block' = [block EXCEPT !.v4 = InetAddr(e)]
      BY <2>12 DEF PrintInet
    <3>2. block' \in BlockType
      BY <2>1, <3>1, AccessorTypes, BlockLines
    <3> QED BY <2>1, <3>1, <3>2, CallType
  <2>13. CASE PrintInet6
    <3>1. PICK e \in Observable, q \in {"map", "driver"} :
            Call("inet6", q, e) /\ UNCHANGED <<info, filter, devnum>>
            /\ block' = [block EXCEPT !.v6 = Inet6Addr(e)]
      BY <2>13 DEF PrintInet6
    <3>2. block' \in BlockType
      BY <2>1, <3>1, AccessorTypes, BlockLines
    <3> QED BY <2>1, <3>1, <3>2, CallType
  <2>14. CASE PrintQueue
    <3>1. PICK e \in Observable, q \in {"pci"} :
            Call("queue", q, e) /\ UNCHANGED <<info, filter, devnum>>
            /\ block' = [block EXCEPT !.queue = TxQueueLen(e)]
      BY <2>14 DEF PrintQueue
    <3>2. block' \in BlockType
      BY <2>1, <3>1, AccessorTypes, BlockLines
    <3> QED BY <2>1, <3>1, <3>2, CallType
  <2>15. CASE GetInfo
    <3>1. PICK e \in Observable :
            Call("drvinfo", "settings", e) /\ UNCHANGED filter
            /\ info' = EthtoolInfo(e) /\ devnum' = devnum + 1
            /\ block' = [block EXCEPT !.blank = devnum > 0]
      BY <2>15 DEF GetInfo
    <3>2. (devnum > 0) \in BOOLEAN /\ devnum' \in Nat
      BY <2>1, <3>1
    <3>3. block' \in BlockType
      BY <2>1, <3>1, <3>2, BlockLines
    <3> QED BY <2>1, <3>1, <3>2, <3>3, AccessorTypes, CallType
  <2>16. CASE PrintMap
    <3>1. PICK e \in Observable :
            Call("map", "stats", e) /\ UNCHANGED <<info, filter, devnum>>
            /\ block' = [block EXCEPT
                 !.irq = MapIrq(e),
                 !.cpus = IF e = Absent THEN None
                          ELSE CpuEvents(GetInterruptCounter(MapIrq(e)))]
      BY <2>16 DEF PrintMap
    <3>2. MapIrq(e) \in 0 .. IrqRange - 1 \cup {None}
          /\ CpuEvents(GetInterruptCounter(MapIrq(e))) \in Seq(Nat \X Nat)
      BY AccessorTypes
    <3>3. block' \in BlockType
      BY <2>1, <3>1, <3>2, BlockLines
    <3> QED BY <2>1, <3>1, <3>3, CallType
  <2>17. CASE PrintStats
    <3>0. PICK e \in Observable : \E s \in GetStats(e), q \in {"pci", "queue"} :
            Call("stats", q, e) /\ UNCHANGED <<info, filter, devnum>>
            /\ block' = [block EXCEPT !.stats = s]
      BY <2>17 DEF PrintStats
    <3>1. PICK s \in GetStats(e), q \in {"pci", "queue"} :
            Call("stats", q, e) /\ UNCHANGED <<info, filter, devnum>>
            /\ block' = [block EXCEPT !.stats = s]
      BY <3>0
    <3>2. s \in (Word \X Word) \cup {None}
      BY AccessorTypes
    <3>3. block' \in BlockType
      BY <2>1, <3>1, <3>2, BlockLines
    <3> QED BY <2>1, <3>1, <3>3, CallType
  <2> QED
    BY <1>10, <2>2, <2>3, <2>4, <2>5, <2>6, <2>7, <2>8, <2>9, <2>10, <2>11,
       <2>12, <2>13, <2>14, <2>15, <2>16, <2>17
<1>11. CASE \E n \in Names, e \in Observable : KernelChanges(n, e)
  <2>1. PICK n \in Names, e \in Observable : KernelChanges(n, e)
    BY <1>11
  <2>2. kernel' \in [Names -> Observable] /\ window' \subseteq Observable
    BY <2>1 DEF KernelChanges, TypeOK
  <2>3. changes' \in 0 .. MaxChanges
    BY <2>1, LegacyAssumption DEF KernelChanges, TypeOK
  <2>4. Framing'
    BY <2>1 DEF KernelChanges, walk, Framing
  <2> QED BY <2>1, <2>2, <2>3, <2>4 DEF KernelChanges, walk, TypeOK
<1>12. CASE UNCHANGED vars
  BY <1>12 DEF vars, TypeOK, Framing
<1> QED
  BY <1>2, <1>3, <1>4, <1>5, <1>6, <1>7, <1>8, <1>9, <1>10, <1>11, <1>12
     DEF Next, Program, Exited

LEMMA FramingCorrect == Spec => [](TypeOK /\ Framing)
<1>1. TypeOK /\ Framing /\ [Next]_vars => (TypeOK /\ Framing)'
  BY TypeNext
<1> QED BY <1>1, TypeInit, PTL DEF Spec

(***************************************************************************)
(* Every variable always has its type; in particular the filter is a slot  *)
(* of the bus or open, whatever the bus names the interfaces give.         *)
(***************************************************************************)
THEOREM TypeCorrect == Spec => []TypeOK
BY FramingCorrect, PTL
-----------------------------------------------------------------------------
(***************************************************************************)
(* The walk.                                                               *)
(***************************************************************************)

\* What the end of a turn does to the sequence of turns.
LEMMA EndTurnAppends ==
  ASSUME TypeOK, NEW o, NEW lines, NEW seen, EndTurn(o, lines, seen)
  PROVE  /\ Len(turns) \in Nat
         /\ Len(turns') = Len(turns) + 1
         /\ \A i \in 1 .. Len(turns) : turns'[i] = turns[i]
         /\ turns'[Len(turns) + 1] = [name |-> cur, outcome |-> o,
                                      window |-> seen, block |-> lines]
         /\ turns'[Len(turns) + 1].name = cur
         /\ turns'[Len(turns) + 1].outcome = o
         /\ turns'[Len(turns) + 1].block = lines
<1> DEFINE t == [name |-> cur, outcome |-> o, window |-> seen,
                 block |-> lines]
<1>1. t.name = cur /\ t.outcome = o /\ t.block = lines
  OBVIOUS
<1>2. turns' = Append(turns, t)
  BY DEF EndTurn
<1> HIDE DEF t
<1>3. /\ Len(turns) \in Nat /\ Len(turns') = Len(turns) + 1
      /\ \A i \in 1 .. Len(turns) : turns'[i] = turns[i]
      /\ turns'[Len(turns) + 1] = t
  BY <1>2 DEF TypeOK
<1>4. /\ turns'[Len(turns) + 1].name = cur
      /\ turns'[Len(turns) + 1].outcome = o
      /\ turns'[Len(turns) + 1].block = lines
  BY <1>1, <1>3
<1> QED BY <1>3, <1>4 DEF t

\* The names of the turns taken.
TurnNames == [i \in TurnIndices |-> turns[i].name]

LEMMA TurnNamesType ==
  ASSUME TypeOK
  PROVE  TurnNames \in Seq(Names) /\ Len(TurnNames) = Len(turns)
<1>1. Len(turns) \in Nat /\ \A i \in 1 .. Len(turns) : turns[i] \in TurnType
  BY DEF TypeOK
<1>2. \A i \in 1 .. Len(turns) : turns[i].name \in Names
  BY <1>1 DEF TurnType
<1> QED BY <1>1, <1>2 DEF TurnNames, TurnIndices

LEMMA NamesAreNames == None \notin Names
BY KernelAssumption, NothingAssumption

\* The turn that begins is that of the next name; the turn that ends, that of cur.
LEMMA WalkBegins ==
  ASSUME TypeOK, cur = None, todo # << >>, cur' = Head(todo),
         todo' = Tail(todo), turns' = turns
  PROVE  Walked' = Walked
<1>1. /\ TurnNames \in Seq(Names) /\ todo \in Seq(Names)
      /\ cur' \in Names /\ todo' \in Seq(Names) /\ <<cur'>> \in Seq(Names)
  BY TurnNamesType, HeadTailProperties DEF TypeOK
<1>2. Walked = (TurnNames \o << >>) \o todo
  BY DEF Walked, TurnNames
<1>3. Walked' = (TurnNames \o <<cur'>>) \o todo'
  BY <1>1, NamesAreNames DEF Walked, TurnNames, TurnIndices
<1>4. todo = <<cur'>> \o todo'
  BY <1>1 DEF TypeOK
<1>5. TurnNames \o << >> = TurnNames
  BY <1>1, ConcatEmptySeq
<1>6. (TurnNames \o <<cur'>>) \o todo' = TurnNames \o (<<cur'>> \o todo')
  BY <1>1, ConcatAssociative
<1> QED BY <1>2, <1>3, <1>4, <1>5, <1>6

LEMMA WalkEnds ==
  ASSUME TypeOK, cur \in Names,
         NEW o, NEW lines, NEW seen, EndTurn(o, lines, seen)
  PROVE  Walked' = Walked
<1>1. TurnNames \in Seq(Names) /\ Len(TurnNames) = Len(turns)
  BY TurnNamesType
<1>2. Walked = (TurnNames \o <<cur>>) \o todo
  BY NamesAreNames DEF Walked, TurnNames
<1>3. Walked' = (TurnNames' \o << >>) \o todo
  BY DEF Walked, TurnNames, EndTurn
<1>4. TurnNames' = TurnNames \o <<cur>>
  <2>1. /\ Len(turns) \in Nat /\ Len(turns') = Len(turns) + 1
        /\ \A i \in 1 .. Len(turns) : turns'[i].name = turns[i].name
        /\ turns'[Len(turns) + 1].name = cur
    BY EndTurnAppends
  <2>2. TurnNames' = [i \in 1 .. Len(turns) + 1 |->
                        IF i <= Len(turns) THEN TurnNames[i] ELSE cur]
    <3>1. TurnNames' = [i \in 1 .. Len(turns) + 1 |-> turns'[i].name]
      BY <2>1 DEF TurnNames, TurnIndices
    <3>2. ASSUME NEW i \in 1 .. Len(turns) + 1
          PROVE turns'[i].name = IF i <= Len(turns) THEN TurnNames[i] ELSE cur
      <4>1. CASE i <= Len(turns)
        <5>1. i \in 1 .. Len(turns)
          BY <2>1, <4>1
        <5> QED BY <2>1, <4>1, <5>1 DEF TurnNames, TurnIndices
      <4>2. CASE ~(i <= Len(turns))
        <5>1. i = Len(turns) + 1
          BY <2>1, <4>2
        <5> QED BY <2>1, <4>2, <5>1
      <4> QED BY <4>1, <4>2
    <3> QED BY <3>1, <3>2
  <2>3. TurnNames \o <<cur>> = [i \in 1 .. Len(turns) + 1 |->
                        IF i <= Len(turns) THEN TurnNames[i] ELSE cur]
    BY <1>1, <2>1
  <2> QED BY <2>2, <2>3
<1>5. TurnNames' \in Seq(Names)
  BY <1>1, <1>4
<1>6. TurnNames' \o << >> = TurnNames'
  BY <1>5, ConcatEmptySeq
<1> QED BY <1>2, <1>3, <1>4, <1>6

\* A step that neither begins nor ends a turn.
LEMMA SameProgress ==
  ASSUME Progress, UNCHANGED <<turns, todo, listed, cur, devnum>>,
         pc' \in {"start", "list", "done"} => pc' = pc,
         \/ pc' = "crashed"
         \/ pc # "crashed" /\ (pc' \in FromSettings <=> pc \in FromSettings),
         pc' \in FromSettings => block'.blank = block.blank
  PROVE  Progress'
<1>1. Walked' = Walked /\ TurnIndices' = TurnIndices
      /\ \A i : Begun(i)' <=> Begun(i)
  BY DEF Walked, TurnIndices, Begun
<1>2. "crashed" \notin FromSettings
  BY DEF FromSettings, FromMac, FromWifi, FromRadio, FromFlags2, FromMtu,
         FromInet, FromInet6, FromMap, FromPci
<1>3. (\E i \in TurnIndices' : Begun(i)') <=> \E i \in TurnIndices : Begun(i)
  BY <1>1
<1>4. pc' \in FromSettings => block'.blank = (\E i \in TurnIndices' : Begun(i)')
  BY <1>2, <1>3 DEF Progress
<1>5. pc' # "crashed" => (devnum' > 0 <=> \/ \E i \in TurnIndices' : Begun(i)'
                                         \/ pc' \in FromSettings)
  BY <1>3 DEF Progress
<1>6. Walked' = listed'
  BY <1>1 DEF Progress
<1> QED BY <1>4, <1>5, <1>6 DEF Progress

\* The blocks begun when a turn has ended.
LEMMA EndTurnBegun ==
  ASSUME TypeOK, NEW o, NEW lines, NEW seen, EndTurn(o, lines, seen)
  PROVE  /\ Len(turns) \in Nat
         /\ TurnIndices' = TurnIndices \cup {Len(turns) + 1}
         /\ \A i \in TurnIndices : Begun(i)' <=> Begun(i)
         /\ \A i : i = Len(turns) + 1 =>
              (Begun(i)' <=> o \in {"cut", "shown"})
         /\ \A i \in TurnIndices : turns'[i].block = turns[i].block
         /\ turns'[Len(turns) + 1].block = lines
<1>1. /\ Len(turns) \in Nat /\ Len(turns') = Len(turns) + 1
      /\ \A i \in 1 .. Len(turns) : turns'[i] = turns[i]
      /\ turns'[Len(turns) + 1].outcome = o
      /\ turns'[Len(turns) + 1].block = lines
  BY EndTurnAppends
<1>2. TurnIndices' = TurnIndices \cup {Len(turns) + 1}
  BY <1>1 DEF TurnIndices
<1>3. \A i \in TurnIndices : turns'[i] = turns[i]
  BY <1>1 DEF TurnIndices
<1>4. \A i \in TurnIndices : Begun(i)' <=> Begun(i)
  BY <1>3 DEF Begun
<1>5. ASSUME NEW i, i = Len(turns) + 1
      PROVE  Begun(i)' <=> o \in {"cut", "shown"}
  BY <1>1, <1>5 DEF Begun
<1>6. \A i \in TurnIndices : turns'[i].block = turns[i].block
  BY <1>3
<1> QED BY <1>1, <1>2, <1>4, <1>5, <1>6

LEMMA EndTurnProgress ==
  ASSUME TypeOK, Framing, Progress, pc \in TurnPoints, devnum' = devnum,
         NEW o, NEW lines, NEW seen, EndTurn(o, lines, seen),
         o \in {"cut", "shown"} <=> pc \in FromSettings
  PROVE  Progress'
<1> USE DEF TurnPoints, FromFlags1, FromDrvinfo, FromSettings, FromMac,
            FromWifi, FromRadio, FromFlags2, FromMtu, FromInet, FromInet6,
            FromMap, FromPci
<1>1. Walked' = listed'
  BY WalkEnds DEF Framing, Progress, EndTurn
<1>2. /\ TurnIndices' = TurnIndices \cup {Len(turns) + 1}
      /\ \A i \in TurnIndices : Begun(i)' <=> Begun(i)
      /\ \A i : i = Len(turns) + 1 => (Begun(i)' <=> o \in {"cut", "shown"})
  BY EndTurnBegun
<1>3. pc' = "next"
  BY DEF EndTurn
<1>4. devnum' > 0 <=> \E i \in TurnIndices' : Begun(i)'
  <2>1. pc # "crashed"
    OBVIOUS
  <2>2. devnum > 0 <=> (\E i \in TurnIndices : Begun(i)) \/ pc \in FromSettings
    BY <2>1 DEF Progress
  <2> HIDE DEF TurnPoints, FromSettings
  <2>3. (\E i \in TurnIndices' : Begun(i)') <=>
          (\E i \in TurnIndices : Begun(i)) \/ o \in {"cut", "shown"}
    BY <1>2
  <2> QED BY <2>2, <2>3
<1> QED BY <1>1, <1>3, <1>4 DEF Progress

LEMMA ProgressInit == Init => Progress
<1> SUFFICES ASSUME Init PROVE Progress
  OBVIOUS
<1>1. TurnIndices = {}
  BY DEF Init, TurnIndices
<1>2. Walked = << >>
  BY <1>1 DEF Init, Walked
<1> QED
  BY <1>1, <1>2 DEF Init, Progress, FromSettings, FromMac, FromWifi, FromRadio,
     FromFlags2, FromMtu, FromInet, FromInet6, FromMap, FromPci

LEMMA ProgressNext ==
  TypeOK /\ Framing /\ Progress /\ [Next]_vars => Progress'
<1> SUFFICES ASSUME TypeOK, Framing, Progress, [Next]_vars
             PROVE  Progress'
  OBVIOUS
<1> USE DEF TurnPoints, FromFlags1, FromDrvinfo, FromSettings, FromMac,
            FromWifi, FromRadio, FromFlags2, FromMtu, FromInet, FromInet6,
            FromMap, FromPci
<1>1. CASE ListForWidth
  <2>1. /\ turns = << >> /\ todo = << >> /\ pc' \in {"list", "crashed"}
        /\ UNCHANGED <<turns, todo, listed, cur, devnum>> /\ pc = "start"
    BY <1>1 DEF ListForWidth, walk, Progress
  <2>2. TurnIndices = {} /\ TurnIndices' = {} /\ Walked' = Walked
    BY <2>1 DEF TurnIndices, Walked
  <2> QED BY <2>1, <2>2 DEF Progress
<1>2. CASE ListNames
  <2>1. /\ turns = << >> /\ turns' = << >> /\ cur' = None /\ todo' = listed'
        /\ devnum' = devnum /\ pc = "list" /\ pc' = "next"
    BY <1>2 DEF ListNames, Progress, Framing
  <2>2. listed' \in Seq(Names)
    BY <1>2, OrdersType, EmptySeq DEF ListNames, Present
  <2>3. TurnIndices = {} /\ TurnIndices' = {}
    BY <2>1 DEF TurnIndices
  <2>4. Walked' = (<< >> \o << >>) \o listed'
    BY <2>1, <2>3 DEF Walked
  <2>5. Walked' = listed'
    BY <2>2, <2>4, ConcatEmptySeq, EmptySeq
  <2> QED BY <2>1, <2>3, <2>5 DEF Progress
<1>3. CASE NextName
  <2>1. Walked' = Walked
    BY <1>3, WalkBegins DEF NextName, Framing
  <2>2. /\ UNCHANGED <<turns, listed, devnum>>
        /\ pc = "next" /\ pc' = "filter"
    BY <1>3 DEF NextName
  <2>3. TurnIndices' = TurnIndices /\ \A i : Begun(i)' <=> Begun(i)
    BY <2>2 DEF TurnIndices, Begun
  <2> QED BY <2>1, <2>2, <2>3 DEF Progress
<1>4. CASE \/ Excluded \/ SkipDown \/ FlagsThrow \/ SkipDriver \/ InetThrows
           \/ PrintDriver
  <2>1. CASE Excluded \/ SkipDown \/ FlagsThrow \/ SkipDriver
    <3>1. PICK o \in {"excluded", "down", "thrown", "otherdriver"} :
            \E lines, seen : EndTurn(o, lines, seen)
      BY <2>1 DEF Excluded, SkipDown, FlagsThrow, SkipDriver
    <3>2. /\ pc \in TurnPoints /\ devnum' = devnum
          /\ pc \notin FromSettings /\ o \notin {"cut", "shown"}
      BY <2>1 DEF Excluded, SkipDown, FlagsThrow, SkipDriver
    <3> QED BY <3>1, <3>2, EndTurnProgress
  <2>2. CASE InetThrows \/ PrintDriver
    <3>1. PICK o \in {"cut", "shown"} : \E lines, seen : EndTurn(o, lines, seen)
      BY <2>2 DEF InetThrows, PrintDriver
    <3>2. pc \in TurnPoints /\ devnum' = devnum /\ pc \in FromSettings
      BY <2>2 DEF InetThrows, PrintDriver
    <3> QED BY <3>1, <3>2, EndTurnProgress
  <2> QED BY <1>4, <2>1, <2>2
<1>5. CASE GetInfo
  <2>1. /\ pc = "drvinfo" /\ pc' = "settings" /\ devnum' = devnum + 1
        /\ block' = [block EXCEPT !.blank = devnum > 0]
        /\ UNCHANGED <<turns, todo, listed, cur>>
    BY <1>5 DEF GetInfo, Call, walk
  <2>2. Walked' = Walked /\ TurnIndices' = TurnIndices
        /\ \A i : Begun(i)' <=> Begun(i)
    BY <2>1 DEF Walked, TurnIndices, Begun
  <2>3. devnum > 0 <=> \E i \in TurnIndices : Begun(i)
    BY <2>1 DEF Progress
  <2>4. block'.blank = (devnum > 0)
    BY <2>1 DEF TypeOK, BlockType
  <2>5. block'.blank = (\E i \in TurnIndices' : Begun(i)')
    <3>1. (\E i \in TurnIndices' : Begun(i)') <=> devnum > 0
      BY <2>2, <2>3
    <3>2. (\E i \in TurnIndices' : Begun(i)') = (devnum > 0)
      <4>1. CASE devnum > 0
        <5>1. (\E i \in TurnIndices' : Begun(i)') = TRUE /\ (devnum > 0) = TRUE
          BY <3>1, <4>1
        <5> QED BY <5>1
      <4>2. CASE ~(devnum > 0)
        <5>1. (\E i \in TurnIndices' : Begun(i)') = FALSE /\ (devnum > 0) = FALSE
          BY <3>1, <4>2
        <5> QED BY <5>1
      <4> QED BY <4>1, <4>2
    <3> QED BY <2>4, <3>2
  <2>6. devnum' > 0
    BY <2>1 DEF TypeOK
  <2>7. Walked' = listed'
    BY <2>1, <2>2 DEF Progress
  <2> QED BY <2>1, <2>5, <2>6, <2>7 DEF Progress
<1>6. CASE \/ AskSettings \/ AskLink \/ PrintLink \/ PrintMac \/ PrintWifi
           \/ PrintRadio \/ PrintFlags \/ PrintMtu \/ PrintMetric \/ PrintInet
           \/ PrintInet6 \/ PrintMap \/ PrintStats \/ PrintQueue \/ PrintPci
  <2>1. /\ UNCHANGED <<turns, todo, listed, cur, devnum>>
        /\ pc \in FromSettings /\ pc' \in FromSettings
    BY <1>6
       DEF AskSettings, AskLink, PrintLink, PrintMac, PrintWifi, PrintRadio,
           PrintFlags, PrintMtu, PrintMetric, PrintInet, PrintInet6, PrintMap,
           PrintStats, PrintQueue, PrintPci, Call, walk
  <2>2. block'.blank = block.blank
    BY <1>6
       DEF AskSettings, AskLink, PrintLink, PrintMac, PrintWifi, PrintRadio,
           PrintFlags, PrintMtu, PrintMetric, PrintInet, PrintInet6, PrintMap,
           PrintStats, PrintQueue, PrintPci, TypeOK, BlockType
  <2> QED BY <2>1, <2>2, SameProgress
<1>7. CASE Included \/ CheckUp \/ InetCrashes
  <2>1. /\ UNCHANGED <<turns, todo, listed, cur, devnum, block>>
        /\ \/ pc' = "crashed"
           \/ /\ pc # "crashed" /\ pc \notin FromSettings
              /\ pc' \in {"flags1", "drvinfo"}
    BY <1>7 DEF Included, CheckUp, InetCrashes, Call, walk
  <2> QED BY <2>1, SameProgress
<1>8. CASE Finish
  <2>1. /\ UNCHANGED <<turns, todo, listed, cur, devnum>>
        /\ todo = << >> /\ pc = "next" /\ pc' = "done"
    BY <1>8 DEF Finish, walk
  <2>2. Walked' = Walked /\ TurnIndices' = TurnIndices
        /\ \A i : Begun(i)' <=> Begun(i)
    BY <2>1 DEF Walked, TurnIndices, Begun
  <2> QED BY <2>1, <2>2 DEF Progress
<1>9. CASE (\E n \in Names, e \in Observable : KernelChanges(n, e))
           \/ UNCHANGED vars
  <2>1. UNCHANGED <<turns, todo, listed, cur, devnum, block, pc>>
    BY <1>9 DEF KernelChanges, walk, vars
  <2> QED BY <2>1, SameProgress
<1> QED
  BY <1>1, <1>2, <1>3, <1>4, <1>5, <1>6, <1>7, <1>8, <1>9
     DEF Next, Program, Exited

\* The walk so far, the walk to come and the blocks begun.
THEOREM ProgressCorrect == Spec => []Progress
<1>1. TypeOK /\ Framing /\ Progress /\ [Next]_vars => Progress'
  BY ProgressNext
<1> QED BY <1>1, ProgressInit, FramingCorrect, PTL DEF Spec
\* The blank line before a block that has begun stands as it was decided.
LEMMA BlankStays ==
  ASSUME NEW b, NEW S, b = (\E j \in S : Begun(j)),
         \A j \in S : Begun(j)' <=> Begun(j)
  PROVE  b = (\E j \in S : Begun(j)')
<1>1. CASE \E j \in S : Begun(j)
  <2>1. (\E j \in S : Begun(j)) = TRUE /\ (\E j \in S : Begun(j)') = TRUE
    BY <1>1
  <2> QED BY <2>1
<1>2. CASE ~\E j \in S : Begun(j)
  <2>1. (\E j \in S : Begun(j)) = FALSE /\ (\E j \in S : Begun(j)') = FALSE
    BY <1>2
  <2> QED BY <2>1
<1> QED BY <1>1, <1>2

\* A blank line stands between any two blocks, and before no first one.
BlanksBetween ==
  \A i \in TurnIndices : Begun(i) =>
    turns[i].block.blank = (\E j \in 1 .. i - 1 : Begun(j))

LEMMA EndTurnBlanks ==
  ASSUME TypeOK, Progress, BlanksBetween,
         NEW o, NEW lines, NEW seen, EndTurn(o, lines, seen),
         o \in {"cut", "shown"} =>
           pc \in FromSettings /\ lines.blank = block.blank
  PROVE  BlanksBetween'
<1>1. /\ Len(turns) \in Nat
      /\ TurnIndices' = TurnIndices \cup {Len(turns) + 1}
      /\ \A i \in TurnIndices : Begun(i)' <=> Begun(i)
      /\ \A i : i = Len(turns) + 1 => (Begun(i)' <=> o \in {"cut", "shown"})
      /\ \A i \in TurnIndices : turns'[i].block = turns[i].block
      /\ turns'[Len(turns) + 1].block = lines
  BY EndTurnBegun
<1>2. SUFFICES ASSUME NEW i \in TurnIndices', Begun(i)'
               PROVE  turns'[i].block.blank = (\E j \in 1 .. i - 1 : Begun(j)')
  BY DEF BlanksBetween
<1>3. \A j \in 1 .. i - 1 : Begun(j)' <=> Begun(j)
  BY <1>1 DEF TurnIndices
<1>4. CASE i \in TurnIndices
  <2>1. turns[i].block.blank = (\E j \in 1 .. i - 1 : Begun(j))
    BY <1>1, <1>2, <1>4 DEF BlanksBetween
  <2>2. turns[i].block.blank = (\E j \in 1 .. i - 1 : Begun(j)')
    BY <1>3, <2>1, BlankStays
  <2> QED BY <1>1, <1>4, <2>2
<1>5. CASE i = Len(turns) + 1
  <2>1. pc \in FromSettings /\ lines.blank = block.blank
    BY <1>1, <1>2, <1>5
  <2>2. block.blank = (\E j \in TurnIndices : Begun(j))
    BY <2>1 DEF Progress
  <2>3. TurnIndices = 1 .. i - 1
    BY <1>1, <1>5 DEF TurnIndices
  <2>4. block.blank = (\E j \in 1 .. i - 1 : Begun(j)')
    BY <1>3, <2>2, <2>3, BlankStays
  <2> QED BY <1>1, <1>5, <2>1, <2>4
<1> QED BY <1>1, <1>4, <1>5

LEMMA BlanksNext ==
  TypeOK /\ Progress /\ BlanksBetween /\ [Next]_vars => BlanksBetween'
<1> SUFFICES ASSUME TypeOK, Progress, BlanksBetween, [Next]_vars
             PROVE  BlanksBetween'
  OBVIOUS
<1>1. CASE Excluded \/ SkipDown \/ FlagsThrow \/ SkipDriver
  <2>1. PICK o \in {"excluded", "down", "thrown", "otherdriver"} :
          \E lines, seen : EndTurn(o, lines, seen)
    BY <1>1 DEF Excluded, SkipDown, FlagsThrow, SkipDriver
  <2> QED BY <2>1, EndTurnBlanks
<1>2. CASE InetThrows \/ PrintDriver
  <2>1. PICK o \in {"cut", "shown"}, lines \in {block, WithDriverLines} :
          \E seen : EndTurn(o, lines, seen)
    BY <1>2 DEF InetThrows, PrintDriver
  <2>2. lines.blank = block.blank
    BY DEF WithDriverLines, TypeOK, BlockType
  <2>3. pc \in FromSettings
    BY <1>2 DEF InetThrows, PrintDriver, FromSettings, FromMac, FromWifi,
       FromRadio, FromFlags2, FromMtu, FromInet, FromInet6, FromMap, FromPci
  <2> QED BY <2>1, <2>2, <2>3, EndTurnBlanks
<1>3. CASE UNCHANGED turns
  <2>1. TurnIndices' = TurnIndices /\ \A i : Begun(i)' <=> Begun(i)
    BY <1>3 DEF TurnIndices, Begun
  <2>2. ASSUME NEW i \in TurnIndices, Begun(i)
        PROVE  turns[i].block.blank = (\E j \in 1 .. i - 1 : Begun(j)')
    <3>1. turns[i].block.blank = (\E j \in 1 .. i - 1 : Begun(j))
      BY <2>2 DEF BlanksBetween
    <3> QED BY <2>1, <3>1, BlankStays
  <2> QED BY <1>3, <2>1, <2>2 DEF BlanksBetween
<1>4. ASSUME ~(Excluded \/ SkipDown \/ FlagsThrow \/ SkipDriver),
             ~(InetThrows \/ PrintDriver)
      PROVE  UNCHANGED turns
  BY <1>4
     DEF Next, Program, Exited, ListForWidth, ListNames, NextName, Included,
         CheckUp, GetInfo, AskSettings, AskLink, PrintLink, PrintMac,
         PrintWifi, PrintRadio, PrintFlags, PrintMtu, PrintMetric, PrintInet,
         InetCrashes, PrintInet6, PrintMap, PrintStats, PrintQueue, PrintPci,
         Finish, KernelChanges, Call, walk, vars
<1> QED BY <1>1, <1>2, <1>3, <1>4

(***************************************************************************)
(* Exceptions end blocks, never the walk: the names listed are, in their   *)
(* order, those of the turns taken, under way and to come, and the blank   *)
(* lines stand between the blocks begun, the ones cut short included.      *)
(***************************************************************************)
THEOREM WalkGoesOnCorrect == Spec => []WalkGoesOn
<1>1. Init => BlanksBetween
  BY DEF Init, BlanksBetween, TurnIndices
<1>2. TypeOK /\ Progress /\ BlanksBetween /\ [Next]_vars => BlanksBetween'
  BY BlanksNext
<1>3. Framing /\ Progress /\ BlanksBetween => WalkGoesOn
  BY DEF Framing, Progress, BlanksBetween, WalkGoesOn
<1> QED
  BY <1>1, <1>2, <1>3, FramingCorrect, ProgressCorrect, PTL DEF Spec
-----------------------------------------------------------------------------
(***************************************************************************)
(* Where the lines come from.                                              *)
(***************************************************************************)

\* Report's names of the kernel's data are Kernel's.
LEMMA SameKernel ==
  /\ R!Slots = Slots /\ R!HighFlags = HighFlags
  /\ R!Observable = Observable
BY DEF R!Slots, Slots, R!HighFlags, HighFlags, R!Observable, Observable

LEMMA AccessorsTell ==
  ASSUME NEW e \in Observable
  PROVE  /\ Flags(e) # None => (IsUp(e) <=> R!Running(e))
         /\ Flags(e) = None <=> e = Absent
         /\ EthtoolInfo(e) = R!DriverOf(e)
<1>1. EthtoolInfo(e) = R!DriverOf(e)
  BY DEF EthtoolInfo, R!DriverOf
<1>2. Flags(e) = None <=> e = Absent
  BY AnswerAssumption DEF Flags, Observable
<1>3. Flags(e) # None => (IsUp(e) <=> R!Running(e))
  <2>1. "UP" \in I16Flags
    BY DEF I16Flags
  <2> QED BY <1>2, <2>1 DEF IsUp, Flags, R!Running
<1> QED BY <1>1, <1>2, <1>3

LEMMA FilterAgrees == \A i : DriverAccepted(i) <=> R!Passes(i)
BY DEF DriverAccepted, R!Passes

\* What a turn's calls may have found only grows, and a line that goes back to
\* something found goes back to it when more is found.
LEMMA FoundStays ==
  ASSUME NEW l, NEW W, NEW V, W \subseteq V
  PROVE  /\ HeaderHolds(l, W) => HeaderHolds(l, V)
         /\ FlagsLineHolds(l, W) => FlagsLineHolds(l, V)
         /\ VerboseLinesHold(l, W) => VerboseLinesHold(l, V)
         /\ Running(W) => Running(V)
<1>1. HeaderHolds(l, W) => HeaderHolds(l, V)
  BY DEF HeaderHolds
<1>2. FlagsLineHolds(l, W) => FlagsLineHolds(l, V)
  BY DEF FlagsLineHolds
<1>3. VerboseLinesHold(l, W) => VerboseLinesHold(l, V)
  BY DEF VerboseLinesHold, StatsLineHolds
<1>4. Running(W) => Running(V)
  BY DEF Running
<1> QED BY <1>1, <1>2, <1>3, <1>4

\* The promise depends on the command line and on the bus alone.
LEMMA PromiseStable ==
  ASSUME UNCHANGED <<opts, bus>>
  PROVE  /\ \A n : R!Excludes(n)' <=> R!Excludes(n)
         /\ \A n : R!ShowsDown(n)' <=> R!ShowsDown(n)
         /\ \A i : R!Passes(i)' <=> R!Passes(i)
         /\ \A l, W : VerboseLinesHold(l, W)' <=> VerboseLinesHold(l, W)
         /\ \A t : Admissible(t)' <=> Admissible(t)
<1>1. /\ \A n : R!Excludes(n)' <=> R!Excludes(n)
      /\ \A n : R!ShowsDown(n)' <=> R!ShowsDown(n)
      /\ \A i : R!Passes(i)' <=> R!Passes(i)
  BY DEF R!Excludes, R!ShowsDown, R!Passes
<1>2. \A l, W : VerboseLinesHold(l, W)' <=> VerboseLinesHold(l, W)
  BY DEF VerboseLinesHold
<1>3. \A l, W : DriverLinesHold(l, W)' <=> DriverLinesHold(l, W)
  BY <1>1 DEF DriverLinesHold
<1>4. \A t : Admissible(t)' <=> Admissible(t)
  BY <1>1, <1>2, <1>3 DEF Admissible
<1> QED BY <1>1, <1>2, <1>4

\* What any call of a turn does beside printing.
LEMMA CallFacts ==
  ASSUME TypeOK, Provenance, NEW p \in FromFlags1, NEW q, NEW e \in Observable,
         Call(p, q, e)
  PROVE  /\ pc = p /\ pc' = q
         /\ kernel'[cur'] \in window'
         /\ window \subseteq window' /\ e \in window'
         /\ UNCHANGED <<opts, bus, cur, turns>>
<1>1. kernel[cur] \in window
  BY DEF Call, Provenance, TestsPassed, TurnPoints
<1>2. kernel' = kernel /\ bus' = bus
  BY DEF Call, Finds, SocketThrows, Fault, env
<1> QED BY <1>1, <1>2 DEF Call, walk

\* Once a block has begun, the tests of its turn are behind it.
LEMMA KeptTests ==
  ASSUME Provenance, pc \in FromSettings, pc' \in FromSettings,
         UNCHANGED <<opts, bus, cur, info>>, window \subseteq window',
         kernel'[cur'] \in window'
  PROVE  TestsPassed'
<1>1. /\ ~R!Excludes(cur)
      /\ R!ShowsDown(cur) \/ Running(window)
      /\ \E e \in window : info = EthtoolInfo(e) /\ R!Passes(info)
      /\ pc' # "flags1"
  BY DEF Provenance, TestsPassed, FromFlags1, FromDrvinfo, FromSettings,
         FromMac, FromWifi, FromRadio, FromFlags2, FromMtu, FromInet,
         FromInet6, FromMap, FromPci
<1>2. /\ ~R!Excludes(cur)'
      /\ R!ShowsDown(cur)' \/ Running(window')
      /\ \E e \in window' : info' = EthtoolInfo(e) /\ R!Passes(info)'
  <2>1. ~R!Excludes(cur)' /\ (R!ShowsDown(cur) => R!ShowsDown(cur)')
    BY <1>1 DEF R!Excludes, R!ShowsDown
  <2>2. Running(window) => Running(window')
    BY FoundStays
  <2>3. PICK e \in window : info = EthtoolInfo(e) /\ R!Passes(info)
    BY <1>1
  <2>4. info' = EthtoolInfo(e) /\ R!Passes(info)'
    BY <2>3 DEF R!Passes
  <2> QED BY <1>1, <2>1, <2>2, <2>3, <2>4
<1> QED BY <1>1, <1>2 DEF TestsPassed

\* Behind the header its parts stand as they are; so do the lines above those
\* of --verbose behind them.
LEMMA KeptHeader ==
  ASSUME Provenance, pc \in FromMac, pc' \in FromMac,
         window \subseteq window',
         block'.bold = block.bold, block'.link = block.link
  PROVE  HeaderFound'
<1>1. pc' \notin {"link1", "link2"}
  BY DEF FromMac, FromWifi, FromRadio, FromFlags2, FromMtu, FromInet,
         FromInet6, FromMap, FromPci
<1>2. HeaderHolds(block, window')
  BY FoundStays DEF Provenance, HeaderFound
<1>3. HeaderHolds(block', window')
  BY <1>2 DEF HeaderHolds
<1> QED BY <1>1, <1>3 DEF HeaderFound

LEMMA KeptTop ==
  ASSUME Provenance, pc \in FromMap, pc' \in FromMap,
         window \subseteq window',
         \A line \in {"mac", "wifi", "radio", "flags", "mtu", "metric",
                      "v4", "v6"} : block'[line] = block[line]
  PROVE  TopLinesFound'
<1> USE DEF FromWifi, FromRadio, FromFlags2, FromMtu, FromInet,
            FromInet6, FromMap, FromPci
<1>1. /\ block'.mac = block.mac /\ block'.wifi = block.wifi
      /\ block'.radio = block.radio /\ block'.flags = block.flags
      /\ block'.mtu = block.mtu /\ block'.metric = block.metric
      /\ block'.v4 = block.v4 /\ block'.v6 = block.v6
  OBVIOUS
<1>2. /\ \E e \in window : block.mac = Mac(e)
      /\ \E e \in window : block.wifi = WifiInfo(e)
      /\ \E e \in window : block.radio = WirelessStatus(e)
      /\ \E e \in window : block.v4 = InetAddr(e)
      /\ \E e \in window : block.v6 = Inet6Addr(e)
      /\ FlagsLineHolds(block, window')
  BY FoundStays DEF Provenance, TopLinesFound
<1>3. FlagsLineHolds(block', window')
  BY <1>1, <1>2 DEF FlagsLineHolds
<1>4. pc' \notin {"mtu", "metric"}
  OBVIOUS
<1> QED BY <1>1, <1>2, <1>3, <1>4 DEF TopLinesFound

\* Before the lines of --verbose there is nothing to say of them.
LEMMA NoVerboseYet ==
  ASSUME pc' \notin FromMap
  PROVE  VerboseLinesFound' /\ CardFound'
BY DEF VerboseLinesFound, CardFound, FromMap, FromPci

\* A step to a point outside of the blocks.
LEMMA NoBlock ==
  ASSUME pc' \notin FromSettings, pc' # "crashed" => block' = NoLines
  PROVE  /\ NotYetPrinted' /\ HeaderFound' /\ TopLinesFound'
         /\ VerboseLinesFound' /\ CardFound'
<1> USE DEF FromSettings, FromMac, FromWifi, FromRadio, FromFlags2, FromMtu,
            FromInet, FromInet6, FromMap, FromPci
<1>1. VerboseLinesFound' /\ CardFound'
  BY NoVerboseYet
<1>2. NotYetPrinted'
  BY DEF NotYetPrinted
<1>3. HeaderFound' /\ TopLinesFound'
  BY DEF HeaderFound, TopLinesFound
<1> QED BY <1>1, <1>2, <1>3

LEMMA NoTurn ==
  ASSUME pc' \notin TurnPoints, pc' # "crashed" => block' = NoLines
  PROVE  Provenance'
<1>1. pc' \notin FromSettings
  BY DEF TurnPoints, FromFlags1, FromDrvinfo
<1>2. TestsPassed'
  BY DEF TestsPassed, TurnPoints, FromFlags1, FromDrvinfo
<1> QED BY <1>1, <1>2, NoBlock DEF Provenance

\* The kernel changes, or nothing does.
LEMMA KeptProvenance ==
  ASSUME Provenance, UNCHANGED <<pc, block, info, opts, bus, cur>>,
         window \subseteq window',
         pc \in TurnPoints => kernel'[cur'] \in window'
  PROVE  Provenance'
<1>1. TestsPassed'
  <2>1. /\ \A n : R!Excludes(n)' <=> R!Excludes(n)
        /\ \A n : R!ShowsDown(n)' <=> R!ShowsDown(n)
        /\ \A i : R!Passes(i)' <=> R!Passes(i)
    BY PromiseStable
  <2>2. Running(window) => Running(window')
    BY FoundStays
  <2>3. pc' \in FromFlags1 => ~R!Excludes(cur)'
    BY DEF Provenance, TestsPassed, R!Excludes
  <2>4. R!ShowsDown(cur) => R!ShowsDown(cur)'
    BY DEF R!ShowsDown
  <2>5. R!Passes(info) => R!Passes(info)'
    BY DEF R!Passes
  <2> QED BY <2>2, <2>3, <2>4, <2>5 DEF Provenance, TestsPassed
<1>2. NotYetPrinted'
  BY DEF Provenance, NotYetPrinted
<1>3. HeaderFound'
  BY FoundStays DEF Provenance, HeaderFound
<1>4. TopLinesFound'
  BY FoundStays DEF Provenance, TopLinesFound
<1>5. VerboseLinesFound'
  <2>1. VerboseLinesHold(block, window) => VerboseLinesHold(block, window)'
    BY DEF VerboseLinesHold, StatsLineHolds
  <2> QED BY <2>1 DEF Provenance, VerboseLinesFound
<1>6. CardFound'
  BY DEF Provenance, CardFound
<1> QED BY <1>1, <1>2, <1>3, <1>4, <1>5, <1>6 DEF Provenance

\* The lines of a block; a step that prints one leaves the others.
Lines == {"blank", "bold", "link", "mac", "wifi", "radio", "flags", "mtu",
          "metric", "v4", "v6", "irq", "cpus", "stats", "queue", "pci",
          "driver", "bus"}

LEMMA OneLine ==
  ASSUME TypeOK
  PROVE  \A f \in Lines : \A v :
           /\ [block EXCEPT ![f] = v][f] = v
           /\ \A line \in Lines \ {f} : [block EXCEPT ![f] = v][line] = block[line]
<1>1. block \in BlockType
  BY DEF TypeOK
<1>2. DOMAIN block = Lines
  BY <1>1 DEF BlockType, Lines
<1> QED BY <1>2

LEMMA ProvenanceInit == Init => Provenance
<1> SUFFICES ASSUME Init PROVE Provenance
  OBVIOUS
<1> USE DEF TurnPoints, FromFlags1, FromDrvinfo, FromSettings, FromMac,
            FromWifi, FromRadio, FromFlags2, FromMtu, FromInet, FromInet6,
            FromMap, FromPci
<1>1. TestsPassed /\ NotYetPrinted /\ HeaderFound
  BY DEF Init, TestsPassed, NotYetPrinted, HeaderFound
<1>2. TopLinesFound /\ VerboseLinesFound /\ CardFound
  BY DEF Init, TopLinesFound, VerboseLinesFound, CardFound
<1> QED BY <1>1, <1>2 DEF Provenance

LEMMA ProvenanceNext ==
  TypeOK /\ Framing /\ Provenance /\ [Next]_vars => Provenance'
<1> SUFFICES ASSUME TypeOK, Framing, Provenance, [Next]_vars
             PROVE  Provenance'
  OBVIOUS
<1> USE DEF TurnPoints, FromFlags1, FromDrvinfo, FromSettings, FromMac,
            FromWifi, FromRadio, FromFlags2, FromMtu, FromInet, FromInet6,
            FromMap, FromPci
<1>1. CASE \/ ListForWidth \/ ListNames \/ Excluded \/ SkipDown \/ FlagsThrow
           \/ SkipDriver \/ InetThrows \/ InetCrashes \/ PrintDriver \/ Finish
  <2>1. CASE ListForWidth \/ ListNames \/ Finish
    <3>1. /\ block' = block /\ pc \in {"start", "list", "next"}
          /\ pc' \in {"list", "next", "done", "crashed"}
      BY <2>1 DEF ListForWidth, ListNames, Finish
    <3>2. block' = NoLines
      BY <3>1 DEF Provenance, NotYetPrinted
    <3> QED BY <3>1, <3>2, NoTurn
  <2>2. CASE \/ Excluded \/ SkipDown \/ FlagsThrow \/ SkipDriver
             \/ InetThrows \/ PrintDriver
    <3>1. block' = NoLines /\ pc' = "next"
      BY <2>2 DEF Excluded, SkipDown, FlagsThrow, SkipDriver, InetThrows,
                  PrintDriver, EndTurn
    <3> QED BY <3>1, NoTurn
  <2>3. CASE InetCrashes
    <3>1. pc' = "crashed"
      BY <2>3 DEF InetCrashes
    <3> QED BY <3>1, NoTurn
  <2> QED BY <1>1, <2>1, <2>2, <2>3
<1>2. CASE NextName \/ Included
  <2>1. /\ block' = block /\ pc \in {"next", "filter"}
        /\ pc' \in {"filter", "flags1", "drvinfo"}
    BY <1>2 DEF NextName, Included
  <2>2. block' = NoLines
    BY <2>1 DEF Provenance, NotYetPrinted
  <2>3. TestsPassed'
    <3>1. CASE NextName
      <4>1. pc' = "filter" /\ window' = {kernel'[cur']}
        BY <3>1 DEF NextName, env
      <4> QED BY <4>1 DEF TestsPassed
    <3>2. CASE Included
      <4>1. /\ pc = "filter" /\ pc' = IF opts.all THEN "drvinfo" ELSE "flags1"
            /\ opts.named = {} \/ cur \in opts.named
            /\ UNCHANGED <<kernel, opts, cur, window>>
        BY <3>2 DEF Included, env, walk
      <4>2. kernel'[cur'] \in window'
        BY <4>1 DEF Provenance, TestsPassed
      <4>3. ~R!Excludes(cur)'
        BY <4>1 DEF R!Excludes
      <4>4. opts.all => R!ShowsDown(cur)'
        BY <4>1 DEF R!ShowsDown
      <4> QED BY <4>1, <4>2, <4>3, <4>4 DEF TestsPassed
    <3> QED BY <1>2, <3>1, <3>2
  <2> QED BY <2>1, <2>2, <2>3, NoBlock DEF Provenance
<1>3. CASE CheckUp
  <2>1. PICK e \in Observable :
          /\ Flags(e) # None /\ (IsUp(e) \/ cur \in opts.named)
          /\ Call("flags1", "drvinfo", e) /\ UNCHANGED <<info, block>>
    BY <1>3 DEF CheckUp
  <2>2. /\ pc = "flags1" /\ pc' = "drvinfo"
        /\ window \subseteq window' /\ e \in window'
        /\ kernel'[cur'] \in window' /\ UNCHANGED <<opts, bus, cur>>
    BY <2>1, CallFacts
  <2>3. block' = NoLines
    BY <2>1, <2>2 DEF Provenance, NotYetPrinted
  <2>4. ~R!Excludes(cur)' /\ (R!ShowsDown(cur)' \/ Running(window'))
    <3>1. ~R!Excludes(cur)
      BY <2>2 DEF Provenance, TestsPassed
    <3>2. ~R!Excludes(cur)'
      BY <2>2, <3>1 DEF R!Excludes
    <3>3. IsUp(e) => Running(window')
      BY <2>1, <2>2, AccessorsTell DEF Running
    <3>4. cur \in opts.named => R!ShowsDown(cur)'
      BY <2>2 DEF R!ShowsDown
    <3> QED BY <2>1, <3>2, <3>3, <3>4
  <2>5. TestsPassed'
    BY <2>2, <2>4 DEF TestsPassed
  <2> QED BY <2>2, <2>3, <2>5, NoBlock DEF Provenance
<1>4. CASE GetInfo
  <2>1. PICK e \in Observable :
          /\ DriverAccepted(EthtoolInfo(e)) /\ Call("drvinfo", "settings", e)
          /\ info' = EthtoolInfo(e)
          /\ block' = [block EXCEPT !.blank = devnum > 0]
    BY <1>4 DEF GetInfo
  <2>2. /\ pc = "drvinfo" /\ pc' = "settings"
        /\ window \subseteq window' /\ e \in window'
        /\ kernel'[cur'] \in window' /\ UNCHANGED <<opts, bus, cur>>
    BY <2>1, CallFacts
  <2>3. block = NoLines
    BY <2>2 DEF Provenance, NotYetPrinted
  <2>4. NotYetPrinted'
    BY <2>1, <2>2, <2>3 DEF NotYetPrinted, NoLines
  <2>5. TestsPassed'
    <3>1. ~R!Excludes(cur) /\ (R!ShowsDown(cur) \/ Running(window))
      BY <2>2 DEF Provenance, TestsPassed
    <3>2. ~R!Excludes(cur)' /\ (R!ShowsDown(cur) => R!ShowsDown(cur)')
      BY <2>2, <3>1 DEF R!Excludes, R!ShowsDown
    <3>3. Running(window) => Running(window')
      BY <2>2, FoundStays
    <3>4. R!Passes(info)'
      BY <2>1, <2>2 DEF R!Passes, DriverAccepted
    <3> QED BY <2>1, <2>2, <3>1, <3>2, <3>3, <3>4 DEF TestsPassed
  <2>6. HeaderFound' /\ TopLinesFound'
    BY <2>2 DEF HeaderFound, TopLinesFound
  <2> QED BY <2>2, <2>4, <2>5, <2>6, NoVerboseYet DEF Provenance
<1>5. CASE \/ AskSettings \/ AskLink \/ PrintLink \/ PrintMac \/ PrintWifi
           \/ PrintRadio \/ PrintFlags \/ PrintMtu \/ PrintMetric \/ PrintInet
           \/ PrintInet6 \/ PrintMap \/ PrintStats \/ PrintQueue \/ PrintPci
  <2>2. CASE AskSettings
    <3>1. PICK e \in Observable :
            /\ Call("settings", IF EthtoolCommand(e) = None THEN "mac"
                                                      ELSE "link1", e)
            /\ UNCHANGED <<info, block>>
      BY <2>2 DEF AskSettings
    <3>2. /\ pc = "settings"
          /\ pc' = IF EthtoolCommand(e) = None THEN "mac" ELSE "link1"
          /\ window \subseteq window' /\ e \in window'
          /\ kernel'[cur'] \in window' /\ UNCHANGED <<opts, bus, cur>>
      BY <3>1, CallFacts
    <3>3. NotYetPrinted'
      BY <3>1, <3>2 DEF Provenance, NotYetPrinted
    <3>4. HeaderFound'
      BY <3>1, <3>2 DEF Provenance, NotYetPrinted, HeaderFound, HeaderHolds
    <3>5. TopLinesFound'
      BY <3>2 DEF TopLinesFound
    <3> QED
      BY <3>1, <3>2, <3>3, <3>4, <3>5, KeptTests, NoVerboseYet DEF Provenance
  <2>3. CASE AskLink
    <3>1. PICK e \in Observable :
            /\ Call("link1", IF EthtoolLink(e) = None THEN "mac" ELSE "link2", e)
            /\ UNCHANGED info
            /\ block' = [block EXCEPT !.bold = EthtoolLink(e)]
      BY <2>3 DEF AskLink
    <3>2. /\ block'.bold = EthtoolLink(e)
          /\ \A line \in Lines \ {"bold"} : block'[line] = block[line]
      BY <3>1, OneLine DEF Lines
    <3>3. /\ pc = "link1" /\ pc' = IF EthtoolLink(e) = None THEN "mac" ELSE "link2"
          /\ window \subseteq window' /\ e \in window'
          /\ kernel'[cur'] \in window' /\ UNCHANGED <<opts, bus, cur>>
      BY <3>1, CallFacts
    <3>4. NotYetPrinted'
      BY <3>2, <3>3 DEF Provenance, NotYetPrinted, Lines
    <3>5. HeaderFound'
      <4>1. /\ \E d \in window' : EthtoolCommand(d) # None
            /\ block'.link = None
        BY <3>2, <3>3 DEF Provenance, NotYetPrinted, HeaderFound, Lines
      <4> QED BY <3>2, <3>3, <4>1 DEF HeaderFound, HeaderHolds
    <3>6. TopLinesFound'
      BY <3>3 DEF TopLinesFound
    <3> QED
      BY <3>1, <3>3, <3>4, <3>5, <3>6, KeptTests, NoVerboseYet DEF Provenance
  <2>4. CASE PrintLink
    <3>1. PICK e \in Observable :
            Call("link2", "mac", e) /\ UNCHANGED info
            /\ block' = [block EXCEPT !.link = EthtoolLink(e)]
      BY <2>4 DEF PrintLink
    <3>2. /\ block'.link = EthtoolLink(e)
          /\ \A line \in Lines \ {"link"} : block'[line] = block[line]
      BY <3>1, OneLine DEF Lines
    <3>3. /\ pc = "link2" /\ pc' = "mac"
          /\ window \subseteq window' /\ e \in window'
          /\ kernel'[cur'] \in window' /\ UNCHANGED <<opts, bus, cur>>
      BY <3>1, CallFacts
    <3>4. NotYetPrinted'
      BY <3>2, <3>3 DEF Provenance, NotYetPrinted, Lines
    <3>5. HeaderFound'
      <4>1. /\ \E d \in window' : EthtoolCommand(d) # None
            /\ block'.bold # None
            /\ \E d \in window' : block'.bold = EthtoolLink(d)
        BY <3>2, <3>3 DEF Provenance, HeaderFound, Lines
      <4> QED BY <3>2, <3>3, <4>1 DEF HeaderFound, HeaderHolds
    <3>6. TopLinesFound'
      BY <3>3 DEF TopLinesFound
    <3> QED
      BY <3>1, <3>3, <3>4, <3>5, <3>6, KeptTests, NoVerboseYet DEF Provenance
  <2>5. CASE PrintMac
    <3>1. PICK e \in Observable :
            Call("mac", "wifi", e) /\ UNCHANGED info
            /\ block' = [block EXCEPT !.mac = Mac(e)]
      BY <2>5 DEF PrintMac
    <3>2. /\ block'.mac = Mac(e)
          /\ \A line \in Lines \ {"mac"} : block'[line] = block[line]
      BY <3>1, OneLine DEF Lines
    <3>3. /\ pc = "mac" /\ pc' = "wifi"
          /\ window \subseteq window' /\ e \in window'
          /\ kernel'[cur'] \in window' /\ UNCHANGED <<opts, bus, cur>>
      BY <3>1, CallFacts
    <3>4. block'.bold = block.bold /\ block'.link = block.link
      BY <3>2 DEF Lines
    <3>5. NotYetPrinted'
      BY <3>2, <3>3 DEF Provenance, NotYetPrinted, Lines
    <3>6. TopLinesFound'
      BY <3>2, <3>3 DEF Provenance, TopLinesFound, Lines
    <3> QED
      BY <3>1, <3>3, <3>4, <3>5, <3>6, KeptTests, KeptHeader, NoVerboseYet
         DEF Provenance
  <2>6. CASE PrintWifi
    <3>1. PICK e \in Observable :
            Call("wifi", "radio", e) /\ UNCHANGED info
            /\ block' = [block EXCEPT !.wifi = WifiInfo(e)]
      BY <2>6 DEF PrintWifi
    <3>2. /\ block'.wifi = WifiInfo(e)
          /\ \A line \in Lines \ {"wifi"} : block'[line] = block[line]
      BY <3>1, OneLine DEF Lines
    <3>3. /\ pc = "wifi" /\ pc' = "radio"
          /\ window \subseteq window' /\ e \in window'
          /\ kernel'[cur'] \in window' /\ UNCHANGED <<opts, bus, cur>>
      BY <3>1, CallFacts
    <3>4. block'.bold = block.bold /\ block'.link = block.link
      BY <3>2 DEF Lines
    <3>5. NotYetPrinted'
      BY <3>2, <3>3 DEF Provenance, NotYetPrinted, Lines
    <3>6. TopLinesFound'
      BY <3>2, <3>3 DEF Provenance, TopLinesFound, Lines
    <3> QED
      BY <3>1, <3>3, <3>4, <3>5, <3>6, KeptTests, KeptHeader, NoVerboseYet
         DEF Provenance
  <2>7. CASE PrintRadio
    <3>1. PICK e \in Observable :
            Call("radio", "flags2", e) /\ UNCHANGED info
            /\ block' = [block EXCEPT !.radio = WirelessStatus(e)]
      BY <2>7 DEF PrintRadio
    <3>2. /\ block'.radio = WirelessStatus(e)
          /\ \A line \in Lines \ {"radio"} : block'[line] = block[line]
      BY <3>1, OneLine DEF Lines
    <3>3. /\ pc = "radio" /\ pc' = "flags2"
          /\ window \subseteq window' /\ e \in window'
          /\ kernel'[cur'] \in window' /\ UNCHANGED <<opts, bus, cur>>
      BY <3>1, CallFacts
    <3>4. block'.bold = block.bold /\ block'.link = block.link
      BY <3>2 DEF Lines
    <3>5. NotYetPrinted'
      BY <3>2, <3>3 DEF Provenance, NotYetPrinted, Lines
    <3>6. TopLinesFound'
      BY <3>2, <3>3 DEF Provenance, TopLinesFound, Lines
    <3> QED
      BY <3>1, <3>3, <3>4, <3>5, <3>6, KeptTests, KeptHeader, NoVerboseYet
         DEF Provenance
  <2>8. CASE PrintFlags
    <3>1. PICK e \in Observable :
            Call("flags2", IF FlagsStr(e) = None THEN "inet" ELSE "mtu", e)
            /\ UNCHANGED info
            /\ block' = [block EXCEPT !.flags = FlagsStr(e)]
      BY <2>8 DEF PrintFlags
    <3>2. /\ block'.flags = FlagsStr(e)
          /\ \A line \in Lines \ {"flags"} : block'[line] = block[line]
      BY <3>1, OneLine DEF Lines
    <3>3. /\ pc = "flags2" /\ pc' = IF FlagsStr(e) = None THEN "inet" ELSE "mtu"
          /\ window \subseteq window' /\ e \in window'
          /\ kernel'[cur'] \in window' /\ UNCHANGED <<opts, bus, cur>>
      BY <3>1, CallFacts
    <3>4. block'.bold = block.bold /\ block'.link = block.link
      BY <3>2 DEF Lines
    <3>5. NotYetPrinted'
      BY <3>2, <3>3 DEF Provenance, NotYetPrinted, Lines
    <3>6. TopLinesFound'
      <4>1. /\ \E d \in window' : block'.mac = Mac(d)
            /\ \E d \in window' : block'.wifi = WifiInfo(d)
            /\ \E d \in window' : block'.radio = WirelessStatus(d)
            /\ block'.mtu = None /\ block'.metric = None
        BY <3>2, <3>3 DEF Provenance, NotYetPrinted, TopLinesFound, Lines
      <4>2. pc' = "inet" => FlagsLineHolds(block', window')
        BY <3>2, <3>3, <4>1 DEF FlagsLineHolds
      <4> QED BY <3>2, <3>3, <4>1, <4>2 DEF TopLinesFound
    <3> QED
      BY <3>1, <3>3, <3>4, <3>5, <3>6, KeptTests, KeptHeader, NoVerboseYet
         DEF Provenance
  <2>9. CASE PrintMtu
    <3>1. PICK e \in Observable :
            Call("mtu", IF Mtu(e) = None THEN "inet" ELSE "metric", e)
            /\ UNCHANGED info
            /\ block' = [block EXCEPT !.mtu = Mtu(e)]
      BY <2>9 DEF PrintMtu
    <3>2. /\ block'.mtu = Mtu(e)
          /\ \A line \in Lines \ {"mtu"} : block'[line] = block[line]
      BY <3>1, OneLine DEF Lines
    <3>3. /\ pc = "mtu" /\ pc' = IF Mtu(e) = None THEN "inet" ELSE "metric"
          /\ window \subseteq window' /\ e \in window'
          /\ kernel'[cur'] \in window' /\ UNCHANGED <<opts, bus, cur>>
      BY <3>1, CallFacts
    <3>4. block'.bold = block.bold /\ block'.link = block.link
      BY <3>2 DEF Lines
    <3>5. NotYetPrinted'
      BY <3>2, <3>3 DEF Provenance, NotYetPrinted, Lines
    <3>6. TopLinesFound'
      <4>1. /\ \E d \in window' : block'.mac = Mac(d)
            /\ \E d \in window' : block'.wifi = WifiInfo(d)
            /\ \E d \in window' : block'.radio = WirelessStatus(d)
            /\ block'.flags # None
            /\ \E d \in window' : block'.flags = FlagsStr(d)
            /\ block'.metric = None
        BY <3>2, <3>3 DEF Provenance, NotYetPrinted, TopLinesFound, Lines
      <4>2. pc' = "inet" => FlagsLineHolds(block', window')
        BY <3>2, <3>3, <4>1 DEF FlagsLineHolds
      <4> QED BY <3>2, <3>3, <4>1, <4>2 DEF TopLinesFound
    <3> QED
      BY <3>1, <3>3, <3>4, <3>5, <3>6, KeptTests, KeptHeader, NoVerboseYet
         DEF Provenance
  <2>10. CASE PrintMetric
    <3>1. PICK e \in Observable :
            Call("metric", "inet", e) /\ UNCHANGED info
            /\ block' = [block EXCEPT !.metric = Metric(e)]
      BY <2>10 DEF PrintMetric
    <3>2. /\ block'.metric = Metric(e)
          /\ \A line \in Lines \ {"metric"} : block'[line] = block[line]
      BY <3>1, OneLine DEF Lines
    <3>3. /\ pc = "metric" /\ pc' = "inet"
          /\ window \subseteq window' /\ e \in window'
          /\ kernel'[cur'] \in window' /\ UNCHANGED <<opts, bus, cur>>
      BY <3>1, CallFacts
    <3>4. block'.bold = block.bold /\ block'.link = block.link
      BY <3>2 DEF Lines
    <3>5. NotYetPrinted'
      BY <3>2, <3>3 DEF Provenance, NotYetPrinted, Lines
    <3>6. TopLinesFound'
      BY <3>2, <3>3 DEF Provenance, TopLinesFound, Lines, FlagsLineHolds
    <3> QED
      BY <3>1, <3>3, <3>4, <3>5, <3>6, KeptTests, KeptHeader, NoVerboseYet
         DEF Provenance
  <2>11. CASE PrintInet
    <3>1. PICK e \in Observable :
            Call("inet", "inet6", e) /\ UNCHANGED info
            /\ block' = [block EXCEPT !.v4 = InetAddr(e)]
      BY <2>11 DEF PrintInet
    <3>2. /\ block'.v4 = InetAddr(e)
          /\ \A line \in Lines \ {"v4"} : block'[line] = block[line]
      BY <3>1, OneLine DEF Lines
    <3>3. /\ pc = "inet" /\ pc' = "inet6"
          /\ window \subseteq window' /\ e \in window'
          /\ kernel'[cur'] \in window' /\ UNCHANGED <<opts, bus, cur>>
      BY <3>1, CallFacts
    <3>4. block'.bold = block.bold /\ block'.link = block.link
      BY <3>2 DEF Lines
    <3>5. NotYetPrinted'
      BY <3>2, <3>3 DEF Provenance, NotYetPrinted, Lines
    <3>6. TopLinesFound'
      <4>1. /\ \E d \in window' : block'.mac = Mac(d)
            /\ \E d \in window' : block'.wifi = WifiInfo(d)
            /\ \E d \in window' : block'.radio = WirelessStatus(d)
        BY <3>2, <3>3 DEF Provenance, TopLinesFound, Lines
      <4>2. FlagsLineHolds(block, window')
        BY <3>3, FoundStays DEF Provenance, TopLinesFound
      <4>3. FlagsLineHolds(block', window')
        BY <3>2, <4>2 DEF FlagsLineHolds, Lines
      <4> QED BY <3>2, <3>3, <4>1, <4>3 DEF TopLinesFound
    <3> QED
      BY <3>1, <3>3, <3>4, <3>5, <3>6, KeptTests, KeptHeader, NoVerboseYet
         DEF Provenance
  <2>12. CASE PrintInet6
    <3>1. PICK e \in Observable :
            Call("inet6", IF opts.verbose THEN "map" ELSE "driver", e)
            /\ UNCHANGED info /\ block' = [block EXCEPT !.v6 = Inet6Addr(e)]
      BY <2>12 DEF PrintInet6
    <3>2. /\ block'.v6 = Inet6Addr(e)
          /\ \A line \in Lines \ {"v6"} : block'[line] = block[line]
      BY <3>1, OneLine DEF Lines
    <3>3. /\ pc = "inet6" /\ pc' = IF opts.verbose THEN "map" ELSE "driver"
          /\ window \subseteq window' /\ e \in window'
          /\ kernel'[cur'] \in window' /\ UNCHANGED <<opts, bus, cur>>
      BY <3>1, CallFacts
    <3>4. block'.bold = block.bold /\ block'.link = block.link
      BY <3>2 DEF Lines
    <3>5. NotYetPrinted'
      BY <3>2, <3>3 DEF Provenance, NotYetPrinted, Lines
    <3>6. TopLinesFound'
      <4>1. FlagsLineHolds(block, window')
        BY <3>3, FoundStays DEF Provenance, TopLinesFound
      <4>2. FlagsLineHolds(block', window')
        BY <3>2, <4>1 DEF FlagsLineHolds, Lines
      <4> QED BY <3>2, <3>3, <4>2 DEF Provenance, TopLinesFound, Lines
    <3>7. VerboseLinesFound' /\ CardFound'
      <4>1. CASE opts.verbose
        BY <3>3, <4>1 DEF VerboseLinesFound, CardFound
      <4>2. CASE ~opts.verbose
        <5>1. /\ block'.irq = None /\ block'.stats = None
              /\ block'.queue = None /\ block'.pci = None
          BY <3>2, <3>3 DEF Provenance, NotYetPrinted, Lines
        <5> QED
          BY <3>3, <4>2, <5>1 DEF VerboseLinesFound, VerboseLinesHold, CardFound
      <4> QED BY <4>1, <4>2
    <3> QED
      BY <3>1, <3>3, <3>4, <3>5, <3>6, <3>7, KeptTests, KeptHeader
         DEF Provenance
  <2>13. CASE PrintMap
    <3>1. PICK e \in Observable :
            Call("map", "stats", e) /\ UNCHANGED info
            /\ \E cpus : block' = [block EXCEPT !.irq = MapIrq(e), !.cpus = cpus]
      BY <2>13 DEF PrintMap
    <3>2. /\ block'.irq = MapIrq(e)
          /\ \A line \in Lines \ {"irq", "cpus"} : block'[line] = block[line]
      BY <3>1 DEF Lines, TypeOK, BlockType
    <3>3. /\ pc = "map" /\ pc' = "stats"
          /\ window \subseteq window' /\ e \in window'
          /\ kernel'[cur'] \in window' /\ UNCHANGED <<opts, bus, cur>>
      BY <3>1, CallFacts
    <3>4. /\ block'.bold = block.bold /\ block'.link = block.link
          /\ \A line \in {"mac", "wifi", "radio", "flags", "mtu", "metric",
                          "v4", "v6"} : block'[line] = block[line]
      BY <3>2 DEF Lines
    <3>5. NotYetPrinted'
      BY <3>2, <3>3 DEF Provenance, NotYetPrinted, Lines
    <3>6. VerboseLinesFound' /\ CardFound'
      BY <3>2, <3>3 DEF Provenance, VerboseLinesFound, CardFound
    <3> QED
      BY <3>1, <3>3, <3>4, <3>5, <3>6, KeptTests, KeptHeader, KeptTop
         DEF Provenance
  <2>14. CASE PrintStats
    <3>1. PICK e \in Observable : \E s \in GetStats(e) :
            Call("stats", IF s = None THEN "pci" ELSE "queue", e)
            /\ UNCHANGED info /\ block' = [block EXCEPT !.stats = s]
      BY <2>14 DEF PrintStats
    <3>2. PICK s \in GetStats(e) :
            Call("stats", IF s = None THEN "pci" ELSE "queue", e)
            /\ UNCHANGED info /\ block' = [block EXCEPT !.stats = s]
      BY <3>1
    <3>3. /\ block'.stats = s
          /\ \A line \in Lines \ {"stats"} : block'[line] = block[line]
      BY <3>2, OneLine DEF Lines
    <3>4. /\ pc = "stats" /\ pc' = IF s = None THEN "pci" ELSE "queue"
          /\ window \subseteq window' /\ e \in window'
          /\ kernel'[cur'] \in window' /\ UNCHANGED <<opts, bus, cur>>
      BY <3>2, CallFacts
    <3>5. /\ block'.bold = block.bold /\ block'.link = block.link
          /\ \A line \in {"mac", "wifi", "radio", "flags", "mtu", "metric",
                          "v4", "v6"} : block'[line] = block[line]
      BY <3>3 DEF Lines
    <3>6. NotYetPrinted'
      BY <3>3, <3>4 DEF Provenance, NotYetPrinted, Lines
    <3>7. VerboseLinesFound' /\ CardFound'
      <4>1. /\ opts'.verbose /\ block'.irq = block.irq /\ block'.queue = None
            /\ \E d \in window' : block.irq = MapIrq(d)
        BY <3>3, <3>4 DEF Provenance, NotYetPrinted, VerboseLinesFound, Lines
      <4>2. pc' = "pci" => VerboseLinesHold(block, window)'
        BY <3>3, <3>4, <4>1 DEF VerboseLinesHold, StatsLineHolds
      <4> QED BY <3>3, <3>4, <4>1, <4>2 DEF VerboseLinesFound, CardFound
    <3> QED
      BY <3>2, <3>4, <3>5, <3>6, <3>7, KeptTests, KeptHeader, KeptTop
         DEF Provenance
  <2>15. CASE PrintQueue
    <3>1. PICK e \in Observable :
            Call("queue", "pci", e) /\ UNCHANGED info
            /\ block' = [block EXCEPT !.queue = TxQueueLen(e)]
      BY <2>15 DEF PrintQueue
    <3>2. /\ block'.queue = TxQueueLen(e)
          /\ \A line \in Lines \ {"queue"} : block'[line] = block[line]
      BY <3>1, OneLine DEF Lines
    <3>3. /\ pc = "queue" /\ pc' = "pci"
          /\ window \subseteq window' /\ e \in window'
          /\ kernel'[cur'] \in window' /\ UNCHANGED <<opts, bus, cur>>
      BY <3>1, CallFacts
    <3>4. /\ block'.bold = block.bold /\ block'.link = block.link
          /\ \A line \in {"mac", "wifi", "radio", "flags", "mtu", "metric",
                          "v4", "v6"} : block'[line] = block[line]
      BY <3>2 DEF Lines
    <3>5. NotYetPrinted'
      BY <3>2, <3>3 DEF Provenance, NotYetPrinted, Lines
    <3>6. VerboseLinesFound' /\ CardFound'
      <4>1. /\ opts'.verbose /\ block'.irq = block.irq
            /\ block'.stats = block.stats
            /\ \E d \in window' : block.irq = MapIrq(d)
            /\ block.stats # None
            /\ \E d \in window' : block.stats \in GetStats(d)
        BY <3>2, <3>3 DEF Provenance, VerboseLinesFound, Lines
      <4>2. VerboseLinesHold(block, window)'
        BY <3>2, <3>3, <4>1 DEF VerboseLinesHold, StatsLineHolds
      <4> QED BY <3>3, <4>1, <4>2 DEF VerboseLinesFound, CardFound
    <3> QED
      BY <3>1, <3>3, <3>4, <3>5, <3>6, KeptTests, KeptHeader, KeptTop
         DEF Provenance
  <2>16. CASE PrintPci
    <3>1. /\ pc = "pci" /\ pc' = "driver"
          /\ filter' = IF info = None THEN filter ELSE FilterAfter(info.bus)
          /\ block' = IF info # None /\ Parses(info.bus)
                      THEN [block EXCEPT !.pci = FirstMatch(filter')]
                      ELSE block
          /\ UNCHANGED <<kernel, bus, opts, cur, info, window>>
      BY <2>16 DEF PrintPci, env, walk
    <3>2. /\ info # None /\ Parses(info.bus) =>
               block'.pci = FirstMatch(filter')
          /\ \A line \in Lines \ {"pci"} : block'[line] = block[line]
      BY <3>1, OneLine DEF Lines
    <3>3. kernel'[cur'] \in window' /\ window \subseteq window'
      BY <3>1 DEF Provenance, TestsPassed
    <3>4. /\ block'.bold = block.bold /\ block'.link = block.link
          /\ \A line \in {"mac", "wifi", "radio", "flags", "mtu", "metric",
                          "v4", "v6"} : block'[line] = block[line]
      BY <3>2 DEF Lines
    <3>5. NotYetPrinted'
      BY <3>1, <3>2 DEF Provenance, NotYetPrinted, Lines
    <3>6. VerboseLinesFound'
      <4>1. opts.verbose /\ VerboseLinesHold(block, window)
        BY <3>1 DEF Provenance, VerboseLinesFound
      <4>2. /\ opts'.verbose /\ block'.irq = block.irq
            /\ block'.stats = block.stats /\ block'.queue = block.queue
        BY <3>1, <3>2, <4>1 DEF Lines
      <4>3. VerboseLinesHold(block, window)'
        BY <3>1, <4>1, <4>2 DEF VerboseLinesHold, StatsLineHolds
      <4> QED BY <3>1, <4>2, <4>3 DEF VerboseLinesFound
    <3>7. CardFound'
      <4>1. SUFFICES ASSUME info # None, info.bus \in Slots
                     PROVE  block'.pci = bus[info.bus]
        BY <3>1 DEF CardFound
      <4>2. filter' = info.bus /\ Parses(info.bus)
        BY <3>1, <4>1 DEF FilterAfter, Parses
      <4>3. filter' # AnySlot
        BY <4>1, <4>2, NothingAssumption DEF AnySlot, BusNames
      <4>4. FirstMatch(filter') = bus[info.bus]
        BY <4>2, <4>3 DEF FirstMatch
      <4> QED BY <3>2, <4>1, <4>2, <4>4
    <3> QED
      BY <3>1, <3>3, <3>4, <3>5, <3>6, <3>7, KeptTests, KeptHeader, KeptTop
         DEF Provenance
  <2> QED
    BY <1>5, <2>2, <2>3, <2>4, <2>5, <2>6, <2>7, <2>8, <2>9, <2>10, <2>11,
       <2>12, <2>13, <2>14, <2>15, <2>16
<1>6. CASE \E n \in Names, e \in Observable : KernelChanges(n, e)
  <2>1. PICK n \in Names, e \in Observable : KernelChanges(n, e)
    BY <1>6
  <2>2. /\ UNCHANGED <<pc, block, info, opts, bus, cur>>
        /\ window \subseteq window'
    BY <2>1 DEF KernelChanges, walk
  <2>3. pc \in TurnPoints => kernel'[cur'] \in window'
    <3>1. SUFFICES ASSUME pc \in TurnPoints PROVE kernel'[cur] \in window'
      BY <2>2
    <3>2. kernel[cur] \in window
      BY <3>1 DEF Provenance, TestsPassed
    <3>3. CASE n = cur
      BY <2>1, <3>3 DEF KernelChanges, TypeOK
    <3>4. CASE n # cur
      BY <2>1, <2>2, <3>2, <3>4 DEF KernelChanges, TypeOK
    <3> QED BY <3>3, <3>4
  <2> HIDE DEF TurnPoints
  <2> QED BY <2>2, <2>3, KeptProvenance
<1>7. CASE UNCHANGED vars
  <2>1. /\ UNCHANGED <<pc, block, info, opts, bus, cur, window, kernel>>
    BY <1>7 DEF vars
  <2>2. pc \in TurnPoints => kernel'[cur'] \in window'
    BY <2>1 DEF Provenance, TestsPassed
  <2> QED BY <2>1, <2>2, KeptProvenance
<1> QED
  BY <1>1, <1>2, <1>3, <1>4, <1>5, <1>6, <1>7 DEF Next, Program, Exited

(***************************************************************************)
(* Each line of the block under way, and each test it has passed, goes     *)
(* back to something that was found in this turn.                          *)
(***************************************************************************)
THEOREM ProvenanceCorrect == Spec => []Provenance
<1>1. TypeOK /\ Framing /\ Provenance /\ [Next]_vars => Provenance'
  BY ProvenanceNext
<1> QED BY <1>1, ProvenanceInit, FramingCorrect, PTL DEF Spec
-----------------------------------------------------------------------------
(***************************************************************************)
(* The turns that were taken.                                              *)
(***************************************************************************)

\* What a failing test says of the turn that it ends.
LEMMA SkippedAdmissible ==
  ASSUME TypeOK, Provenance, Excluded \/ SkipDown \/ FlagsThrow \/ SkipDriver
  PROVE  \E o, lines, seen :
           /\ EndTurn(o, lines, seen) /\ UNCHANGED bus
           /\ Admissible([name |-> cur, outcome |-> o, window |-> seen,
                          block |-> lines])
<1> USE DEF TurnPoints, FromFlags1, FromDrvinfo
<1>1. \A e : Finds(e) => UNCHANGED bus
  BY DEF Finds, SocketThrows, Fault, env
<1>2. CASE Excluded
  <2>1. Admissible([name |-> cur, outcome |-> "excluded", window |-> window,
                    block |-> NoLines])
    BY <1>2 DEF Excluded, Admissible, R!Excludes
  <2> QED BY <1>2, <2>1 DEF Excluded, env
<1>3. CASE SkipDown
  <2>1. PICK e \in Observable :
          /\ pc = "flags1" /\ Flags(e) # None /\ ~IsUp(e) /\ cur \notin opts.named
          /\ Finds(e) /\ EndTurn("down", NoLines, window \cup {e})
    BY <1>3 DEF SkipDown
  <2>2. /\ ~R!Excludes(cur) /\ ~R!ShowsDown(cur)
        /\ e # Absent /\ ~R!Running(e)
    BY <2>1, AccessorsTell DEF Provenance, TestsPassed, R!ShowsDown
  <2>3. Admissible([name |-> cur, outcome |-> "down",
                    window |-> window \cup {e}, block |-> NoLines])
    BY <2>2 DEF Admissible
  <2> QED BY <1>1, <2>1, <2>3
<1>4. CASE FlagsThrow
  <2>1. PICK e \in Observable :
          /\ pc = "flags1" /\ Flags(e) = None
          /\ Finds(e) /\ EndTurn("thrown", NoLines, window \cup {e})
    BY <1>4 DEF FlagsThrow
  <2>2. ~R!Excludes(cur) /\ ~opts.all /\ e = Absent
    BY <2>1, AccessorsTell DEF Provenance, TestsPassed
  <2>3. Admissible([name |-> cur, outcome |-> "thrown",
                    window |-> window \cup {e}, block |-> NoLines])
    BY <2>2 DEF Admissible
  <2> QED BY <1>1, <2>1, <2>3
<1>5. CASE SkipDriver
  <2>1. PICK e \in Observable :
          /\ pc = "drvinfo" /\ ~DriverAccepted(EthtoolInfo(e))
          /\ Finds(e) /\ EndTurn("otherdriver", NoLines, window \cup {e})
    BY <1>5 DEF SkipDriver
  <2>2. /\ ~R!Excludes(cur) /\ ~R!Passes(R!DriverOf(e))
        /\ R!ShowsDown(cur) \/ Running(window \cup {e})
    BY <2>1, AccessorsTell, FilterAgrees, FoundStays DEF Provenance, TestsPassed
  <2>3. Admissible([name |-> cur, outcome |-> "otherdriver",
                    window |-> window \cup {e}, block |-> NoLines])
    BY <2>2 DEF Admissible
  <2> QED BY <1>1, <2>1, <2>3
<1> QED BY <1>2, <1>3, <1>4, <1>5

\* A block that is cut short is of an interface that the command line asks for,
\* and has the lines above the addresses.
LEMMA CutAdmissible ==
  ASSUME TypeOK, Provenance, InetThrows
  PROVE  /\ EndTurn("cut", block, window \cup {Absent}) /\ UNCHANGED bus
         /\ Admissible([name |-> cur, outcome |-> "cut",
                        window |-> window \cup {Absent}, block |-> block])
<1> USE DEF TurnPoints, FromFlags1, FromDrvinfo, FromSettings, FromMac,
            FromWifi, FromRadio, FromFlags2, FromMtu, FromInet, FromInet6,
            FromMap, FromPci
<1> DEFINE W == window \cup {Absent}
<1>1. /\ pc = "inet" /\ EndTurn("cut", block, W)
      /\ UNCHANGED bus
  BY DEF InetThrows, Fault
<1>2. ~R!Excludes(cur) /\ (R!ShowsDown(cur) \/ Running(W))
  BY <1>1, FoundStays DEF Provenance, TestsPassed
<1>3. TopLinesHold(block, W)
  <2>1. HeaderHolds(block, W) /\ FlagsLineHolds(block, W)
    BY <1>1, FoundStays DEF Provenance, HeaderFound, TopLinesFound
  <2>2. /\ \E e \in W : block.mac = Mac(e)
        /\ \E e \in W : block.wifi = WifiInfo(e)
        /\ \E e \in W : block.radio = WirelessStatus(e)
    BY <1>1 DEF Provenance, TopLinesFound
  <2> QED BY <2>1, <2>2 DEF TopLinesHold
<1>4. block.v4 = None
  BY <1>1 DEF Provenance, NotYetPrinted
<1>5. Admissible([name |-> cur, outcome |-> "cut", window |-> W,
                  block |-> block])
  BY <1>2, <1>3, <1>4 DEF Admissible
<1> QED BY <1>1, <1>5

\* So is a block that is shown, and it has every line.
LEMMA ShownAdmissible ==
  ASSUME TypeOK, Provenance, PrintDriver
  PROVE  /\ EndTurn("shown", WithDriverLines, window) /\ UNCHANGED bus
         /\ Admissible([name |-> cur, outcome |-> "shown", window |-> window,
                        block |-> WithDriverLines])
<1> USE DEF TurnPoints, FromFlags1, FromDrvinfo, FromSettings, FromMac,
            FromWifi, FromRadio, FromFlags2, FromMtu, FromInet, FromInet6,
            FromMap, FromPci
<1> DEFINE l == WithDriverLines
<1>1. /\ pc = "driver" /\ EndTurn("shown", l, window) /\ UNCHANGED bus
  BY DEF PrintDriver, env
<1>2. /\ \A line \in Lines \ {"driver", "bus"} : l[line] = block[line]
      /\ l.driver = IF info = None THEN None ELSE info.driver
      /\ l.bus = IF info = None \/ info.bus = NoBus THEN None ELSE info.bus
  <2>1. block.driver = None /\ block.bus = None
    BY <1>1 DEF Provenance, NotYetPrinted
  <2> QED BY <2>1 DEF WithDriverLines, Lines, TypeOK, BlockType
<1> HIDE DEF l
<1>3. ~R!Excludes(cur) /\ (R!ShowsDown(cur) \/ Running(window))
  BY <1>1 DEF Provenance, TestsPassed
<1>4. TopLinesHold(l, window)
  <2>1. HeaderHolds(block, window) /\ FlagsLineHolds(block, window)
    BY <1>1 DEF Provenance, HeaderFound, TopLinesFound
  <2>2. HeaderHolds(l, window)
    BY <1>2, <2>1 DEF HeaderHolds, Lines
  <2>3. FlagsLineHolds(l, window)
    BY <1>2, <2>1 DEF FlagsLineHolds, Lines
  <2>4. /\ \E e \in window : l.mac = Mac(e)
        /\ \E e \in window : l.wifi = WifiInfo(e)
        /\ \E e \in window : l.radio = WirelessStatus(e)
    BY <1>1, <1>2 DEF Provenance, TopLinesFound, Lines
  <2> QED BY <2>2, <2>3, <2>4 DEF TopLinesHold
<1>5. /\ \E e \in window : l.v4 = InetAddr(e)
      /\ \E e \in window : l.v6 = Inet6Addr(e)
  BY <1>1, <1>2 DEF Provenance, TopLinesFound, Lines
<1>6. VerboseLinesHold(l, window)
  <2>1. VerboseLinesHold(block, window)
    BY <1>1 DEF Provenance, VerboseLinesFound
  <2>2. /\ l.irq = block.irq /\ l.stats = block.stats
        /\ l.queue = block.queue /\ l.pci = block.pci
    BY <1>2 DEF Lines
  <2> QED BY <2>1, <2>2 DEF VerboseLinesHold, StatsLineHolds
<1>7. DriverLinesHold(l, window)
  <2>1. PICK e \in window : info = EthtoolInfo(e) /\ R!Passes(info)
    BY <1>1 DEF Provenance, TestsPassed
  <2>2. l.pci = block.pci
    BY <1>2 DEF Lines
  <2>3. opts.verbose /\ l.bus \in Slots => l.pci = bus[l.bus]
    <3>1. SUFFICES ASSUME opts.verbose, l.bus \in Slots
                   PROVE  l.pci = bus[l.bus]
      OBVIOUS
    <3>2. l.bus # None
      BY <3>1, NothingAssumption DEF BusNames
    <3>3. info # None /\ l.bus = info.bus
      BY <1>2, <3>2
    <3> QED BY <1>1, <2>2, <3>1, <3>3 DEF Provenance, CardFound
  <2> QED BY <1>2, <2>1, <2>3 DEF DriverLinesHold
<1>8. Admissible([name |-> cur, outcome |-> "shown", window |-> window,
                  block |-> l])
  BY <1>3, <1>4, <1>5, <1>6, <1>7 DEF Admissible
<1> QED BY <1>1, <1>8 DEF l

LEMMA AdmissibleNext ==
  TypeOK /\ Provenance /\ TurnsAdmissible /\ [Next]_vars => TurnsAdmissible'
<1> SUFFICES ASSUME TypeOK, Provenance, TurnsAdmissible, [Next]_vars
             PROVE  TurnsAdmissible'
  OBVIOUS
<1>1. CASE \/ Excluded \/ SkipDown \/ FlagsThrow \/ SkipDriver \/ InetThrows
           \/ PrintDriver
  <2>1. PICK o, lines, seen :
          /\ EndTurn(o, lines, seen) /\ UNCHANGED bus
          /\ Admissible([name |-> cur, outcome |-> o, window |-> seen,
                         block |-> lines])
    BY <1>1, SkippedAdmissible, CutAdmissible, ShownAdmissible
  <2> DEFINE t == [name |-> cur, outcome |-> o, window |-> seen,
                   block |-> lines]
  <2>2. /\ Len(turns) \in Nat /\ Len(turns') = Len(turns) + 1
        /\ \A i \in 1 .. Len(turns) : turns'[i] = turns[i]
        /\ turns'[Len(turns) + 1] = t
    BY <2>1, EndTurnAppends
  <2>3. Admissible(t)
    BY <2>1
  <2> HIDE DEF t
  <2>4. \A i \in 1 .. Len(turns') : Admissible(turns'[i])
    <3>1. \A i \in 1 .. Len(turns') : i \in 1 .. Len(turns) \/ i = Len(turns) + 1
      BY <2>2
    <3> QED BY <2>2, <2>3, <3>1 DEF TurnsAdmissible, TurnIndices
  <2>5. UNCHANGED <<opts, bus>>
    BY <2>1 DEF EndTurn
  <2>6. \A u : Admissible(u)' <=> Admissible(u)
    BY <2>5, PromiseStable
  <2>7. ASSUME NEW i \in 1 .. Len(turns') PROVE Admissible(turns[i])'
    BY <2>4, <2>6
  <2> QED BY <2>7 DEF TurnsAdmissible, TurnIndices
<1>2. CASE ~(\/ Excluded \/ SkipDown \/ FlagsThrow \/ SkipDriver \/ InetThrows
             \/ PrintDriver)
  <2>1. UNCHANGED <<opts, bus, turns>>
    BY <1>2
       DEF Next, Program, Exited, ListForWidth, ListNames, NextName, Included,
           CheckUp, GetInfo, AskSettings, AskLink, PrintLink, PrintMac,
           PrintWifi, PrintRadio, PrintFlags, PrintMtu, PrintMetric,
           PrintInet, InetCrashes, PrintInet6, PrintMap, PrintStats,
           PrintQueue, PrintPci, Finish, KernelChanges, Call, Finds,
           SocketThrows, Fault, env, walk, vars
  <2>2. \A u : Admissible(u)' <=> Admissible(u)
    BY <2>1, PromiseStable
  <2>3. TurnIndices' = TurnIndices
    BY <2>1 DEF TurnIndices
  <2>4. ASSUME NEW i \in TurnIndices PROVE Admissible(turns[i])'
    <3>1. Admissible(turns[i]) /\ turns'[i] = turns[i]
      BY <2>1 DEF TurnsAdmissible
    <3> QED BY <2>2, <3>1
  <2> QED BY <2>3, <2>4 DEF TurnsAdmissible
<1> QED BY <1>1, <1>2

(***************************************************************************)
(* Whatever the kernel does and whichever calls throw, a turn's outcome    *)
(* has a reason true in the turn; each line of a block was found in it,    *)
(* and is missing only behind a call that failed; the PCI lines of an      *)
(* interface in a slot are those of its slot, whatever the filter was; and *)
(* only a failed getifaddrs cuts a block short.                            *)
(***************************************************************************)
THEOREM TurnsAdmissibleCorrect == Spec => []TurnsAdmissible
<1>1. Init => TurnsAdmissible
  BY DEF Init, TurnsAdmissible, TurnIndices
<1>2. TypeOK /\ Provenance /\ TurnsAdmissible /\ [Next]_vars
        => TurnsAdmissible'
  BY AdmissibleNext
<1> QED BY <1>1, <1>2, TypeCorrect, ProvenanceCorrect, PTL DEF Spec

\* An admissible turn that saw one state of an interface is exact about it.
LEMMA OneStateAgrees ==
  ASSUME NEW t, NEW e \in Ifaces, Admissible(t), t.window = {e}
  PROVE  /\ t.outcome = R!Verdict(t.name, e)
         /\ t.outcome = "shown" =>
              /\ \A line \in PlainLines : t.block[line] = R!Tells(e)[line]
              /\ LinkAgrees(t.block, e) /\ FlagsAgree(t.block, e) /\ DriverAgrees(t.block, e)
              /\ CardAgrees(t.block) /\ CountersAgree(t.block, e)
<1>1. e # Absent /\ Absent \notin t.window /\ e \in Observable
  BY KernelAssumption DEF Observable
<1>2. R!DriverOf(e) = EthtoolInfo(e)
  BY <1>1, AccessorsTell
<1>3. t.outcome = R!Verdict(t.name, e)
  <2>1. Running({e}) <=> R!Running(e)
    BY DEF Running
  <2>2. t.outcome = "shown" => R!Passes(R!DriverOf(e))
    BY <1>1, <1>2 DEF Admissible, DriverLinesHold
  <2> QED BY <1>1, <2>1, <2>2 DEF Admissible, R!Verdict
<1>4. ASSUME t.outcome = "shown"
      PROVE  /\ \A line \in PlainLines : t.block[line] = R!Tells(e)[line]
             /\ LinkAgrees(t.block, e) /\ FlagsAgree(t.block, e) /\ DriverAgrees(t.block, e)
             /\ CardAgrees(t.block) /\ CountersAgree(t.block, e)
  <2> DEFINE l == t.block
  <2>1. /\ HeaderHolds(l, {e}) /\ FlagsLineHolds(l, {e}) /\ l.mac = Mac(e)
        /\ l.v4 = InetAddr(e) /\ l.v6 = Inet6Addr(e)
        /\ VerboseLinesHold(l, {e}) /\ DriverLinesHold(l, {e})
    BY <1>4 DEF Admissible, TopLinesHold
  <2> HIDE DEF l
  <2>2. FlagsStr(e) # None /\ Mtu(e) # None
    <3>1. e.mtu \in Nat
      BY <1>1, StateType
    <3> QED BY <1>1, <3>1, AnswerAssumption, NothingAssumption DEF Mtu
  <2>3. l.flags = FlagsStr(e) /\ l.mtu = Mtu(e) /\ l.metric = Metric(e)
    BY <2>1, <2>2 DEF FlagsLineHolds
  <2>4. \A line \in PlainLines : l[line] = R!Tells(e)[line]
    <3>1. /\ l.mac = R!Tells(e).mac /\ l.v4 = R!Tells(e).v4
          /\ l.v6 = R!Tells(e).v6 /\ l.mtu = R!Tells(e).mtu
          /\ l.metric = R!Tells(e).metric
      BY <1>1, <2>1, <2>3
         DEF R!Tells, Mac, InetAddr, Inet6Addr, Mtu, Metric
    <3> QED BY <3>1 DEF PlainLines
  <2>5. LinkAgrees(l, e)
    <3>1. /\ EthtoolCommand(e) = None <=> ~e.settings
          /\ EthtoolLink(e) = IF e.link = None THEN None
                              ELSE IF e.link = 0 THEN "no" ELSE "yes"
      BY <1>1, AnswerAssumption DEF EthtoolCommand, EthtoolLink
    <3>2. R!Tells(e).link = IF e.link = 0 \/ e.link = None THEN "NO LINK" ELSE "LINK UP"
      BY <1>1 DEF R!Tells
    <3>3. IF ~e.settings THEN l.bold = None /\ l.link = None
          ELSE l.bold = EthtoolLink(e) /\ l.link = EthtoolLink(e)
      BY <2>1, <3>1 DEF HeaderHolds
    <3> QED BY <3>1, <3>2, <3>3 DEF LinkAgrees
  <2>6. FlagsAgree(l, e)
    <3>1. e.flags \subseteq I16Flags \cup HighFlags
      BY <1>1, StateType
    <3>2. I16Flags \cap HighFlags = {} /\ "DYNAMIC" \in I16Flags
      BY DEF I16Flags, HighFlags
    <3>3. l.flags = (e.flags \cap I16Flags)
                       \cup (IF "DYNAMIC" \in e.flags THEN HighFlags ELSE {})
      BY <1>1, <2>3, <3>2 DEF FlagsStr, Flags
    <3>4. R!Tells(e).flags = IF e.flags \subseteq HighFlags THEN None ELSE e.flags \ HighFlags
      BY <1>1, SameKernel DEF R!Tells
    <3>5. l.flags \ HighFlags = e.flags \ HighFlags
      BY <3>1, <3>2, <3>3
    <3>6. l.flags \subseteq HighFlags <=> e.flags \subseteq HighFlags
      BY <3>5
    <3>7. l.flags \cap HighFlags = IF "DYNAMIC" \in l.flags THEN HighFlags ELSE {}
      BY <3>2, <3>3
    <3> QED BY <3>4, <3>5, <3>6, <3>7 DEF FlagsAgree
  <2>7. DriverAgrees(l, e)
    BY <1>2, <2>1 DEF DriverLinesHold, DriverAgrees
  <2>8. CardAgrees(l)
    <3>1. opts.verbose /\ l.bus \in Slots => l.pci = bus[l.bus]
      BY <2>1 DEF DriverLinesHold
    <3> QED BY <3>1, SameKernel DEF CardAgrees, R!CardOf
  <2>9. CountersAgree(l, e)
    <3> SUFFICES ASSUME opts.verbose, e.rx <= UIntMax, e.tx <= UIntMax
                 PROVE  R!Tells(e).stats = IF l.stats = <<0, 0>> THEN None
                                           ELSE [rx |-> l.stats[1], tx |-> l.stats[2]]
      BY DEF CountersAgree
    <3>1. e.rx \in Nat /\ e.tx \in Nat /\ UIntMax \in Nat
      BY <1>1, StateType, LegacyIfrAssumption
    <3>2. l.stats \in GetStats(e)
      BY <2>1 DEF VerboseLinesHold, StatsLineHolds
    <3>3. l.stats = <<e.rx, e.tx>>
      BY <1>1, <3>1, <3>2 DEF GetStats, ReadCounters
    <3>4. R!Tells(e).stats = IF e.rx = 0 /\ e.tx = 0 THEN None ELSE [rx |-> e.rx, tx |-> e.tx]
      BY <1>1 DEF R!Tells
    <3> QED BY <3>3, <3>4
  <2> QED BY <2>4, <2>5, <2>6, <2>7, <2>8, <2>9 DEF l
<1> QED BY <1>3, <1>4

(***************************************************************************)
(* An interface that keeps still for its turn, and answers, gets from this *)
(* program the turn that the Rust program's specification gives it, and    *)
(* every line that both have agrees, within the limits that LinkAgrees,    *)
(* FlagsAgree, CardAgrees and CountersAgree spell out: no word for an      *)
(* unknown link, the flags behind a sign (ifr.hpp l.106), the cards that   *)
(* the Rust program knows, counters within 32 bits (ifr.hpp l.356).        *)
(***************************************************************************)
THEOREM QuietTurnsAgreeCorrect == Spec => []QuietTurnsAgree
<1>1. TurnsAdmissible => QuietTurnsAgree
  BY OneStateAgrees DEF TurnsAdmissible, QuietTurnsAgree
<1> QED BY <1>1, TurnsAdmissibleCorrect, PTL
=============================================================================
