---------------------------- MODULE IfshowProofs ----------------------------
(***************************************************************************)
(* Theorems about Ifshow, for every set of names, of interface states, of  *)
(* devices and of command lines, and any number of changes and failures.   *)
(***************************************************************************)
EXTENDS IfshowInv, WellFoundedInduction, SequenceTheorems, TLAPS

-----------------------------------------------------------------------------
(***************************************************************************)
(* Lemmas about the operators.                                             *)
(***************************************************************************)

\* A non-empty set of names has a least one, and Least finds it.
LEMMA LeastName ==
  ASSUME NEW S, S \subseteq Names, S # {}
  PROVE  Least(S) \in S /\ \A m \in S : Least(S) <= m
<1> DEFINE Less == OpToRel(<, Nat)
<1>1. S \subseteq Nat
  BY KernelAssumption
<1>2. \E x \in S : \A y \in S : <<y, x>> \notin Less
  <2>1. IsWellFoundedOn(Less, Nat)
    BY NatLessThanWellFounded
  <2> HIDE DEF Less
  <2> QED BY <1>1, <2>1, WFMin
<1>3. \A x, y \in Nat : y < x => <<y, x>> \in Less
  BY DEF OpToRel
<1>4. PICK n \in S : \A m \in S : <<m, n>> \notin Less
  BY <1>2
<1> HIDE DEF Less
<1>5. ASSUME NEW m \in S PROVE n <= m
  <2>1. ~(m < n)
    BY <1>1, <1>3, <1>4
  <2> QED BY <1>1, <2>1
<1>6. \E x \in S : \A m \in S : x <= m
  BY <1>5
<1> QED BY <1>6 DEF Least

\* What the accessors return, for whatever a call may find.
LEMMA AccessorTypes ==
  ASSUME NEW e \in Observable
  PROVE  /\ EthtoolDrvinfo(e) \in InfoType \cup {None}
         /\ EthtoolLink(e) \in {"LINK UP", "NO LINK"}
         /\ Mac(e) \in Macs \cup {None}
         /\ InetAddrs(e) \in Seq(Addrs)
         /\ Inet6Addr(e) \in Seq(Addrs)
         /\ FlagsStr(e) \in (SUBSET I16Flags) \cup {None}
         /\ Mtu(e) \in Nat
         /\ Metric(e) \in Nat
         /\ Stats(e) \in [rx : Nat, tx : Nat] \cup {None}
<1>1. Flags(e) \subseteq I16Flags
  BY DEF Flags
<1>2. FlagsStr(e) \in (SUBSET I16Flags) \cup {None}
  BY <1>1 DEF FlagsStr
<1>3. CASE e = Absent
  <2>1. << >> \in Seq(Addrs)
    BY EmptySeq
  <2> QED
    BY <1>2, <1>3, <2>1
       DEF EthtoolDrvinfo, EthtoolLink, Mac, InetAddrs, Inet6Addr,
           Mtu, Metric, Stats
<1>4. CASE e # Absent
  <2>1. e \in IfaceType
    BY <1>4, KernelAssumption DEF Observable
  <2>2. /\ e.info \in InfoType \cup {None}
        /\ e.mac \in Macs /\ e.v4 \in Seq(Addrs) /\ e.v6 \in Seq(Addrs)
        /\ e.mtu \in Nat /\ e.metric \in Nat
        /\ e.rx \in Nat /\ e.tx \in Nat
    BY <2>1 DEF IfaceType
  <2>3. /\ EthtoolDrvinfo(e) \in InfoType \cup {None}
        /\ EthtoolLink(e) \in {"LINK UP", "NO LINK"}
        /\ Mac(e) \in Macs \cup {None}
        /\ InetAddrs(e) \in Seq(Addrs)
        /\ Inet6Addr(e) \in Seq(Addrs)
    BY <1>4, <2>2 DEF EthtoolDrvinfo, EthtoolLink, Mac, InetAddrs, Inet6Addr
  <2>4. Mtu(e) \in Nat /\ Metric(e) \in Nat
    BY <1>4, <2>2 DEF Mtu, Metric
  <2>5. Stats(e) \in [rx : Nat, tx : Nat] \cup {None}
    BY <1>4, <2>2 DEF Stats
  <2> QED BY <1>2, <2>3, <2>4, <2>5
<1> QED BY <1>3, <1>4

\* A block stays a block when one of its lines is printed.
LEMMA BlockLines ==
  ASSUME NEW b \in BlockType
  PROVE  /\ \A v \in {"LINK UP", "NO LINK"} : [b EXCEPT !.link = v] \in BlockType
         /\ \A v \in Macs \cup {None} : [b EXCEPT !.mac = v] \in BlockType
         /\ \A v \in Seq(Addrs) : [b EXCEPT !.v4 = v] \in BlockType
         /\ \A v \in Seq(Addrs) : [b EXCEPT !.v6 = v] \in BlockType
         /\ \A v \in (SUBSET I16Flags) \cup {None} :
              [b EXCEPT !.flags = v] \in BlockType
         /\ \A v \in Nat : [b EXCEPT !.mtu = v] \in BlockType
         /\ \A v \in Nat : [b EXCEPT !.metric = v] \in BlockType
         /\ \A v \in [rx : Nat, tx : Nat] \cup {None} :
              [b EXCEPT !.stats = v] \in BlockType
         /\ \A v \in Drivers \cup {None}, w \in BusNames \cup {None} :
              [b EXCEPT !.driver = v, !.bus = w] \in BlockType
         /\ \A v, w \in PciDevices \cup {None} :
              [b EXCEPT !.pci = v, !.detail = w] \in BlockType
<1>1. \A v \in {"LINK UP", "NO LINK"} : [b EXCEPT !.link = v] \in BlockType
  BY DEF BlockType
<1>2. \A v \in Macs \cup {None} : [b EXCEPT !.mac = v] \in BlockType
  BY DEF BlockType
<1>3. \A v \in Seq(Addrs) : [b EXCEPT !.v4 = v] \in BlockType
  BY DEF BlockType
<1>4. \A v \in Seq(Addrs) : [b EXCEPT !.v6 = v] \in BlockType
  BY DEF BlockType
<1>5. \A v \in (SUBSET I16Flags) \cup {None} : [b EXCEPT !.flags = v] \in BlockType
  BY DEF BlockType
<1>6. \A v \in Nat : [b EXCEPT !.mtu = v] \in BlockType
  BY DEF BlockType
<1>7. \A v \in Nat : [b EXCEPT !.metric = v] \in BlockType
  BY DEF BlockType
<1>8. \A v \in [rx : Nat, tx : Nat] \cup {None} : [b EXCEPT !.stats = v] \in BlockType
  BY DEF BlockType
<1>9. \A v \in Drivers \cup {None}, w \in BusNames \cup {None} :
        [b EXCEPT !.driver = v, !.bus = w] \in BlockType
  BY DEF BlockType
<1>10. \A v, w \in PciDevices \cup {None} :
        [b EXCEPT !.pci = v, !.detail = w] \in BlockType
  BY DEF BlockType
<1> QED
  BY <1>1, <1>2, <1>3, <1>4, <1>5, <1>6, <1>7, <1>8, <1>9, <1>10

LEMMA NoLinesType == NoLines \in BlockType
BY DEF NoLines, BlockType

\* Enumeration builds a table of devices; so does a failed one.
LEMMA TableType ==
  ASSUME NEW t, t = EmptyTable \/ t \in Tables(bus)
  PROVE  t \in [BDFs -> PciDevices \cup {None}]
BY DEF EmptyTable, Tables

LEMMA LookupType ==
  ASSUME NEW t \in [BDFs -> PciDevices \cup {None}], NEW k
  PROVE  Lookup(t, k) \in PciDevices \cup {None}
BY DEF Lookup
-----------------------------------------------------------------------------
(***************************************************************************)
(* Types.                                                                  *)
(***************************************************************************)

\* The part of TypeOK about the environment, which Finds and Fault may touch.
EnvType ==
  /\ kernel \in [Names -> Observable]
  /\ bus \in PciBuses
  /\ changes \in 0 .. MaxChanges
  /\ faults \in 0 .. MaxFaults

LEMMA FaultType ==
  ASSUME EnvType, Fault
  PROVE  EnvType'
BY IfshowAssumption DEF EnvType, Fault

LEMMA SameEnvType ==
  ASSUME EnvType, UNCHANGED env
  PROVE  EnvType'
BY DEF EnvType, env

LEMMA FindsType ==
  ASSUME EnvType, cur \in Names, NEW e, Finds(e)
  PROVE  EnvType' /\ e \in Observable
<1>1. CASE e = kernel[cur] /\ UNCHANGED env
  BY <1>1, SameEnvType DEF EnvType
<1>2. CASE e = Absent /\ Fault
  BY <1>2, FaultType DEF Observable
<1> QED BY <1>1, <1>2 DEF Finds

\* A call in a turn, made at p and leading to q, keeps the types.
LEMMA CallType ==
  ASSUME TypeOK, NEW e, NEW p, NEW q, Call(p, q, e),
         p \in FromFlags1, q \in FromFlags1,
         info' \in InfoType \cup {None}, block' \in BlockType
  PROVE  TypeOK'
<1>1. pc = p /\ InTurn /\ InTurn'
  BY DEF Call, InTurn, FromFlags1, FromDrvinfo, FromLink, FromMac, FromInet,
         FromInet6, FromBus, FromUevent, FromFlags2
<1>2. cur \in Names /\ EnvType
  BY <1>1 DEF TypeOK, EnvType
<1>3. EnvType' /\ e \in Observable
  BY <1>2, FindsType DEF Call
<1>4. window' \subseteq Observable
  BY <1>3 DEF Call, TypeOK
<1>5. pc' \in FromFlags1
  BY DEF Call
<1> QED
  BY <1>1, <1>2, <1>3, <1>4, <1>5
     DEF Call, TypeOK, EnvType, FromFlags1, FromDrvinfo, FromLink, FromMac,
         FromInet, FromInet6, FromBus, FromUevent, FromFlags2

\* The end of a turn keeps the types.
LEMMA EndTurnType ==
  ASSUME TypeOK, InTurn, EnvType', NEW lines \in BlockType,
         NEW o \in {"excluded", "nosocket", "down", "otherdriver", "shown"},
         NEW seen, seen \subseteq Observable,
         EndTurn(o, lines, seen)
  PROVE  TypeOK'
<1> DEFINE t == [name |-> cur, outcome |-> o, window |-> seen,
                 block |-> lines]
<1>1. t \in TurnType
  BY DEF TypeOK, TurnType
<1>2. turns' \in Seq(TurnType)
  <2>1. turns' = Append(turns, t)
    BY DEF EndTurn
  <2> HIDE DEF t
  <2> QED BY <1>1, <2>1, AppendProperties DEF TypeOK
<1> QED
  BY <1>2, NoLinesType DEF EndTurn, TypeOK, EnvType, InTurn

LEMMA TypeInit == Init => TypeOK
<1> SUFFICES ASSUME Init PROVE TypeOK
  OBVIOUS
<1>1. table \in [BDFs -> PciDevices \cup {None}]
  BY DEF Init, EmptyTable
<1>2. turns \in Seq(TurnType)
  BY EmptySeq DEF Init
<1> QED
  BY <1>1, <1>2, NoLinesType, IfshowAssumption DEF Init, TypeOK, InTurn

LEMMA TypeNext == TypeOK /\ [Next]_vars => TypeOK'
<1> SUFFICES ASSUME TypeOK, [Next]_vars
             PROVE  TypeOK'
  OBVIOUS
<1>1. EnvType
  BY DEF TypeOK, EnvType
<1>2. CASE Enumerate
  <2>1. EnvType'
    BY <1>1, <1>2, FaultType, SameEnvType DEF Enumerate
  <2>2. table' \in [BDFs -> PciDevices \cup {None}]
    BY <1>2, TableType DEF Enumerate
  <2> QED BY <1>2, <2>1, <2>2 DEF Enumerate, TypeOK, EnvType, InTurn
<1>3. CASE ListInterfaces
  <2>1. EnvType'
    BY <1>1, <1>3, SameEnvType DEF ListInterfaces
  <2> QED BY <1>3, <2>1 DEF ListInterfaces, TypeOK, EnvType, InTurn
<1>4. CASE ListFails
  <2>1. EnvType'
    BY <1>1, <1>4, FaultType DEF ListFails
  <2> QED BY <1>4, <2>1 DEF ListFails, TypeOK, EnvType, InTurn
<1>5. CASE NextName
  <2>1. EnvType'
    BY <1>1, <1>5, SameEnvType DEF NextName
  <2>2. cur' \in Names /\ window' \subseteq Observable
    BY <1>5, LeastName DEF NextName, TypeOK
  <2>3. todo' \subseteq Names
    BY <1>5 DEF NextName, TypeOK
  <2> QED BY <1>5, <2>1, <2>2, <2>3 DEF NextName, TypeOK, EnvType, InTurn
<1>6. CASE Excluded
  <2>1. EnvType'
    BY <1>1, <1>6, SameEnvType DEF Excluded
  <2>2. InTurn
    BY <1>6 DEF Excluded, InTurn
  <2>3. window \subseteq Observable
    BY DEF TypeOK
  <2> QED
    BY <1>6, <2>1, <2>2, <2>3, EndTurnType, NoLinesType DEF Excluded
<1>7. CASE OpenSocket
  <2>1. EnvType'
    BY <1>1, <1>7, SameEnvType DEF OpenSocket
  <2> QED BY <1>7, <2>1 DEF OpenSocket, TypeOK, EnvType, InTurn
<1>8. CASE SocketFails
  <2>1. EnvType'
    BY <1>1, <1>8, FaultType DEF SocketFails
  <2>2. InTurn
    BY <1>8 DEF SocketFails, InTurn
  <2>3. window \cup {Absent} \subseteq Observable
    BY DEF TypeOK, Observable
  <2> QED
    BY <1>8, <2>1, <2>2, <2>3, EndTurnType, NoLinesType DEF SocketFails
<1>9. CASE \/ CheckUp \/ GetDrvinfo \/ PrintHeader \/ PrintMac \/ PrintInet
           \/ PrintInet6 \/ PrintFlags \/ PrintMtu \/ PrintMetric
           \/ ReadUevent \/ ReadDevlink
  <2> USE DEF FromFlags1, FromDrvinfo, FromLink, FromMac, FromInet, FromInet6,
              FromBus, FromUevent, FromFlags2
  <2>1. info \in InfoType \cup {None} /\ block \in BlockType
        /\ table \in [BDFs -> PciDevices \cup {None}]
    BY DEF TypeOK
  <2>2. \A k : WithPciLines(block, k) \in BlockType
    BY <2>1, LookupType, BlockLines DEF WithPciLines
  <2>3. CASE CheckUp
    <3>1. PICK e \in Observable : /\ Call("flags1", "drvinfo", e) /\ info' = info
                                 /\ block' = block
      BY <2>3 DEF CheckUp
    <3>2. block' \in BlockType
      BY <2>1, <3>1
    <3> QED BY <2>1, <3>1, <3>2, CallType
  <2>4. CASE PrintHeader
    <3>1. PICK e \in Observable : /\ Call("link", "mac", e) /\ info' = info
                                 /\ block' = [block EXCEPT !.link = EthtoolLink(e)]
      BY <2>4 DEF PrintHeader
    <3>2. block' \in BlockType
      BY <2>1, <3>1, AccessorTypes, BlockLines
    <3> QED BY <2>1, <3>1, <3>2, CallType
  <2>5. CASE PrintMac
    <3>1. PICK e \in Observable : /\ Call("mac", "inet", e) /\ info' = info
                                 /\ block' = [block EXCEPT !.mac = Mac(e)]
      BY <2>5 DEF PrintMac
    <3>2. block' \in BlockType
      BY <2>1, <3>1, AccessorTypes, BlockLines
    <3> QED BY <2>1, <3>1, <3>2, CallType
  <2>6. CASE PrintInet
    <3>1. PICK e \in Observable : /\ Call("inet", "inet6", e) /\ info' = info
                                 /\ block' = [block EXCEPT !.v4 = InetAddrs(e)]
      BY <2>6 DEF PrintInet
    <3>2. block' \in BlockType
      BY <2>1, <3>1, AccessorTypes, BlockLines
    <3> QED BY <2>1, <3>1, <3>2, CallType
  <2>7. CASE PrintInet6
    <3>1. PICK e \in Observable : /\ Call("inet6", "bus", e) /\ info' = info
                                 /\ block' = [block EXCEPT !.v6 = Inet6Addr(e)]
      BY <2>7 DEF PrintInet6
    <3>2. block' \in BlockType
      BY <2>1, <3>1, AccessorTypes, BlockLines
    <3> QED BY <2>1, <3>1, <3>2, CallType
  <2>8. CASE PrintFlags
    <3>1. PICK e \in Observable : /\ Call("flags2", "mtu", e) /\ info' = info
                                 /\ block' = [block EXCEPT !.flags = FlagsStr(e)]
      BY <2>8 DEF PrintFlags
    <3>2. block' \in BlockType
      BY <2>1, <3>1, AccessorTypes, BlockLines
    <3> QED BY <2>1, <3>1, <3>2, CallType
  <2>9. CASE PrintMtu
    <3>1. PICK e \in Observable : /\ Call("mtu", "metric", e) /\ info' = info
                                 /\ block' = [block EXCEPT !.mtu = Mtu(e)]
      BY <2>9 DEF PrintMtu
    <3>2. block' \in BlockType
      BY <2>1, <3>1, AccessorTypes, BlockLines
    <3> QED BY <2>1, <3>1, <3>2, CallType
  <2>10. CASE PrintMetric
    <3>1. PICK e \in Observable : /\ Call("metric", "stats", e) /\ info' = info
                                 /\ block' = [block EXCEPT !.metric = Metric(e)]
      BY <2>10 DEF PrintMetric
    <3>2. block' \in BlockType
      BY <2>1, <3>1, AccessorTypes, BlockLines
    <3> QED BY <2>1, <3>1, <3>2, CallType
  <2>11. CASE GetDrvinfo
    <3>1. PICK e \in Observable : /\ Call("drvinfo", "link", e)
                                 /\ info' = EthtoolDrvinfo(e) /\ block' = block
      BY <2>11 DEF GetDrvinfo
    <3>2. info' \in InfoType \cup {None}
      BY <3>1, AccessorTypes
    <3> QED BY <2>1, <3>1, <3>2, CallType
  <2>12. CASE ReadUevent
    <3>1. PICK e \in Observable, q \in {"devlink", "flags2"} :
            /\ Call("uevent", q, e) /\ info' = info
            /\ block' = WithPciLines(block, ParsePciAddress(Uevent(e)))
      BY <2>12 DEF ReadUevent
    <3> QED BY <2>1, <2>2, <3>1, CallType
  <2>13. CASE ReadDevlink
    <3>1. PICK e \in Observable :
            /\ Call("devlink", "flags2", e) /\ info' = info
            /\ block' = WithPciLines(block, ParsePciAddress(Devlink(e)))
      BY <2>13 DEF ReadDevlink
    <3> QED BY <2>1, <2>2, <3>1, CallType
  <2> QED
    BY <1>9, <2>3, <2>4, <2>5, <2>6, <2>7, <2>8, <2>9,
       <2>10, <2>11, <2>12, <2>13
<1>10. CASE SkipDown \/ SkipDriver
  <2>1. PICK e \in Observable, o \in {"down", "otherdriver"} :
          /\ InTurn /\ Finds(e)
          /\ EndTurn(o, NoLines, window \cup {e})
    BY <1>10 DEF SkipDown, SkipDriver, InTurn
  <2>2. cur \in Names
    BY <2>1 DEF TypeOK
  <2>3. EnvType' /\ window \cup {e} \subseteq Observable
    BY <1>1, <2>1, <2>2, FindsType DEF TypeOK
  <2> QED BY <2>1, <2>3, EndTurnType, NoLinesType
<1>11. CASE PrintDriver
  <2>1. EnvType'
    BY <1>1, <1>11, SameEnvType DEF PrintDriver
  <2>2. info \in InfoType \cup {None} /\ block \in BlockType
        /\ table \in [BDFs -> PciDevices \cup {None}]
    BY DEF TypeOK
  <2>3. info # None => info.driver \in Drivers /\ info.bus \in BusNames
    BY <2>2 DEF InfoType
  <2>4. WithDriverLines \in BlockType
    BY <2>2, <2>3, BlockLines DEF WithDriverLines, BusInfo
  <2>5. \A k : WithPciLines(WithDriverLines, k) \in BlockType
    BY <2>2, <2>4, LookupType, BlockLines DEF WithPciLines
  <2>6. block' \in BlockType
    BY <1>11, <2>5 DEF PrintDriver
  <2> QED
    BY <1>11, <2>1, <2>6 DEF PrintDriver, TypeOK, EnvType, InTurn
<1>12. CASE PrintStats
  <2>1. PICK e \in Observable :
          /\ pc = "stats" /\ Finds(e)
          /\ EndTurn("shown", [block EXCEPT !.stats = Stats(e)],
                     window \cup {e})
    BY <1>12 DEF PrintStats
  <2>2. InTurn /\ cur \in Names
    BY <2>1 DEF TypeOK, InTurn
  <2>3. EnvType' /\ window \cup {e} \subseteq Observable
    BY <1>1, <2>1, <2>2, FindsType DEF TypeOK
  <2>4. [block EXCEPT !.stats = Stats(e)] \in BlockType
    BY AccessorTypes, BlockLines DEF TypeOK
  <2> QED BY <2>1, <2>2, <2>3, <2>4, EndTurnType
<1>13. CASE Finish
  <2>1. EnvType'
    BY <1>1, <1>13, SameEnvType DEF Finish
  <2> QED BY <1>13, <2>1 DEF Finish, TypeOK, EnvType, InTurn
<1>14. CASE \E n \in Names, e \in Observable : KernelChanges(n, e)
  <2>1. PICK n \in Names, e \in Observable : KernelChanges(n, e)
    BY <1>14
  <2>2. kernel' \in [Names -> Observable] /\ window' \subseteq Observable
    BY <2>1 DEF KernelChanges, TypeOK
  <2>3. changes' \in 0 .. MaxChanges
    BY <2>1, IfshowAssumption DEF KernelChanges, TypeOK
  <2> QED BY <2>1, <2>2, <2>3 DEF KernelChanges, TypeOK, InTurn
<1>15. CASE UNCHANGED vars
  BY <1>15 DEF vars, TypeOK, InTurn
<1> QED
  BY <1>2, <1>3, <1>4, <1>5, <1>6, <1>7, <1>8, <1>9, <1>10, <1>11, <1>12,
     <1>13, <1>14, <1>15 DEF Next, Program, Exited

(***************************************************************************)
(* Every variable always has its type; no block is under way between two   *)
(* turns.                                                                  *)
(***************************************************************************)
THEOREM TypeCorrect == Spec => []TypeOK
BY TypeInit, TypeNext, PTL DEF Spec
-----------------------------------------------------------------------------
(***************************************************************************)
(* The order of the turns.                                                 *)
(***************************************************************************)

\* What the end of a turn does to the sequence of turns.
LEMMA EndTurnAppends ==
  ASSUME TypeOK, NEW o, NEW lines, NEW seen, EndTurn(o, lines, seen)
  PROVE  /\ Len(turns) \in Nat
         /\ Len(turns') = Len(turns) + 1
         /\ \A i \in 1 .. Len(turns) : turns'[i] = turns[i]
         /\ turns'[Len(turns')] = [name |-> cur, outcome |-> o,
                                   window |-> seen, block |-> lines]
BY DEF EndTurn, TypeOK

LEMMA EndTurnProgress ==
  ASSUME TypeOK, Progress, InTurn,
         NEW o, NEW lines, NEW seen, EndTurn(o, lines, seen)
  PROVE  Progress'
<1> DEFINE t == [name |-> cur, outcome |-> o, window |-> seen,
                 block |-> lines]
<1>0. /\ Len(turns) \in Nat /\ Len(turns') = Len(turns) + 1
      /\ \A i \in 1 .. Len(turns) : turns'[i] = turns[i]
      /\ turns'[Len(turns')] = t
  BY EndTurnAppends
<1>1. /\ Len(turns) \in Nat /\ Len(turns') = Len(turns) + 1
      /\ \A i \in TurnIndices : turns'[i] = turns[i]
      /\ turns'[Len(turns) + 1].name = cur
  BY <1>0 DEF TurnIndices
<1> HIDE DEF t
<1>2. TurnIndices' = TurnIndices \cup {Len(turns) + 1}
  BY <1>1 DEF TurnIndices
<1>3. \A i \in TurnIndices : i < Len(turns) + 1
  BY <1>1 DEF TurnIndices
<1>4. todo' = todo /\ listed' = listed /\ ~InTurn' /\ pc' = "next"
  BY DEF EndTurn, InTurn
<1>5. listed' = {turns'[i].name : i \in TurnIndices'} \cup todo'
  BY <1>1, <1>2, <1>4 DEF Progress
<1>6. \A i, j \in TurnIndices' : i < j => turns'[i].name < turns'[j].name
  <2>1. Len(turns) + 1 \notin TurnIndices
    BY <1>1 DEF TurnIndices
  <2>2. \A i \in TurnIndices : ~(Len(turns) + 1 < i)
    BY <1>1 DEF TurnIndices
  <2> QED BY <1>1, <1>2, <2>2 DEF Progress
<1>7. \A i \in TurnIndices', m \in todo' : turns'[i].name < m
  BY <1>1, <1>2, <1>4 DEF Progress
<1> QED BY <1>4, <1>5, <1>6, <1>7 DEF Progress

LEMMA SameProgress ==
  ASSUME Progress, UNCHANGED <<turns, todo, listed, cur>>,
         InTurn' = InTurn,
         pc' \in {"start", "list", "done"} => pc' = pc
  PROVE  Progress'
BY DEF Progress, TurnIndices

LEMMA ProgressInit == Init => Progress
BY DEF Init, Progress, InTurn, TurnIndices

LEMMA ProgressNext == TypeOK /\ Progress /\ [Next]_vars => Progress'
<1> SUFFICES ASSUME TypeOK, Progress, [Next]_vars
             PROVE  Progress'
  OBVIOUS
<1>1. CASE Enumerate
  BY <1>1 DEF Enumerate, Progress, InTurn, TurnIndices
<1>2. CASE ListInterfaces
  BY <1>2 DEF ListInterfaces, Progress, InTurn, TurnIndices
<1>3. CASE ListFails
  BY <1>3 DEF ListFails, Progress, InTurn, TurnIndices
<1>4. CASE NextName
  <2>1. /\ cur' \in todo /\ todo' = todo \ {cur'}
        /\ \A m \in todo : cur' <= m
    BY <1>4, LeastName DEF NextName, TypeOK
  <2>2. /\ ~InTurn /\ InTurn' /\ pc' = "filter"
        /\ turns' = turns /\ listed' = listed
    BY <1>4 DEF NextName, InTurn
  <2>3. \A m \in todo' : cur' < m
    BY <2>1, KernelAssumption DEF TypeOK
  <2>4. listed' = {turns'[i].name : i \in TurnIndices'} \cup todo' \cup {cur'}
    BY <2>1, <2>2 DEF Progress, TurnIndices
  <2>5. \A i \in TurnIndices' : turns'[i].name < cur'
    BY <2>1, <2>2 DEF Progress, TurnIndices
  <2>6. \A i \in TurnIndices', m \in todo' : turns'[i].name < m
    BY <2>1, <2>2 DEF Progress, TurnIndices
  <2>7. \A i, j \in TurnIndices' : i < j => turns'[i].name < turns'[j].name
    BY <2>2 DEF Progress, TurnIndices
  <2> QED BY <2>2, <2>3, <2>4, <2>5, <2>6, <2>7 DEF Progress
<1>5. CASE Excluded \/ SocketFails \/ SkipDown \/ SkipDriver \/ PrintStats
  <2>1. PICK o, lines, seen : InTurn /\ EndTurn(o, lines, seen)
    BY <1>5
       DEF Excluded, SocketFails, SkipDown, SkipDriver, PrintStats, InTurn
  <2> QED BY <2>1, EndTurnProgress
<1>6. CASE \/ OpenSocket \/ CheckUp \/ GetDrvinfo \/ PrintHeader \/ PrintMac
           \/ PrintInet \/ PrintInet6 \/ PrintDriver \/ ReadUevent
           \/ ReadDevlink \/ PrintFlags \/ PrintMtu \/ PrintMetric
  <2>1. InTurn /\ InTurn' /\ UNCHANGED <<turns, todo, listed, cur>>
    BY <1>6
       DEF OpenSocket, CheckUp, GetDrvinfo, PrintHeader, PrintMac, PrintInet,
           PrintInet6, PrintDriver, ReadUevent, ReadDevlink, PrintFlags,
           PrintMtu, PrintMetric, Call, InTurn
  <2> QED BY <2>1, SameProgress DEF InTurn
<1>7. CASE Finish
  BY <1>7 DEF Finish, Progress, InTurn, TurnIndices
<1>8. CASE (\E n \in Names, e \in Observable : KernelChanges(n, e))
           \/ UNCHANGED vars
  <2>1. UNCHANGED <<turns, todo, listed, cur, pc>>
    BY <1>8 DEF KernelChanges, vars
  <2> QED BY <2>1, SameProgress DEF InTurn
<1> QED
  BY <1>1, <1>2, <1>3, <1>4, <1>5, <1>6, <1>7, <1>8 DEF Next, Program, Exited

(***************************************************************************)
(* The names listed are, in order, those of the turns taken, under way and *)
(* to come.                                                                *)
(***************************************************************************)
THEOREM ProgressCorrect == Spec => []Progress
<1>1. Init => Progress
  BY ProgressInit
<1>2. TypeOK /\ Progress /\ [Next]_vars => Progress'
  BY ProgressNext
<1> QED BY <1>1, <1>2, TypeCorrect, PTL DEF Spec

(***************************************************************************)
(* Each listed name gets one turn, in order, and has had it at the end.    *)
(***************************************************************************)
THEOREM OneTurnEachCorrect == Spec => []OneTurnEach
<1>1. Progress => OneTurnEach
  BY DEF Progress, OneTurnEach, InTurn
<1> QED BY <1>1, ProgressCorrect, PTL
-----------------------------------------------------------------------------
(***************************************************************************)
(* The accessors give what Report says of an interface.                    *)
(***************************************************************************)

LEMMA FlagsApart == I16Flags \cap HighFlags = {}
BY DEF I16Flags, HighFlags

\* Report's names of the kernel's data are Kernel's.
LEMMA SameKernel ==
  /\ R!Slots = Slots /\ R!HighFlags = HighFlags
  /\ R!Observable = Observable
BY DEF R!Slots, Slots, R!HighFlags, HighFlags, R!Observable, Observable

LEMMA AccessorsTell ==
  ASSUME NEW e \in Observable
  PROVE  /\ IsUp(e) <=> R!Running(e)
         /\ EthtoolDrvinfo(e) = R!DriverOf(e)
         /\ EthtoolLink(e) = R!Tells(e).link
         /\ Mac(e) = R!Tells(e).mac
         /\ InetAddrs(e) = R!Tells(e).v4
         /\ Inet6Addr(e) = R!Tells(e).v6
         /\ FlagsStr(e) = R!Tells(e).flags
         /\ Mtu(e) = R!Tells(e).mtu
         /\ Metric(e) = R!Tells(e).metric
         /\ Stats(e) = R!Tells(e).stats
<1>1. EthtoolDrvinfo(e) = R!DriverOf(e)
  BY DEF EthtoolDrvinfo, R!DriverOf
<1>2. IsUp(e) <=> R!Running(e)
  <2>1. "UP" \in I16Flags
    BY DEF I16Flags
  <2> QED BY <2>1 DEF IsUp, Flags, R!Running
<1>3. CASE e = Absent
  <2>1. Flags(e) = {}
    BY <1>3 DEF Flags
  <2> QED
    BY <1>1, <1>2, <1>3, <2>1
       DEF EthtoolLink, Mac, InetAddrs, Inet6Addr, FlagsStr, Mtu, Metric,
           Stats, R!Tells
<1>4. CASE e # Absent
  <2>1. e \in IfaceType
    BY <1>4, KernelAssumption DEF Observable
  <2>2. /\ e.flags \subseteq I16Flags \cup HighFlags
        /\ e.link \in Nat \cup {None}
        /\ e.rx \in Nat /\ e.tx \in Nat
    BY <2>1 DEF IfaceType
  <2>3. EthtoolLink(e) = R!Tells(e).link
    BY <1>4, <2>2, NothingAssumption DEF EthtoolLink, R!Tells
  <2>4. /\ Mac(e) = R!Tells(e).mac
        /\ InetAddrs(e) = R!Tells(e).v4
        /\ Inet6Addr(e) = R!Tells(e).v6
        /\ Mtu(e) = R!Tells(e).mtu
        /\ Metric(e) = R!Tells(e).metric
    BY <1>4 DEF Mac, InetAddrs, Inet6Addr, Mtu, Metric, R!Tells
  <2>5. FlagsStr(e) = R!Tells(e).flags
    <3>1. e.flags \cap I16Flags = e.flags \ HighFlags
      BY <2>2, FlagsApart
    <3>2. e.flags \subseteq HighFlags <=> e.flags \ HighFlags = {}
      OBVIOUS
    <3> QED BY <1>4, <3>1, <3>2, SameKernel DEF FlagsStr, Flags, R!Tells
  <2>6. Stats(e) = R!Tells(e).stats
    BY <1>4, <2>2 DEF Stats, R!Tells
  <2> QED BY <1>1, <1>2, <2>3, <2>4, <2>5, <2>6
<1> QED BY <1>3, <1>4

LEMMA FilterAgrees == \A i : DriverAccepted(i) <=> R!Passes(i)
BY DEF DriverAccepted, R!Passes

\* The entry that a bus name leads to is the card of that place.
LEMMA LookupIdentifies ==
  ASSUME table = EmptyTable \/ table \in Tables(bus), NEW b
  PROVE  R!CardOf(b, Lookup(table, ParsePciAddress(b)))
<1>1. CASE b \notin Slots
  BY <1>1, NothingAssumption, SameKernel DEF R!CardOf, Lookup, ParsePciAddress
<1>2. CASE b \in Slots /\ table = EmptyTable
  <2>1. Lookup(table, ParsePciAddress(b)) = None
    BY <1>2 DEF Lookup, ParsePciAddress, AddressKey, EmptyTable
  <2> QED BY <1>2, <2>1 DEF R!CardOf
<1>3. CASE b \in Slots /\ table # EmptyTable
  <2>1. b.bdf \in BDFs
    BY <1>3 DEF Slots
  <2>2. Lookup(table, ParsePciAddress(b)) = table[b.bdf]
    BY <1>3, <2>1 DEF Lookup, ParsePciAddress, AddressKey
  <2>3. DevicesAt(bus, b.bdf) = R!CardsAt(b.bdf)
    <3>1. \A t \in Slots : Kept(bus[t]) <=> /\ bus[t] # None /\ bus[t].readable
                                            /\ bus[t].class \in {2, 13}
      BY DEF Kept, NetworkClasses
    <3> QED BY <3>1, SameKernel DEF DevicesAt, R!CardsAt, AddressKey
  <2>4. IF DevicesAt(bus, b.bdf) = {} THEN table[b.bdf] = None
                                      ELSE table[b.bdf] \in DevicesAt(bus, b.bdf)
    BY <1>3, <2>1 DEF Tables
  <2> QED BY <1>3, <2>2, <2>3, <2>4, SameKernel DEF R!CardOf
<1> QED BY <1>1, <1>2, <1>3

\* More found in a turn never makes its promise harder to keep.
LEMMA IdentifiedLonger ==
  ASSUME NEW i, NEW p, NEW W, NEW V, W \subseteq V, R!IdentifiedAs(i, p, W)
  PROVE  R!IdentifiedAs(i, p, V)
BY DEF R!IdentifiedAs

\* The promise depends on the command line, the bus and the table alone.
LEMMA PromiseStable ==
  ASSUME UNCHANGED <<opts, bus, table>>
  PROVE  /\ \A n : R!Excludes(n)' <=> R!Excludes(n)
         /\ \A n : R!ShowsDown(n)' <=> R!ShowsDown(n)
         /\ \A i : R!Passes(i)' <=> R!Passes(i)
         /\ \A i, p, W : R!IdentifiedAs(i, p, W)' <=> R!IdentifiedAs(i, p, W)
         /\ \A t : R!Admissible(t)' <=> R!Admissible(t)
<1>1. /\ \A n : R!Excludes(n)' <=> R!Excludes(n)
      /\ \A n : R!ShowsDown(n)' <=> R!ShowsDown(n)
      /\ \A i : R!Passes(i)' <=> R!Passes(i)
  BY DEF R!Excludes, R!ShowsDown, R!Passes
<1>2. \A b, p : R!CardOf(b, p)' <=> R!CardOf(b, p)
  BY DEF R!CardOf, R!CardsAt
<1>3. \A i, p, W : R!IdentifiedAs(i, p, W)' <=> R!IdentifiedAs(i, p, W)
  BY <1>2 DEF R!IdentifiedAs
<1>4. \A l, W : R!DriverLinesHold(l, W)' <=> R!DriverLinesHold(l, W)
  BY <1>1, <1>3 DEF R!DriverLinesHold
<1>5. \A t : R!Admissible(t)' <=> R!Admissible(t)
  BY <1>1, <1>4 DEF R!Admissible
<1> QED BY <1>1, <1>3, <1>5
-----------------------------------------------------------------------------
(***************************************************************************)
(* Where the lines come from.                                              *)
(***************************************************************************)

\* What any call of a turn does beside printing.
LEMMA CallFacts ==
  ASSUME TypeOK, Provenance, NEW p \in FromFlags1, NEW q, NEW e \in Observable,
         Call(p, q, e)
  PROVE  /\ pc = p /\ pc' = q
         /\ kernel'[cur'] \in window'
         /\ window \subseteq window' /\ e \in window'
         /\ UNCHANGED <<opts, bus, table, cur, turns>>
<1>1. kernel[cur] \in window
  BY DEF Call, Provenance, TestsPassed
<1>2. kernel' = kernel /\ bus' = bus
  BY DEF Call, Finds, Fault, env
<1> QED BY <1>1, <1>2 DEF Call

\* A step within a turn that leaves the table and, where they are known, the
\* outcome of the tests.
LEMMA KeptTable ==
  ASSUME Provenance, UNCHANGED <<bus, table, turns>>,
         pc' \in {"start", "list", "failed"} => pc' = pc \/ pc = "list"
  PROVE  TableRight'
BY DEF Provenance, TableRight

LEMMA KeptTests ==
  ASSUME Provenance, UNCHANGED <<opts, cur, info>>, window \subseteq window',
         pc \in FromLink, pc' \in FromLink, kernel'[cur'] \in window',
         UNCHANGED <<bus, table>>
  PROVE  TestsPassed'
<1> USE DEF FromFlags1, FromDrvinfo, FromLink, FromMac, FromInet, FromInet6,
              FromBus, FromUevent, FromFlags2
<1>1. /\ ~R!Excludes(cur)
      /\ R!ShowsDown(cur) \/ \E e \in window : R!Running(e)
      /\ \E e \in window : info = R!DriverOf(e) /\ R!Passes(info)
  BY DEF Provenance, TestsPassed
<1>2. /\ ~R!Excludes(cur)'
      /\ R!ShowsDown(cur)' \/ \E e \in window' : R!Running(e)
      /\ \E e \in window' : info' = R!DriverOf(e) /\ R!Passes(info)'
  BY <1>1 DEF R!Excludes, R!ShowsDown, R!Passes
<1> QED BY <1>2 DEF TestsPassed

\* A step from the driver's lines on keeps the lines before them.
LEMMA KeptEarly ==
  ASSUME Provenance, pc \in FromBus, pc' \in FromBus,
         window \subseteq window',
         block'.link = block.link, block'.mac = block.mac,
         block'.v4 = block.v4, block'.v6 = block.v6
  PROVE  EarlyLinesHold'
BY DEF Provenance, EarlyLinesHold, FromFlags1, FromDrvinfo, FromLink, FromMac, FromInet, FromInet6,
              FromBus, FromUevent, FromFlags2

\* A step after the PCI lines keeps them and the driver's.
LEMMA KeptBus ==
  ASSUME Provenance, pc \in FromFlags2, pc' \in FromFlags2,
         window \subseteq window', UNCHANGED <<opts, bus, table, info>>,
         block'.driver = block.driver, block'.bus = block.bus,
         block'.pci = block.pci, block'.detail = block.detail
  PROVE  BusLinesHold'
<1> USE DEF FromUevent, FromFlags2
<1>1. R!IdentifiedAs(info, block.pci, window)
  BY DEF Provenance, BusLinesHold
<1>2. R!IdentifiedAs(info, block.pci, window')
  BY <1>1, IdentifiedLonger
<1>3. R!IdentifiedAs(info, block.pci, window)'
  <2>1. \A i, p, W : R!IdentifiedAs(i, p, W)' <=> R!IdentifiedAs(i, p, W)
    BY PromiseStable
  <2> QED BY <1>2, <2>1 
<1> QED BY <1>3 DEF Provenance, BusLinesHold

\* Between two turns, and before a block is begun, nothing is to be shown.
LEMMA NoBlock ==
  ASSUME pc' \notin FromLink
  PROVE  EarlyLinesHold' /\ BusLinesHold' /\ LateLinesHold'
BY DEF EarlyLinesHold, BusLinesHold, LateLinesHold,
       FromFlags1, FromDrvinfo, FromLink, FromMac, FromInet, FromInet6,
              FromBus, FromUevent, FromFlags2

LEMMA NoTurn ==
  ASSUME pc' \notin {"filter"} \cup FromFlags1
  PROVE  TestsPassed' /\ EarlyLinesHold' /\ BusLinesHold' /\ LateLinesHold'
<1>1. pc' \notin FromLink
  BY DEF FromFlags1, FromDrvinfo
<1> QED
  BY <1>1, NoBlock DEF TestsPassed, FromFlags1, FromDrvinfo

LEMMA ProvenanceInit == Init => Provenance
<1> SUFFICES ASSUME Init PROVE Provenance
  OBVIOUS
<1>1. TableRight
  BY DEF Init, TableRight
<1>2. TestsPassed /\ EarlyLinesHold /\ BusLinesHold /\ LateLinesHold
  BY DEF Init, TestsPassed, EarlyLinesHold, BusLinesHold, LateLinesHold,
         FromFlags1, FromDrvinfo, FromLink, FromMac, FromInet, FromInet6,
              FromBus, FromUevent, FromFlags2
<1> QED BY <1>1, <1>2 DEF Provenance

\* The steps that print nothing: up to the header, and between two turns.
LEMMA ProvenanceTests ==
  ASSUME TypeOK, Provenance, OpenSocket \/ CheckUp \/ GetDrvinfo
  PROVE  Provenance'
<1> USE DEF FromFlags1, FromDrvinfo, FromLink, FromMac, FromInet, FromInet6,
              FromBus, FromUevent, FromFlags2
<1>1. CASE OpenSocket
  <2>1. TableRight'
    BY <1>1, KeptTable DEF OpenSocket, env
  <2>2. TestsPassed'
    <3>1. ~R!Excludes(cur)'
      BY <1>1 DEF OpenSocket, R!Excludes
    <3>2. kernel'[cur'] \in window'
      BY <1>1 DEF OpenSocket, env, Provenance, TestsPassed
    <3> QED BY <1>1, <3>1, <3>2 DEF OpenSocket, TestsPassed
  <2>3. pc' \notin FromLink
    BY <1>1 DEF OpenSocket
  <2> QED BY <2>1, <2>2, <2>3, NoBlock DEF Provenance
<1>2. CASE CheckUp
  <2>1. PICK e \in Observable : /\ Call("flags1", "drvinfo", e)
                                /\ IsUp(e) \/ ShowDown
    BY <1>2 DEF CheckUp
  <2>2. /\ pc = "flags1" /\ pc' = "drvinfo" /\ kernel'[cur'] \in window'
        /\ e \in window' /\ UNCHANGED <<opts, bus, table, cur, turns>>
    BY <2>1, CallFacts
  <2>3. TestsPassed'
    <3>1. ~R!Excludes(cur)'
      BY <2>2 DEF Provenance, TestsPassed, R!Excludes
    <3>2. R!ShowsDown(cur)' \/ R!Running(e)
      BY <2>1, <2>2, AccessorsTell DEF ShowDown, R!ShowsDown
    <3> QED BY <2>2, <3>1, <3>2 DEF TestsPassed
  <2>4. pc' \notin FromLink /\ TableRight'
    BY <2>2, KeptTable
  <2> QED BY <2>3, <2>4, NoBlock DEF Provenance
<1>3. CASE GetDrvinfo
  <2>1. PICK e \in Observable : /\ Call("drvinfo", "link", e)
                                /\ DriverAccepted(EthtoolDrvinfo(e))
                                /\ info' = EthtoolDrvinfo(e)
    BY <1>3 DEF GetDrvinfo
  <2>2. /\ pc = "drvinfo" /\ pc' = "link" /\ kernel'[cur'] \in window'
        /\ e \in window' /\ window \subseteq window'
        /\ UNCHANGED <<opts, bus, table, cur, turns>>
    BY <2>1, CallFacts
  <2>3. TestsPassed'
    <3>1. ~R!Excludes(cur)'
      BY <2>2 DEF Provenance, TestsPassed, R!Excludes
    <3>2. R!ShowsDown(cur)' \/ \E u \in window' : R!Running(u)
      BY <2>2 DEF Provenance, TestsPassed, R!ShowsDown
    <3>3. info' = R!DriverOf(e)
      BY <2>1, AccessorsTell
    <3>4. R!Passes(info)'
      BY <2>1, <2>2, FilterAgrees DEF R!Passes
    <3> QED BY <2>2, <3>1, <3>2, <3>3, <3>4 DEF TestsPassed
  <2>4. TableRight'
    BY <2>2, KeptTable
  <2>5. EarlyLinesHold' /\ BusLinesHold' /\ LateLinesHold'
    BY <2>2 DEF EarlyLinesHold, BusLinesHold, LateLinesHold
  <2> QED BY <2>3, <2>4, <2>5 DEF Provenance
<1> QED BY <1>1, <1>2, <1>3

\* The lines before the driver's.
LEMMA ProvenanceEarly ==
  ASSUME TypeOK, Provenance,
         PrintHeader \/ PrintMac \/ PrintInet \/ PrintInet6
  PROVE  Provenance'
<1> USE DEF FromFlags1, FromDrvinfo, FromLink, FromMac, FromInet, FromInet6,
              FromBus, FromUevent, FromFlags2
<1>1. CASE PrintHeader
  <2>1. PICK e \in Observable : /\ Call("link", "mac", e) /\ info' = info
                                /\ block' = [block EXCEPT !.link = EthtoolLink(e)]
    BY <1>1 DEF PrintHeader
  <2>2. /\ pc = "link" /\ pc' = "mac" /\ kernel'[cur'] \in window'
        /\ e \in window' /\ window \subseteq window'
        /\ UNCHANGED <<opts, bus, table, cur, turns>>
    BY <2>1, CallFacts
  <2>3. block'.link = R!Tells(e).link
    BY <2>1, AccessorsTell DEF TypeOK, BlockType
  <2>4. TableRight' /\ TestsPassed'
    BY <2>1, <2>2, KeptTable, KeptTests
  <2>5. EarlyLinesHold'
    BY <2>1, <2>2, <2>3 DEF Provenance, EarlyLinesHold, TypeOK, BlockType
  <2>6. BusLinesHold' /\ LateLinesHold'
    BY <2>2 DEF BusLinesHold, LateLinesHold
  <2> QED BY <2>4, <2>5, <2>6 DEF Provenance
<1>2. CASE PrintMac
  <2>1. PICK e \in Observable : /\ Call("mac", "inet", e) /\ info' = info
                                /\ block' = [block EXCEPT !.mac = Mac(e)]
    BY <1>2 DEF PrintMac
  <2>2. /\ pc = "mac" /\ pc' = "inet" /\ kernel'[cur'] \in window'
        /\ e \in window' /\ window \subseteq window'
        /\ UNCHANGED <<opts, bus, table, cur, turns>>
    BY <2>1, CallFacts
  <2>3. block'.mac = R!Tells(e).mac
    BY <2>1, AccessorsTell DEF TypeOK, BlockType
  <2>4. TableRight' /\ TestsPassed'
    BY <2>1, <2>2, KeptTable, KeptTests
  <2>5. EarlyLinesHold'
    BY <2>1, <2>2, <2>3 DEF Provenance, EarlyLinesHold, TypeOK, BlockType
  <2>6. BusLinesHold' /\ LateLinesHold'
    BY <2>2 DEF BusLinesHold, LateLinesHold
  <2> QED BY <2>4, <2>5, <2>6 DEF Provenance
<1>3. CASE PrintInet
  <2>1. PICK e \in Observable : /\ Call("inet", "inet6", e) /\ info' = info
                                /\ block' = [block EXCEPT !.v4 = InetAddrs(e)]
    BY <1>3 DEF PrintInet
  <2>2. /\ pc = "inet" /\ pc' = "inet6" /\ kernel'[cur'] \in window'
        /\ e \in window' /\ window \subseteq window'
        /\ UNCHANGED <<opts, bus, table, cur, turns>>
    BY <2>1, CallFacts
  <2>3. block'.v4 = R!Tells(e).v4
    BY <2>1, AccessorsTell DEF TypeOK, BlockType
  <2>4. TableRight' /\ TestsPassed'
    BY <2>1, <2>2, KeptTable, KeptTests
  <2>5. EarlyLinesHold'
    BY <2>1, <2>2, <2>3 DEF Provenance, EarlyLinesHold, TypeOK, BlockType
  <2>6. BusLinesHold' /\ LateLinesHold'
    BY <2>2 DEF BusLinesHold, LateLinesHold
  <2> QED BY <2>4, <2>5, <2>6 DEF Provenance
<1>4. CASE PrintInet6
  <2>1. PICK e \in Observable : /\ Call("inet6", "bus", e) /\ info' = info
                                /\ block' = [block EXCEPT !.v6 = Inet6Addr(e)]
    BY <1>4 DEF PrintInet6
  <2>2. /\ pc = "inet6" /\ pc' = "bus" /\ kernel'[cur'] \in window'
        /\ e \in window' /\ window \subseteq window'
        /\ UNCHANGED <<opts, bus, table, cur, turns>>
    BY <2>1, CallFacts
  <2>3. block'.v6 = R!Tells(e).v6
    BY <2>1, AccessorsTell DEF TypeOK, BlockType
  <2>4. TableRight' /\ TestsPassed'
    BY <2>1, <2>2, KeptTable, KeptTests
  <2>5. EarlyLinesHold'
    BY <2>1, <2>2, <2>3 DEF Provenance, EarlyLinesHold, TypeOK, BlockType
  <2>6. BusLinesHold' /\ LateLinesHold'
    BY <2>2 DEF BusLinesHold, LateLinesHold
  <2> QED BY <2>4, <2>5, <2>6 DEF Provenance
<1> QED BY <1>1, <1>2, <1>3, <1>4

\* The lines after the PCI lines.
LEMMA ProvenanceLate ==
  ASSUME TypeOK, Provenance, PrintFlags \/ PrintMtu \/ PrintMetric
  PROVE  Provenance'
<1> USE DEF FromFlags1, FromDrvinfo, FromLink, FromMac, FromInet, FromInet6,
              FromBus, FromUevent, FromFlags2
<1>1. CASE PrintFlags
  <2>1. PICK e \in Observable : /\ Call("flags2", "mtu", e) /\ info' = info
                                /\ block' = [block EXCEPT !.flags = FlagsStr(e)]
    BY <1>1 DEF PrintFlags
  <2>2. /\ pc = "flags2" /\ pc' = "mtu" /\ kernel'[cur'] \in window'
        /\ e \in window' /\ window \subseteq window'
        /\ UNCHANGED <<opts, bus, table, cur, turns>>
    BY <2>1, CallFacts
  <2>3. block'.flags = R!Tells(e).flags
    BY <2>1, AccessorsTell DEF TypeOK, BlockType
  <2>4. TableRight' /\ TestsPassed'
    BY <2>1, <2>2, KeptTable, KeptTests
  <2>5. EarlyLinesHold' /\ BusLinesHold'
    BY <2>1, <2>2, KeptEarly, KeptBus DEF TypeOK, BlockType
  <2>6. LateLinesHold'
    BY <2>1, <2>2, <2>3 DEF Provenance, LateLinesHold, TypeOK, BlockType
  <2> QED BY <2>4, <2>5, <2>6 DEF Provenance
<1>2. CASE PrintMtu
  <2>1. PICK e \in Observable : /\ Call("mtu", "metric", e) /\ info' = info
                                /\ block' = [block EXCEPT !.mtu = Mtu(e)]
    BY <1>2 DEF PrintMtu
  <2>2. /\ pc = "mtu" /\ pc' = "metric" /\ kernel'[cur'] \in window'
        /\ e \in window' /\ window \subseteq window'
        /\ UNCHANGED <<opts, bus, table, cur, turns>>
    BY <2>1, CallFacts
  <2>3. block'.mtu = R!Tells(e).mtu
    BY <2>1, AccessorsTell DEF TypeOK, BlockType
  <2>4. TableRight' /\ TestsPassed'
    BY <2>1, <2>2, KeptTable, KeptTests
  <2>5. EarlyLinesHold' /\ BusLinesHold'
    BY <2>1, <2>2, KeptEarly, KeptBus DEF TypeOK, BlockType
  <2>6. LateLinesHold'
    BY <2>1, <2>2, <2>3 DEF Provenance, LateLinesHold, TypeOK, BlockType
  <2> QED BY <2>4, <2>5, <2>6 DEF Provenance
<1>3. CASE PrintMetric
  <2>1. PICK e \in Observable : /\ Call("metric", "stats", e) /\ info' = info
                                /\ block' = [block EXCEPT !.metric = Metric(e)]
    BY <1>3 DEF PrintMetric
  <2>2. /\ pc = "metric" /\ pc' = "stats" /\ kernel'[cur'] \in window'
        /\ e \in window' /\ window \subseteq window'
        /\ UNCHANGED <<opts, bus, table, cur, turns>>
    BY <2>1, CallFacts
  <2>3. block'.metric = R!Tells(e).metric
    BY <2>1, AccessorsTell DEF TypeOK, BlockType
  <2>4. TableRight' /\ TestsPassed'
    BY <2>1, <2>2, KeptTable, KeptTests
  <2>5. EarlyLinesHold' /\ BusLinesHold'
    BY <2>1, <2>2, KeptEarly, KeptBus DEF TypeOK, BlockType
  <2>6. LateLinesHold'
    BY <2>1, <2>2, <2>3 DEF Provenance, LateLinesHold, TypeOK, BlockType
  <2> QED BY <2>4, <2>5, <2>6 DEF Provenance
<1> QED BY <1>1, <1>2, <1>3

\* What a place within a turn leads to, once it is looked up.
LEMMA PciLines ==
  ASSUME TypeOK, Provenance, NEW lines \in BlockType, NEW b
  PROVE  /\ R!CardOf(b, WithPciLines(lines, ParsePciAddress(b)).pci)
         /\ \A k : LET l == WithPciLines(lines, k) IN
              /\ l.detail = IF opts.verbose THEN l.pci ELSE None
              /\ l.link = lines.link /\ l.mac = lines.mac
              /\ l.v4 = lines.v4 /\ l.v6 = lines.v6
              /\ l.driver = lines.driver /\ l.bus = lines.bus
<1>1. R!CardOf(b, Lookup(table, ParsePciAddress(b)))
  BY LookupIdentifies DEF Provenance, TableRight
<1>2. \A k : WithPciLines(lines, k).pci = Lookup(table, k)
  BY DEF WithPciLines, BlockType
<1> QED BY <1>1, <1>2 DEF WithPciLines, BlockType

\* What makes the PCI lines those of an interface: see IdentifiedAs.
LEMMA IdentifyByDriver ==
  ASSUME NEW i, NEW p, NEW W,
         i = None \/ i.bus = NoBus => p = None,
         i # None /\ i.bus # NoBus => i.bus \in Slots /\ R!CardOf(i.bus, p)
  PROVE  R!IdentifiedAs(i, p, W)
BY SameKernel DEF R!IdentifiedAs

LEMMA IdentifyBySysfs ==
  ASSUME NEW i, NEW p, NEW W, i # None, i.bus # NoBus, i.bus \notin Slots,
         NEW u \in W, NEW k \in W, R!CardOf(R!SysfsPlace(u, k), p)
  PROVE  R!IdentifiedAs(i, p, W)
BY SameKernel DEF R!IdentifiedAs

\* A slot always has a key, other places never have.
LEMMA ParseSome == \A b : ParsePciAddress(b) # None <=> b \in Slots
BY NothingAssumption DEF ParsePciAddress, AddressKey, Slots

\* The steps that print the PCI lines end with the bus lines right.
LEMMA BusLinesAfterSysfs ==
  ASSUME TypeOK, Provenance, NEW q, NEW e \in Observable, NEW b,
         pc \in {"uevent", "devlink"}, Call(pc, q, e), info' = info,
         block' = WithPciLines(block, ParsePciAddress(b)),
         \/ /\ q = "flags2"
            /\ \E u, k \in window' : b = R!SysfsPlace(u, k)
         \/ /\ q = "devlink"
            /\ e = Absent \/ e.uevent = None
  PROVE  Provenance'
<1> USE DEF FromFlags1, FromDrvinfo, FromLink, FromMac, FromInet, FromInet6,
              FromBus, FromUevent, FromFlags2
<1>1. /\ pc' = q /\ kernel'[cur'] \in window'
      /\ e \in window' /\ window \subseteq window'
      /\ UNCHANGED <<opts, bus, table, cur, turns>>
  BY CallFacts
<1>2. TableRight' /\ TestsPassed'
  BY <1>1, KeptTable, KeptTests
<1>3. /\ R!CardOf(b, block'.pci)
      /\ block'.detail = IF opts.verbose THEN block'.pci ELSE None
      /\ block'.link = block.link /\ block'.mac = block.mac
      /\ block'.v4 = block.v4 /\ block'.v6 = block.v6
      /\ block'.driver = block.driver /\ block'.bus = block.bus
  BY PciLines DEF TypeOK
<1>4. EarlyLinesHold'
  BY <1>1, <1>3, KeptEarly
<1>5. LateLinesHold'
  BY <1>1 DEF LateLinesHold
<1>6. info # None /\ info.bus # NoBus /\ info.bus \notin Slots
  BY DEF Provenance, BusLinesHold
<1>7. q = "flags2" => R!IdentifiedAs(info, block'.pci, window')
  BY <1>3, <1>6, IdentifyBySysfs
<1>8. q = "flags2" => R!IdentifiedAs(info, block.pci, window)'
  <2>1. \A i, p, W : R!IdentifiedAs(i, p, W)' <=> R!IdentifiedAs(i, p, W)
    BY <1>1, PromiseStable
  <2> QED BY <1>7, <2>1
<1>9. BusLinesHold'
  BY <1>1, <1>3, <1>6, <1>8 DEF Provenance, BusLinesHold
<1> QED BY <1>2, <1>4, <1>5, <1>9 DEF Provenance

LEMMA ProvenanceBus ==
  ASSUME TypeOK, Provenance, PrintDriver \/ ReadUevent \/ ReadDevlink
  PROVE  Provenance'
<1> USE DEF FromFlags1, FromDrvinfo, FromLink, FromMac, FromInet, FromInet6,
              FromBus, FromUevent, FromFlags2
<1>1. CASE PrintDriver
  <2>1. /\ pc = "bus" /\ pc' \in {"flags2", "uevent"}
        /\ UNCHANGED <<opts, bus, table, cur, turns, info, window, kernel>>
        /\ block' = WithPciLines(WithDriverLines, ParsePciAddress(BusInfo))
    BY <1>1 DEF PrintDriver, env
  <2>2. kernel'[cur'] \in window'
    BY <2>1 DEF Provenance, TestsPassed
  <2>3. TableRight' /\ TestsPassed'
    BY <2>1, <2>2, KeptTable, KeptTests
  <2>4. info \in InfoType \cup {None} /\ block \in BlockType
    BY DEF TypeOK
  <2>5. info # None => info.driver \in Drivers /\ info.bus \in BusNames
    BY <2>4 DEF InfoType
  <2>6. /\ WithDriverLines \in BlockType
        /\ WithDriverLines.driver = IF info = None THEN None ELSE info.driver
        /\ WithDriverLines.bus = IF info = None \/ info.bus = NoBus
                                 THEN None ELSE info.bus
        /\ WithDriverLines.link = block.link
        /\ WithDriverLines.mac = block.mac
        /\ WithDriverLines.v4 = block.v4
        /\ WithDriverLines.v6 = block.v6
    <3>1. WithDriverLines \in BlockType
      BY <2>4, <2>5, BlockLines DEF WithDriverLines, BusInfo
    <3> QED BY <2>4, <3>1 DEF WithDriverLines, BusInfo, BlockType
  <2>7. /\ R!CardOf(BusInfo, block'.pci)
        /\ block'.detail = IF opts.verbose THEN block'.pci ELSE None
        /\ block'.link = block.link /\ block'.mac = block.mac
        /\ block'.v4 = block.v4 /\ block'.v6 = block.v6
        /\ block'.driver = WithDriverLines.driver
        /\ block'.bus = WithDriverLines.bus
    BY <2>1, <2>6, PciLines
  <2>8. EarlyLinesHold'
    BY <2>1, <2>7, KeptEarly
  <2>9. LateLinesHold'
    BY <2>1 DEF LateLinesHold
  <2>10. CASE pc' = "flags2"
    <3>1. BusInfo = NoBus \/ BusInfo \in Slots
      BY <1>1, <2>10, ParseSome DEF PrintDriver
    <3>2. BusInfo = NoBus => block'.pci = None
      BY <2>7, SameKernel, NothingAssumption DEF R!CardOf
    <3>3. R!IdentifiedAs(info, block'.pci, window')
      <4>1. info = None \/ info.bus = NoBus => block'.pci = None
        BY <3>2 DEF BusInfo
      <4>2. info # None /\ info.bus # NoBus =>
              info.bus \in Slots /\ R!CardOf(info.bus, block'.pci)
        BY <2>7, <3>1 DEF BusInfo
      <4> QED BY <4>1, <4>2, IdentifyByDriver
    <3>4. R!IdentifiedAs(info, block.pci, window)'
      <4>1. \A i, p, W : R!IdentifiedAs(i, p, W)' <=> R!IdentifiedAs(i, p, W)
        BY <2>1, PromiseStable
      <4> QED BY <2>1, <3>3, <4>1
    <3>5. BusLinesHold'
      BY <2>1, <2>6, <2>7, <2>10, <3>4 DEF BusLinesHold
    <3> QED BY <2>3, <2>8, <2>9, <3>5 DEF Provenance
  <2>11. CASE pc' = "uevent"
    <3>1. BusInfo # NoBus /\ BusInfo \notin Slots
      BY <1>1, <2>11, ParseSome DEF PrintDriver
    <3>2. info # None /\ info.bus # NoBus /\ info.bus \notin Slots
      BY <3>1 DEF BusInfo
    <3>3. BusLinesHold'
      BY <2>1, <2>6, <2>7, <2>11, <3>2 DEF BusLinesHold
    <3> QED BY <2>3, <2>8, <2>9, <3>3 DEF Provenance
  <2> QED BY <2>1, <2>10, <2>11
<1>2. CASE ReadUevent
  <2>1. PICK e \in Observable :
          /\ Call("uevent", IF Uevent(e) = None THEN "devlink" ELSE "flags2", e)
          /\ block' = WithPciLines(block, ParsePciAddress(Uevent(e)))
          /\ info' = info
    BY <1>2 DEF ReadUevent
  <2>2. pc = "uevent" /\ e \in window'
    BY <2>1 DEF Call
  <2>3. CASE Uevent(e) = None
    <3>1. e = Absent \/ e.uevent = None
      BY <2>3 DEF Uevent
    <3> QED BY <2>1, <2>2, <2>3, <3>1, BusLinesAfterSysfs
  <2>4. CASE Uevent(e) # None
    <3>1. Uevent(e) = R!SysfsPlace(e, e)
      BY <2>4 DEF Uevent, R!SysfsPlace
    <3> QED BY <2>1, <2>2, <2>4, <3>1, BusLinesAfterSysfs
  <2> QED BY <2>3, <2>4
<1>3. CASE ReadDevlink
  <2>1. PICK e \in Observable :
          /\ Call("devlink", "flags2", e)
          /\ block' = WithPciLines(block, ParsePciAddress(Devlink(e)))
          /\ info' = info
    BY <1>3 DEF ReadDevlink
  <2>2. pc = "devlink" /\ e \in window' /\ window \subseteq window'
    BY <2>1 DEF Call
  <2>3. PICK u \in window : u = Absent \/ u.uevent = None
    BY <2>2 DEF Provenance, BusLinesHold
  <2>4. Devlink(e) = R!SysfsPlace(u, e)
    BY <2>3 DEF Devlink, R!SysfsPlace
  <2> QED BY <2>1, <2>2, <2>4, BusLinesAfterSysfs
<1> QED BY <1>1, <1>2, <1>3

LEMMA ProvenanceNext == TypeOK /\ Provenance /\ [Next]_vars => Provenance'
<1> SUFFICES ASSUME TypeOK, Provenance, [Next]_vars
             PROVE  Provenance'
  OBVIOUS
<1>1. CASE Enumerate \/ ListInterfaces \/ ListFails \/ Finish
  <2>1. pc' \in {"list", "next", "failed", "done"}
    BY <1>1 DEF Enumerate, ListInterfaces, ListFails, Finish
  <2>2. /\ turns' = turns /\ bus' = bus
        /\ table' = EmptyTable \/ table' \in Tables(bus) \/ table' = table
        /\ pc' \in {"list", "failed"} => pc \in {"start", "list"}
    BY <1>1 DEF Enumerate, ListInterfaces, ListFails, Finish, Fault, env
  <2>3. TableRight'
    BY <2>1, <2>2 DEF Provenance, TableRight
  <2>4. pc' \notin {"filter"} \cup FromFlags1
    BY <2>1
       DEF FromFlags1, FromDrvinfo, FromLink, FromMac, FromInet, FromInet6,
              FromBus, FromUevent, FromFlags2
  <2> QED BY <2>3, <2>4, NoTurn DEF Provenance
<1>2. CASE NextName
  <2>1. TableRight'
    BY <1>2, KeptTable DEF NextName, env
  <2>2. pc' = "filter" /\ kernel'[cur'] \in window' /\ pc' \notin FromFlags1
    BY <1>2
       DEF NextName, env, FromFlags1, FromDrvinfo, FromLink, FromMac, FromInet, FromInet6,
              FromBus, FromUevent, FromFlags2
  <2>3. pc' \notin FromLink
    BY <2>2 DEF FromFlags1, FromDrvinfo
  <2>4. TestsPassed'
    BY <2>2 DEF TestsPassed, FromFlags1, FromDrvinfo
  <2> QED BY <2>1, <2>3, <2>4, NoBlock DEF Provenance
<1>3. CASE Excluded \/ SocketFails \/ SkipDown \/ SkipDriver \/ PrintStats
  <2>1. /\ pc' = "next" /\ UNCHANGED <<bus, table>>
        /\ pc \notin {"start", "list", "failed"}
    BY <1>3
       DEF Excluded, SocketFails, SkipDown, SkipDriver, PrintStats, EndTurn,
           Finds, Fault, env
  <2>2. TableRight'
    BY <2>1 DEF Provenance, TableRight
  <2>3. pc' \notin {"filter"} \cup FromFlags1
    BY <2>1
       DEF FromFlags1, FromDrvinfo, FromLink, FromMac, FromInet, FromInet6,
              FromBus, FromUevent, FromFlags2
  <2> QED BY <2>2, <2>3, NoTurn DEF Provenance
<1>4. CASE OpenSocket \/ CheckUp \/ GetDrvinfo
  BY <1>4, ProvenanceTests
<1>5. CASE PrintHeader \/ PrintMac \/ PrintInet \/ PrintInet6
  BY <1>5, ProvenanceEarly
<1>6. CASE PrintDriver \/ ReadUevent \/ ReadDevlink
  BY <1>6, ProvenanceBus
<1>7. CASE PrintFlags \/ PrintMtu \/ PrintMetric
  BY <1>7, ProvenanceLate
<1>8. CASE (\E n \in Names, e \in Observable : KernelChanges(n, e))
           \/ UNCHANGED vars
  <2>1. /\ UNCHANGED <<bus, opts, pc, table, cur, info, block, turns>>
        /\ window \subseteq window'
    BY <1>8 DEF KernelChanges, vars
  <2>2. InTurn /\ kernel[cur] \in window => kernel'[cur'] \in window'
    <3>1. CASE UNCHANGED vars
      BY <3>1 DEF vars
    <3>2. ASSUME NEW n \in Names, NEW e \in Observable, KernelChanges(n, e)
          PROVE  InTurn /\ kernel[cur] \in window => kernel'[cur'] \in window'
      <4>1. InTurn => cur \in Names
        BY DEF TypeOK
      <4>2. kernel \in [Names -> Observable]
        BY DEF TypeOK
      <4> QED BY <3>2, <4>1, <4>2 DEF KernelChanges
    <3> QED BY <1>8, <3>1, <3>2
  <2>3. TableRight'
    BY <2>1, KeptTable
  <2>4. TestsPassed'
    <3>1. pc = "filter" \/ pc \in FromFlags1 => InTurn
      BY DEF InTurn, FromFlags1, FromDrvinfo, FromLink, FromMac, FromInet,
             FromInet6, FromBus, FromUevent, FromFlags2
    <3> QED
      BY <2>1, <2>2, <3>1
         DEF Provenance, TestsPassed, R!Excludes, R!ShowsDown, R!Passes
  <2>5. EarlyLinesHold'
    BY <2>1 DEF Provenance, EarlyLinesHold
  <2>6. BusLinesHold'
    <3>1. R!IdentifiedAs(info, block.pci, window) =>
            R!IdentifiedAs(info, block.pci, window')
      BY <2>1, IdentifiedLonger
    <3>2. \A i, p, W : R!IdentifiedAs(i, p, W)' <=> R!IdentifiedAs(i, p, W)
      BY <2>1, PromiseStable
    <3>3. R!IdentifiedAs(info, block.pci, window) =>
            R!IdentifiedAs(info, block.pci, window)'
      BY <2>1, <3>1, <3>2
    <3> QED BY <2>1, <3>3 DEF Provenance, BusLinesHold
  <2>7. LateLinesHold'
    BY <2>1 DEF Provenance, LateLinesHold
  <2> QED BY <2>3, <2>4, <2>5, <2>6, <2>7 DEF Provenance
<1> QED
  BY <1>1, <1>2, <1>3, <1>4, <1>5, <1>6, <1>7, <1>8 DEF Next, Program, Exited

(***************************************************************************)
(* Each line of the block under way, and each test it has passed, goes     *)
(* back to something that was found in this turn.                          *)
(***************************************************************************)
THEOREM ProvenanceCorrect == Spec => []Provenance
<1>1. Init => Provenance
  BY ProvenanceInit
<1>2. TypeOK /\ Provenance /\ [Next]_vars => Provenance'
  BY ProvenanceNext
<1> QED BY <1>1, <1>2, TypeCorrect, PTL DEF Spec

-----------------------------------------------------------------------------
(***************************************************************************)
(* The turns that were taken.                                              *)
(***************************************************************************)

\* The record with which a turn of the program ends is admissible; what it
\* was open to is the window, or the window and a failed call.
LEMMA EndingAdmissible ==
  ASSUME TypeOK, Provenance,
         Excluded \/ SocketFails \/ SkipDown \/ SkipDriver \/ PrintStats
  PROVE  \E o, lines, seen :
           /\ InTurn /\ EndTurn(o, lines, seen)
           /\ seen \in {window, window \cup {Absent}}
           /\ R!Admissible([name |-> cur, outcome |-> o, window |-> seen,
                            block |-> lines])
           /\ UNCHANGED <<kernel, bus>>
<1> USE DEF FromFlags1, FromDrvinfo, FromLink, FromMac, FromInet, FromInet6,
              FromBus, FromUevent, FromFlags2
<1>1. CASE Excluded
  <2>1. R!Admissible([name |-> cur, outcome |-> "excluded",
                      window |-> window, block |-> NoLines])
    BY <1>1 DEF Excluded, R!Admissible, R!Excludes
  <2> QED BY <1>1, <2>1 DEF Excluded, InTurn, env
<1>2. CASE SocketFails
  <2>1. R!Admissible([name |-> cur, outcome |-> "nosocket",
                      window |-> window \cup {Absent}, block |-> NoLines])
    BY <1>2 DEF SocketFails, R!Admissible, R!Excludes
  <2> QED BY <1>2, <2>1 DEF SocketFails, InTurn, Fault
<1>3. ASSUME NEW e, Finds(e), pc \in FromFlags1
      PROVE  /\ window \cup {e} \in {window, window \cup {Absent}}
             /\ UNCHANGED <<kernel, bus>>
  <2>1. kernel[cur] \in window
    BY <1>3 DEF Provenance, TestsPassed
  <2>2. window \cup {kernel[cur]} = window
    BY <2>1
  <2>3. CASE e = kernel[cur] /\ UNCHANGED env
    BY <2>2, <2>3 DEF env
  <2>4. CASE e = Absent /\ Fault
    BY <2>4 DEF Fault
  <2> QED BY <1>3, <2>3, <2>4 DEF Finds
<1>4. CASE SkipDown
  <2>1. PICK e \in Observable :
          /\ pc = "flags1" /\ ~IsUp(e) /\ ~ShowDown /\ Finds(e)
          /\ EndTurn("down", NoLines, window \cup {e})
    BY <1>4 DEF SkipDown
  <2>2. ~R!Excludes(cur) /\ ~R!ShowsDown(cur) /\ ~R!Running(e)
    BY <2>1, AccessorsTell
       DEF Provenance, TestsPassed, ShowDown, R!ShowsDown
  <2>3. R!Admissible([name |-> cur, outcome |-> "down",
                      window |-> window \cup {e}, block |-> NoLines])
    BY <2>2 DEF R!Admissible
  <2> QED BY <1>3, <2>1, <2>3 DEF InTurn
<1>5. CASE SkipDriver
  <2>1. PICK e \in Observable :
          /\ pc = "drvinfo" /\ ~DriverAccepted(EthtoolDrvinfo(e)) /\ Finds(e)
          /\ EndTurn("otherdriver", NoLines, window \cup {e})
    BY <1>5 DEF SkipDriver
  <2>2. /\ ~R!Excludes(cur) /\ ~R!Passes(R!DriverOf(e))
        /\ R!ShowsDown(cur) \/ \E u \in window : R!Running(u)
    BY <2>1, AccessorsTell, FilterAgrees DEF Provenance, TestsPassed
  <2>3. R!Admissible([name |-> cur, outcome |-> "otherdriver",
                      window |-> window \cup {e}, block |-> NoLines])
    BY <2>2 DEF R!Admissible
  <2> QED BY <1>3, <2>1, <2>3 DEF InTurn
<1>6. CASE PrintStats
  <2>1. PICK e \in Observable :
          /\ pc = "stats" /\ Finds(e)
          /\ EndTurn("shown", [block EXCEPT !.stats = Stats(e)],
                     window \cup {e})
    BY <1>6 DEF PrintStats
  <2> DEFINE l == [block EXCEPT !.stats = Stats(e)]
             W == window \cup {e}
  <2>2. /\ l.stats = R!Tells(e).stats
        /\ l.link = block.link /\ l.mac = block.mac
        /\ l.v4 = block.v4 /\ l.v6 = block.v6
        /\ l.driver = block.driver /\ l.bus = block.bus
        /\ l.pci = block.pci /\ l.detail = block.detail
        /\ l.flags = block.flags
        /\ l.mtu = block.mtu /\ l.metric = block.metric
    BY AccessorsTell DEF TypeOK, BlockType
  <2> HIDE DEF l
  <2>3. R!LinesHold(l, W)
    BY <2>1, <2>2
       DEF Provenance, EarlyLinesHold, LateLinesHold, R!LinesHold
  <2>4. R!DriverLinesHold(l, W)
    <3>1. PICK d \in window : info = R!DriverOf(d) /\ R!Passes(info)
      BY <2>1 DEF Provenance, TestsPassed
    <3>2. R!IdentifiedAs(info, l.pci, W)
      BY <2>1, <2>2, IdentifiedLonger DEF Provenance, BusLinesHold
    <3> QED
      BY <2>1, <2>2, <3>1, <3>2
         DEF Provenance, BusLinesHold, R!DriverLinesHold
  <2>5. /\ ~R!Excludes(cur)
        /\ R!ShowsDown(cur) \/ \E u \in W : R!Running(u)
    BY <2>1 DEF Provenance, TestsPassed
  <2>6. R!Admissible([name |-> cur, outcome |-> "shown", window |-> W,
                      block |-> l])
    BY <2>3, <2>4, <2>5 DEF R!Admissible
  <2> QED BY <1>3, <2>1, <2>6 DEF InTurn, l
<1> QED BY <1>1, <1>2, <1>4, <1>5, <1>6

LEMMA AdmissibleNext ==
  TypeOK /\ Provenance /\ TurnsAdmissible /\ [Next]_vars => TurnsAdmissible'
<1> SUFFICES ASSUME TypeOK, Provenance, TurnsAdmissible, [Next]_vars
             PROVE  TurnsAdmissible'
  OBVIOUS
<1>1. CASE Excluded \/ SocketFails \/ SkipDown \/ SkipDriver \/ PrintStats
  <2>1. PICK o, lines, seen :
          /\ EndTurn(o, lines, seen)
          /\ R!Admissible([name |-> cur, outcome |-> o, window |-> seen,
                           block |-> lines])
          /\ UNCHANGED bus
    BY <1>1, EndingAdmissible
  <2> DEFINE t == [name |-> cur, outcome |-> o, window |-> seen,
                   block |-> lines]
  <2>2. /\ Len(turns) \in Nat /\ Len(turns') = Len(turns) + 1
        /\ \A i \in 1 .. Len(turns) : turns'[i] = turns[i]
        /\ turns'[Len(turns')] = t
    BY <2>1, EndTurnAppends
  <2>3. R!Admissible(t)
    BY <2>1
  <2> HIDE DEF t
  <2>4. UNCHANGED <<opts, bus, table>>
    BY <2>1 DEF EndTurn
  <2>5. \A i \in 1 .. Len(turns') : R!Admissible(turns'[i])
    <3>1. \A i \in 1 .. Len(turns') : i \in 1 .. Len(turns) \/ i = Len(turns')
      BY <2>2
    <3> QED BY <2>2, <2>3, <3>1 DEF TurnsAdmissible, TurnIndices
  <2>6. \A u : R!Admissible(u)' <=> R!Admissible(u)
    BY <2>4, PromiseStable
  <2>7. ASSUME NEW i \in 1 .. Len(turns')
        PROVE  R!Admissible(turns[i])'
    BY <2>5, <2>6
  <2> QED BY <2>7 DEF TurnsAdmissible, TurnIndices
<1>2. CASE Enumerate
  <2>1. turns' = << >>
    BY <1>2 DEF Enumerate, Provenance, TableRight
  <2>2. TurnIndices' = {}
    BY <2>1 DEF TurnIndices
  <2> QED BY <2>2 DEF TurnsAdmissible
<1>3. CASE \/ ListInterfaces \/ ListFails \/ NextName \/ OpenSocket \/ CheckUp
           \/ GetDrvinfo \/ PrintHeader \/ PrintMac \/ PrintInet \/ PrintInet6
           \/ PrintDriver \/ ReadUevent \/ ReadDevlink \/ PrintFlags
           \/ PrintMtu \/ PrintMetric \/ Finish \/ UNCHANGED vars
           \/ \E n \in Names, e \in Observable : KernelChanges(n, e)
  <2>1. UNCHANGED <<opts, bus, table, turns>>
    BY <1>3
       DEF ListInterfaces, ListFails, NextName, OpenSocket, CheckUp,
           GetDrvinfo, PrintHeader, PrintMac, PrintInet, PrintInet6,
           PrintDriver, ReadUevent, ReadDevlink, PrintFlags, PrintMtu,
           PrintMetric, Finish, KernelChanges, Call, Finds, Fault, env, vars
  <2>2. \A u : R!Admissible(u)' <=> R!Admissible(u)
    BY <2>1, PromiseStable
  <2>3. TurnIndices' = TurnIndices
    BY <2>1 DEF TurnIndices
  <2>4. ASSUME NEW i \in TurnIndices PROVE R!Admissible(turns[i])'
    <3>1. R!Admissible(turns[i])
      BY DEF TurnsAdmissible
    <3>2. turns'[i] = turns[i]
      BY <2>1
    <3> QED BY <2>2, <3>1, <3>2
  <2> QED BY <2>1, <2>3, <2>4 DEF TurnsAdmissible
<1> QED BY <1>1, <1>2, <1>3 DEF Next, Program, Exited

(***************************************************************************)
(* Whatever the kernel does, and whichever calls fail: a turn's outcome    *)
(* has a reason true in the turn, and so has each line of a block.         *)
(***************************************************************************)
THEOREM TurnsAdmissibleCorrect == Spec => []TurnsAdmissible
<1>1. Init => TurnsAdmissible
  BY DEF Init, TurnsAdmissible, TurnIndices
<1>2. TypeOK /\ Provenance /\ TurnsAdmissible /\ [Next]_vars
        => TurnsAdmissible'
  BY AdmissibleNext
<1> QED BY <1>1, <1>2, TypeCorrect, ProvenanceCorrect, PTL DEF Spec

\* An admissible turn that saw one state of an interface is exact about it.
LEMMA OneStateIsExact ==
  ASSUME NEW t, NEW e \in Ifaces, R!Admissible(t), t.window = {e}
  PROVE  /\ t.outcome = R!Verdict(t.name, e)
         /\ t.outcome = "shown" => Exact(t.block, e)
<1>1. e # Absent
  BY KernelAssumption
<1>2. t.outcome = R!Verdict(t.name, e)
  BY <1>1 DEF R!Admissible, R!Verdict, R!DriverLinesHold
<1>3. ASSUME t.outcome = "shown" PROVE Exact(t.block, e)
  <2>1. R!LinesHold(t.block, {e}) /\ R!DriverLinesHold(t.block, {e})
    BY <1>3 DEF R!Admissible
  <2>2. DOMAIN R!Tells(e) = {"link", "mac", "v4", "v6", "flags", "mtu",
                             "metric", "stats"}
    BY <1>1 DEF R!Tells
  <2>3. /\ t.block.link = R!Tells(e).link /\ t.block.mac = R!Tells(e).mac
        /\ t.block.v4 = R!Tells(e).v4 /\ t.block.v6 = R!Tells(e).v6
        /\ t.block.flags = R!Tells(e).flags /\ t.block.mtu = R!Tells(e).mtu
        /\ t.block.metric = R!Tells(e).metric
        /\ t.block.stats = R!Tells(e).stats
    BY <2>1 DEF R!LinesHold
  <2> QED BY <2>1, <2>2, <2>3 DEF Exact
<1> QED BY <1>2, <1>3

(***************************************************************************)
(* An interface that keeps still and answers for its turn gets exactly the *)
(* turn and the block it should.                                           *)
(***************************************************************************)
THEOREM QuietTurnIsExactCorrect == Spec => []QuietTurnIsExact
<1>1. TurnsAdmissible => QuietTurnIsExact
  BY OneStateIsExact DEF TurnsAdmissible, QuietTurnIsExact
<1> QED BY <1>1, TurnsAdmissibleCorrect, PTL

-----------------------------------------------------------------------------
(***************************************************************************)
(* The program implements Report.                                          *)
(***************************************************************************)
Mapped == <<kernel, bus, opts, IF InTurn THEN "turn" ELSE pc,
            table = EmptyTable, todo, cur, window, turns>>

LEMMA RefinesInit == Init => R!RepInit
BY SameKernel DEF Init, R!RepInit, InTurn

\* A call within a turn is a question left without an answer, or nothing.
LEMMA RefinesCall ==
  ASSUME TypeOK, Provenance, NEW p \in FromFlags1, NEW q \in FromFlags1,
         NEW e \in Observable, Call(p, q, e)
  PROVE  R!Unanswered \/ UNCHANGED R!repvars
<1> USE DEF FromFlags1, FromDrvinfo, FromLink, FromMac, FromInet, FromInet6,
            FromBus, FromUevent, FromFlags2
<1>1. InTurn /\ InTurn'
  BY DEF Call, InTurn
<1>2. kernel[cur] \in window
  BY DEF Call, Provenance, TestsPassed
<1>3. UNCHANGED <<kernel, bus, opts, table, todo, cur, turns>>
  BY DEF Call, Finds, Fault, env
<1>4. window' \in {window, window \cup {Absent}}
  BY <1>2 DEF Call, Finds
<1>5. CASE window' = window
  <2>1. UNCHANGED Mapped
    BY <1>1, <1>3, <1>5 DEF Mapped
  <2> QED BY <2>1 DEF R!repvars, Mapped
<1>6. CASE window' = window \cup {Absent}
  BY <1>1, <1>3, <1>6 DEF R!Unanswered
<1> QED BY <1>4, <1>5, <1>6

LEMMA RefinesNext ==
  TypeOK /\ Provenance /\ [Next]_vars => [R!RepNext]_(R!repvars)
<1> SUFFICES ASSUME TypeOK, Provenance, [Next]_vars
             PROVE  R!RepNext \/ UNCHANGED R!repvars
  OBVIOUS
<1>1. CASE Enumerate
  <2>1. R!KnowCards
    BY <1>1 DEF Enumerate, R!KnowCards, InTurn, Fault, env
  <2> QED BY <2>1 DEF R!RepNext
<1>2. CASE ListInterfaces \/ ListFails
  <2>1. R!List
    BY <1>2 DEF ListInterfaces, ListFails, R!List, InTurn, Fault, env
  <2> QED BY <2>1 DEF R!RepNext
<1>3. CASE NextName
  <2>1. R!Begin
    BY <1>3 DEF NextName, R!Begin, R!First, Least, InTurn, env
  <2> QED BY <2>1 DEF R!RepNext
<1>4. CASE Excluded \/ SocketFails \/ SkipDown \/ SkipDriver \/ PrintStats
  <2>1. PICK o, lines, seen :
          /\ InTurn /\ EndTurn(o, lines, seen)
          /\ seen \in {window, window \cup {Absent}}
          /\ R!Admissible([name |-> cur, outcome |-> o, window |-> seen,
                           block |-> lines])
          /\ UNCHANGED <<kernel, bus>>
    BY <1>4, EndingAdmissible
  <2> DEFINE t == [name |-> cur, outcome |-> o, window |-> seen,
                   block |-> lines]
  <2>2. turns' = Append(turns, t) /\ turns'[Len(turns')] = t
    BY <2>1, EndTurnAppends DEF EndTurn
  <2>3. t.name = cur /\ t.window = seen /\ R!Admissible(t)
    BY <2>1
  <2> HIDE DEF t
  <2>4. R!EndOfTurn
    BY <2>1, <2>2, <2>3 DEF R!EndOfTurn, EndTurn, InTurn
  <2> QED BY <2>4 DEF R!RepNext
<1>5. CASE OpenSocket \/ PrintDriver
  <2>1. UNCHANGED Mapped
    BY <1>5 DEF OpenSocket, PrintDriver, Mapped, InTurn, env
  <2> QED BY <2>1 DEF R!repvars, Mapped
<1>6. CASE \/ CheckUp \/ GetDrvinfo \/ PrintHeader \/ PrintMac \/ PrintInet
           \/ PrintInet6 \/ PrintFlags \/ PrintMtu \/ PrintMetric
           \/ ReadUevent \/ ReadDevlink
  <2>1. PICK p \in FromFlags1, q \in FromFlags1, e \in Observable :
          Call(p, q, e)
    BY <1>6
       DEF CheckUp, GetDrvinfo, PrintHeader, PrintMac, PrintInet, PrintInet6,
           PrintFlags, PrintMtu, PrintMetric, ReadUevent, ReadDevlink,
           FromFlags1, FromDrvinfo, FromLink, FromMac, FromInet, FromInet6,
           FromBus, FromUevent, FromFlags2
  <2> QED BY <2>1, RefinesCall DEF R!RepNext
<1>7. CASE Finish
  <2>1. R!Done
    BY <1>7 DEF Finish, R!Done, InTurn, env
  <2> QED BY <2>1 DEF R!RepNext
<1>8. CASE \E n \in Names, e \in Observable : KernelChanges(n, e)
  <2>1. PICK n \in Names, e \in Observable : KernelChanges(n, e)
    BY <1>8
  <2>2. R!Change(n, e)
    BY <2>1 DEF KernelChanges, R!Change, InTurn
  <2> QED BY <2>1, <2>2, SameKernel DEF R!RepNext
<1>9. CASE UNCHANGED vars
  <2>1. UNCHANGED Mapped
    BY <1>9 DEF vars, Mapped, InTurn
  <2> QED BY <2>1 DEF R!repvars, Mapped
<1> QED
  BY <1>1, <1>2, <1>3, <1>4, <1>5, <1>6, <1>7, <1>8, <1>9
     DEF Next, Program, Exited

(***************************************************************************)
(* Every behaviour of the program, with every interference of the kernel,  *)
(* is one that Report allows.                                              *)
(***************************************************************************)
THEOREM Implementation == Spec => ImplementsReport
<1>1. Init => R!RepInit
  BY RefinesInit
<1>2. TypeOK /\ Provenance /\ [Next]_vars => [R!RepNext]_(R!repvars)
  BY RefinesNext
<1> QED
  BY <1>1, <1>2, TypeCorrect, ProvenanceCorrect, PTL
     DEF Spec, ImplementsReport, R!RepSpec
=============================================================================
