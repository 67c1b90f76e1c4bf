------------------------------ MODULE LegacyIfr ------------------------------
(***************************************************************************)
(* legacy/src/ifr.hpp and legacy/src/proc/: what each accessor of the C++  *)
(* program makes of the interface its kernel call finds.  None stands for  *)
(* the exception an accessor throws when its call fails.                   *)
(***************************************************************************)
EXTENDS Kernel

CONSTANTS
  UIntMax,      \* the largest unsigned int
  Garbage,      \* what memory that was never written may hold
  IrqRange,     \* the number of values of ifmap.irq, an unsigned char
  Interrupts    \* /proc/interrupts: the counters of an irq, one per CPU

ASSUME LegacyIfrAssumption ==
  /\ UIntMax \in Nat
  /\ Garbage \subseteq 0 .. UIntMax
  /\ IrqRange \in Nat \ {0}
  /\ DOMAIN Interrupts \subseteq Nat
  /\ \A irq \in DOMAIN Interrupts : Interrupts[irq] \in Seq(Nat)

\* The flag word of the kernel in a short int.
Flags(e) == IF e = Absent THEN None ELSE e.flags \cap I16Flags

\* The loop that ends one bit before the sign.
MUT_FlagsStr(e) == IF e = Absent THEN None ELSE Flags(e) \ {"DYNAMIC"}

\* The loop looks at three bits above the sixteen; there it finds the sign.
FlagsStr(e) ==
  IF e = Absent THEN None
  ELSE Flags(e) \cup (IF "DYNAMIC" \in Flags(e) THEN HighFlags ELSE {})

\* No answer is mistaken for an exception.
ASSUME AnswerAssumption ==
  /\ \A e \in Ifaces : Flags(e) # None /\ FlagsStr(e) # None
  /\ \A answer \in {"yes", "no", "settings"} : answer # None

EthtoolInfo(e) == IF e = Absent THEN None ELSE e.info

EthtoolCommand(e) == IF e # Absent /\ e.settings THEN "settings" ELSE None

EthtoolLink(e) ==
  IF e = Absent \/ e.link = None THEN None
  ELSE IF e.link = 0 THEN "no" ELSE "yes"

Mac(e) == IF e = Absent THEN None ELSE e.mac

Mtu(e) == IF e = Absent THEN None ELSE e.mtu

Metric(e) ==
  IF e = Absent THEN None ELSE IF e.metric = 0 THEN 1 ELSE e.metric

\* wifi_info: no wireless name, no wireless extension.
WifiInfo(e) == IF e = Absent THEN None ELSE e.wireless

\* get_wireless: zeros for a name that is not in the file.
WirelessStatus(e) == IF e = Absent \/ e.wireless = None THEN 0 ELSE e.wireless

InetAddr(e) == IF e = Absent THEN << >> ELSE e.v4

\* The entry of the link itself has no address: ifa_addr is null.
HasNullAddress(e) == e # Absent /\ ~e.hwaddr

Inet6Addr(e) == IF e = Absent THEN << >> ELSE e.v6

\* map().irq: the kernel's number cut to a byte.
MapIrq(e) == IF e = Absent THEN None ELSE e.irq % IrqRange

IntMax == UIntMax \div 2

\* get_interrupt_counter: the counters of an irq that the file has, up to the
\* first that does not fit an int.
GetInterruptCounter(irq) ==
  LET line == IF irq \in DOMAIN Interrupts THEN Interrupts[irq] ELSE << >>
      Fit(n) == \A i \in 1 .. n : line[i] <= IntMax
      read == CHOOSE n \in 0 .. Len(line) :
                Fit(n) /\ (n = Len(line) \/ ~Fit(n + 1))
  IN  SubSeq(line, 1, read)

\* " cpu" << n++ << ":" << ci, for the counters above zero.
CpuEvents(counters) ==
  LET shown[k \in 0 .. Len(counters)] ==
        IF k = 0 THEN << >>
        ELSE IF counters[k] > 0
        THEN Append(shown[k - 1], <<Len(shown[k - 1]), counters[k]>>)
        ELSE shown[k - 1]
  IN  shown[Len(counters)]

(***************************************************************************)
(* get_stats extracts counter after counter into unsigned ints.  One that  *)
(* does not fit is stored as the largest unsigned int and fails the        *)
(* stream, and the members after it keep what their memory held.           *)
(***************************************************************************)
ReadCounters(c) ==
  IF c[1] > UIntMax
  THEN {<<UIntMax, g>> : g \in Garbage}
  ELSE {<<c[1], IF c[2] > UIntMax THEN UIntMax ELSE c[2]>>}

\* The counters received and sent; None when the name is not in the file.
GetStats(e) == IF e = Absent THEN {None} ELSE ReadCounters(<<e.rx, e.tx>>)

TxQueueLen(e) == IF e = Absent THEN None ELSE "length"
=============================================================================
