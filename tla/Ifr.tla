-------------------------------- MODULE Ifr --------------------------------
(***************************************************************************)
(* src/ifr.rs, and get_inet6_addr, get_stats of src/proc.rs, on Linux:     *)
(* what each accessor makes of the interface its kernel call finds.  A     *)
(* call that fails and a name without an interface are the same to all of  *)
(* them, and main.rs turns the error into the value given here.            *)
(***************************************************************************)
EXTENDS Kernel

\* The flag word as the kernel gives it.
MUT_Flags(e) == IF e = Absent THEN {} ELSE e.flags

Flags(e) == IF e = Absent THEN {} ELSE e.flags \cap I16Flags

IsUp(e) == "UP" \in Flags(e)

\* flags_str, and its line: no line when it is empty.
FlagsStr(e) == IF Flags(e) = {} THEN None ELSE Flags(e)

EthtoolDrvinfo(e) == IF e = Absent THEN None ELSE e.info

EthtoolLink(e) ==
  IF e # Absent /\ e.link \in Nat \ {0} THEN "LINK UP" ELSE "NO LINK"

Mac(e) == IF e = Absent THEN None ELSE e.mac

InetAddrs(e) == IF e = Absent THEN << >> ELSE e.v4

Inet6Addr(e) == IF e = Absent THEN << >> ELSE e.v6

Mtu(e) == IF e = Absent THEN 0 ELSE e.mtu

\* A metric read as the kernel gives it.
MUT_Metric(e) == IF e = Absent THEN 0 ELSE e.metric

\* The kernel's 0 is shown as 1; only a failed call is shown as 0.
Metric(e) ==
  IF e = Absent THEN 0 ELSE IF e.metric = 0 THEN 1 ELSE e.metric

Stats(e) ==
  IF e # Absent /\ (e.rx > 0 \/ e.tx > 0) THEN [rx |-> e.rx, tx |-> e.tx] ELSE None

Uevent(e) == IF e = Absent THEN None ELSE e.uevent

Devlink(e) == IF e = Absent THEN None ELSE e.devlink
=============================================================================
