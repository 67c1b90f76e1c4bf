------------------------------ MODULE PciUtils ------------------------------
(***************************************************************************)
(* src/pci_utils.rs: the table of PCI network devices, read once, and the  *)
(* lookup that turns the place of an interface into an entry of the table. *)
(***************************************************************************)
EXTENDS Kernel

\* The device classes kept: 0x02 (network) and 0x0d (wireless).
NetworkClasses == {2, 13}

\* A forgotten class filter.
MUT_Kept(d) == d # None /\ d.readable

Kept(d) == d # None /\ d.readable /\ d.class \in NetworkClasses

\* The text "{:02x}:{:02x}.{}" of a slot: the domain is not part of it.
AddressKey(slot) == slot.bdf

\* The last two ':'-separated parts of a bus name, when they are hexadecimal.
ParsePciAddress(b) == IF b \in Slots THEN AddressKey(b) ELSE None

EmptyTable == [k \in BDFs |-> None]

(***************************************************************************)
(* The tables enumeration may build from the devices on the bus.  Keys     *)
(* carry no domain, so devices of two domains may share one; the later of  *)
(* the two inserts wins, and the order is the library's.                   *)
(***************************************************************************)
DevicesAt(bus, k) ==
  {bus[s] : s \in {t \in Slots : AddressKey(t) = k /\ Kept(bus[t])}}

Tables(bus) ==
  {c \in [BDFs -> PciDevices \cup {None}] :
     \A k \in BDFs : IF DevicesAt(bus, k) = {}
                     THEN c[k] = None
                     ELSE c[k] \in DevicesAt(bus, k)}

\* HashMap::get(..).cloned() with the outcome of a parse.
Lookup(table, key) == IF key \in BDFs THEN table[key] ELSE None
=============================================================================
