------------------------------ MODULE MCKernel ------------------------------
(***************************************************************************)
(* Small kernels for TLC: a few interfaces that between them take every    *)
(* branch, and a bus on which two domains share an address.                *)
(***************************************************************************)
EXTENDS Kernel

CONSTANT usbBus   \* a bus name that is no PCI address

\* Cards: two network devices, a device of another class, an unreadable one.
MCCard(n, c, r) == [id |-> n, class |-> c, readable |-> r]
Ethernet == MCCard(1, 2, TRUE)
Wireless == MCCard(2, 13, TRUE)
Display  == MCCard(3, 3, TRUE)
Mute     == MCCard(4, 2, FALSE)
MCPciDevices == {Ethernet, Wireless, Display, Mute}

MCSlots == [domain : {0, 1}, bdf : {1, 2}]
SlotAt(d, b) == [domain |-> d, bdf |-> b]

\* Two network devices whose slots differ in the domain only, and one that is
\* no network device; then a bus where each address has one at most.
Aliased == [s \in MCSlots |->
  IF s = SlotAt(0, 1) THEN Ethernet
  ELSE IF s = SlotAt(1, 1) THEN Wireless
  ELSE IF s = SlotAt(0, 2) THEN Display ELSE None]
Plain == [s \in MCSlots |->
  IF s = SlotAt(0, 1) THEN Ethernet
  ELSE IF s = SlotAt(1, 2) THEN Wireless
  ELSE IF s = SlotAt(1, 1) THEN Mute ELSE None]

\* A card that is up; its driver gives its slot.
Nic == [flags |-> {"UP", "RUNNING", "LOWER_UP"}, link |-> 1, mac |-> 1,
        v4 |-> <<1>>, v6 |-> <<1, 2>>,
        info |-> [driver |-> "igb", bus |-> SlotAt(0, 1)],
        uevent |-> SlotAt(0, 1), devlink |-> SlotAt(0, 1),
        mtu |-> 1500, metric |-> 0, rx |-> 1, tx |-> 0,
        settings |-> TRUE, hwaddr |-> TRUE, wireless |-> None, irq |-> 1]

\* A card that is down; its driver gives no slot, sysfs does.
Wlan == [flags |-> {"BROADCAST"}, link |-> 0, mac |-> 2,
         v4 |-> << >>, v6 |-> << >>,
         info |-> [driver |-> "ath", bus |-> usbBus],
         uevent |-> SlotAt(1, 2), devlink |-> SlotAt(1, 2),
         mtu |-> 1400, metric |-> 2, rx |-> 0, tx |-> 0,
         settings |-> FALSE, hwaddr |-> TRUE, wireless |-> 7, irq |-> 6]

\* A USB adapter: no slot anywhere but in the name of its device link.
Usb == [Wlan EXCEPT !.flags = {"UP"}, !.uevent = None,
                    !.devlink = SlotAt(0, 2), !.mac = 1, !.rx = 5]

\* A USB adapter whose uevent names something else: the link is not tried.
Odd == [Usb EXCEPT !.uevent = usbBus, !.devlink = SlotAt(0, 1),
                   !.flags = {"UP", "ECHO"}, !.link = None]

\* One end of a virtual pair: a driver without a bus.
Veth == [Nic EXCEPT !.info.bus = NoBus, !.flags = {"DORMANT"},
                      !.mtu = 9000]

\* A tunnel: no driver.
Tunnel == [Nic EXCEPT !.info = None, !.link = None, !.rx = 0,
                      !.settings = FALSE, !.hwaddr = FALSE]

MCContains == {<<"igb", "i">>, <<"ath", "a">>, <<"igb", "">>, <<"ath", "">>}

MCOpts(a, v, n, d) == [all |-> a, verbose |-> v, named |-> n, driver |-> d]

ByDefault == MCOpts(FALSE, FALSE, {}, {})
AllOpts   == {ByDefault, MCOpts(TRUE, TRUE, {}, {"i"}),
              MCOpts(FALSE, TRUE, {1}, {}), MCOpts(TRUE, FALSE, {}, {}),
              MCOpts(FALSE, FALSE, {}, {"a", "i"})}

TwoIfaces  == {Nic, Wlan}
AllIfaces  == {Nic, Wlan, Usb, Odd, Veth, Tunnel}
=============================================================================
