------------------------------- MODULE MCLegacy ------------------------------
(***************************************************************************)
(* Small instances of Legacy for TLC.                                      *)
(***************************************************************************)
EXTENDS LegacyInv, MCKernel, TLC

\* The counters of irqs with events on every CPU; of one with a quiet CPU, and
\* of one with a counter beyond an int.
BusyInterrupts == (1 :> <<1, 2>>) @@ (2 :> <<3>>)
IdleInterrupts == (1 :> <<0, 3>>) @@ (2 :> <<3, 4>>)

\* A card whose counters go beyond an unsigned int.
Heavy == [Nic EXCEPT !.rx = 9]

\* A card that sets the sign bit of the flag word, and has no settings.
Dialup == [Nic EXCEPT !.flags = {"UP", "DYNAMIC"}, !.settings = FALSE]

\* A USB adapter that knows its link, and has neither link nor traffic.
Dongle == [Usb EXCEPT !.settings = TRUE, !.rx = 0]

\* A second card, in another slot, that is down.
Second == [Wlan EXCEPT !.info.bus = SlotAt(1, 2), !.settings = TRUE]

\* A virtual pair that is up.
Pair == [Veth EXCEPT !.flags = {"UP"}]

\* With --all and --verbose, several interfaces use the filter of the PCI
\* library, one after another.
Options == {ByDefault, MCOpts(TRUE, TRUE, {}, {}), MCOpts(FALSE, TRUE, {1}, {}),
            MCOpts(TRUE, FALSE, {}, {"a"})}

JustPlain == {Plain}
Cards  == {Nic, Second}
Sundry == {Nic, Dongle, Dialup, Veth, Tunnel, Heavy}
NicOrPair == {Nic, Pair}
==============================================================================
