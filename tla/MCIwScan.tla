-------------------------------- MODULE MCIwScan -------------------------------
(***************************************************************************)
(* Scans of a few cells.  The lengths are scaled down: a buffer of 32 bytes *)
(* stands for the 4096 a scan starts with, and a length of 256, or 128,     *)
(* for the 65536 that a request cannot express.                            *)
(***************************************************************************)
EXTENDS IwScan

Event(d, name, n, num) == [cmd |-> <<d, name>>, n |-> n, num |-> num]
Ap   == Event("GIW", "AP", 1, 1)
Name(n) == Event("GIW", "ESSID", n, n)
Key(n)  == Event("GIW", "ENCODE", n, n)
Mode(m) == Event("GIW", "MODE", 1, m)
Qual == Event("IWEV", "QUAL", 1, 1)
Rates(n, speed) == Event("GIW", "RATE", n, speed)
Other == Event("IWEV", "CUSTOM", 4, 4)

Nothing   == <<>>
OneCell   == <<Ap, Name(4)>>
TwoCells  == <<Ap, Rates(3, 2), Mode(2), Ap, Qual>>
LongNames == <<Ap, Name(34), Key(5), Ap, Rates(1, 4), Rates(1, 1), Name(0)>>
Odd       == <<Other, Ap>>
Headless  == <<Qual, Ap>>
Several   == <<Ap, Mode(9), Event("GIW", "NWID", 1, 1), Event("GIW", "FREQ", 1, 1),
               Key(65)>>

\* 4 events of 24 bytes: longer than any buffer whose length the small modulus
\* can express when it grows by doubling.
Crowd == <<Ap, Ap, Ap, Ap>>

SmallLists == {Nothing, OneCell, TwoCells, LongNames, Odd, Headless, Several}
Crowds     == {Crowd}

\* The theorems about the cells are about lists like these.
ASSUME ScansAssumption == \A list \in SmallLists \cup Crowds : ProperList(list)
==============================================================================
