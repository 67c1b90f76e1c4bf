------------------------------- MODULE MCIwDecode ------------------------------
(***************************************************************************)
(* Streams of a few events of every type, at the limits of their lengths.  *)
(***************************************************************************)
EXTENDS IwDecode

Event(d, name, n) == [cmd |-> <<d, name>>, n |-> n, num |-> n]

\* A payload of 4 bytes looks like padding to the decoder; 33 is the longest
\* name it hands out, and a list of thresholds has one entry.
Payloads == {Event("GIW", "ESSID", n) : n \in {0, 1, 4, 33, 34}}
              \cup {Event("IWEV", "CUSTOM", 8), Event("GIW", "THRSPY", 1),
                    Event("GIW", "THRSPY", 2)}
Fixed == {Event("GIW", "AP", 1), Event("GIW", "MODE", 1), Event("IWEV", "QUAL", 1),
          Event("GIW", "FREQ", 1), Event("GIW", "NAME", 1)}
            \cup {Event("GIW", "RATE", n) : n \in {1, 2, 3}}
Unknown == {Event("IWEV", "NEW", 4), Event("IWEV", "NEW", 5)}
Faulty  == {Event("GIW", "RATE", 0), Event("GIW", "AP", 0), Event("IWEV", "NEW", 0)}

\* Claims of more tokens than there are.  A payload of 9 bytes that begins with the
\* number 1 is as long as a padded one of a single token.
Lying   == {[Event("GIW", "ESSID", 4) EXCEPT !.num = 9],
            [Event("GIW", "ESSID", 9) EXCEPT !.num = 10]}

AllEvents == Payloads \cup Fixed \cup Unknown \cup Faulty \cup Lying
==============================================================================
