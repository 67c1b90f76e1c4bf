-------------------------------- MODULE IwDecode -------------------------------
(***************************************************************************)
(* A caller that decodes one stream to its end, as iw_process_scan does,    *)
(* and what it must have got by then.                                       *)
(***************************************************************************)
EXTENDS IwStream

CONSTANTS
  Events,     \* the events a driver writes
  MaxEvents   \* the bound on the events of a stream

ASSUME EventsAssumption ==
  /\ \A e \in Events : e.cmd \in STRING \X STRING /\ e.n \in Nat /\ e.num \in Nat
  /\ MaxEvents \in Nat

VARIABLES
  events,  \* what the driver wrote
  got      \* what the caller was given, for the properties

vars == <<streamVars, events, got>>

Streams == UNION {[1..k -> Events] : k \in 0..MaxEvents}

Init ==
  /\ weVersion \in WeVersions
  /\ events \in Streams
  /\ \E layout \in Layouts : InitStream(Encode(events, layout))
  /\ got = <<>>

\* What the caller sees of an event: what it points to, not the offset, and
\* nothing of a payload without length.
Given(event) ==
  [cmd |-> event.cmd, length |-> event.length,
   field |-> IF event.at = 0 \/ (HeaderType(event.cmd) = "POINT" /\ event.length = 0)
             THEN Pad ELSE ByteAt(event.at)]

\* The loop goes on as long as the decoder returns a positive number.
Next ==
  /\ ret > 0
  /\ Extract
  /\ got' = IF ret' = 1 THEN Append(got, Given(iwe')) ELSE got
  /\ UNCHANGED events

Spec == Init /\ [][Next]_vars
-----------------------------------------------------------------------------
TypeOK ==
  /\ ret \in {-2, -1, 0, 1, 2}
  /\ current \in Nat /\ value \in 0..Len(data)
  /\ iwe.at \in 0..Len(data) /\ iwe.length \in Nat

\* Only a faulty driver writes an event without a value, or without a byte, or
\* claims other tokens than it writes.
Filled == \A i \in DOMAIN events :
            HeaderType(events[i].cmd) = "POINT" \/ events[i].n > 0
Proper == Filled /\ \A i \in DOMAIN events : events[i].num = events[i].n

\* What e, the i-th event, carries, by its own description.
Carried(i, e) ==
  CASE HeaderType(e.cmd) = "POINT" ->
         <<[cmd |-> e.cmd, length |-> e.n,
            field |-> IF PayloadKept(e) THEN <<"payload", i, e.n>> ELSE Pad]>>
    [] HeaderType(e.cmd) = "NULL" -> <<>>
    [] OTHER -> [k \in 1..e.n |-> [cmd |-> e.cmd, length |-> 0,
                                   field |-> <<"value", i, k>>]]

\* What the first i events of a list carry, for every i.
CarriedUpTo(list) ==
  LET upTo[i \in 0..Len(list)] ==
        IF i = 0 THEN <<>> ELSE upTo[i - 1] \o Carried(i, list[i])
  IN upTo

\* The caller is given every value and every payload of a proper stream, in
\* order and each from the place where the driver put it, whether or not the
\* kernel padded the stream; a payload that its caller has no room for is
\* withheld, and its event is not lost (iwlib.c:2793-2906).
EventsArrive ==
  Proper => LET all == CarriedUpTo(events)[Len(events)]
            IN /\ Len(got) <= Len(all)
               /\ got = SubSeq(all, 1, Len(got))
               /\ ret <= 0 => ret = 0 /\ got = all

\* The payload handed out has the tokens its length announces within its own event.
Within == iwe.at # 0 => iwe.at + TokenLen(iwe.cmd, iwe.length) <= current

\* As long as no event lacks the value it announces, what a caller is handed is in the
\* stream: a value by its whole size, and a payload by the tokens its length announces
\* and within its own event, so that copying it reads nothing else.  Since the pointer
\* has left the stream that holds whatever number of tokens an event claims and
\* whatever its payload begins with; before, of events that claim what they carry
\* (iwlib.c:2804-2870).  A false claim may then be handed out as it is: the second reading
\* of a header is tested with another number than it leaves (PointEvent).
PayloadInEvent ==
  ret = 1 /\ Filled =>
    IF HeaderType(iwe.cmd) # "POINT"
    THEN iwe.at + FixedLen(iwe.cmd) <= Len(data)
    ELSE weVersion > 18 \/ Proper => Within

\* No call leaves the decoder where it was unless it ends the loop, and it
\* never goes back: the loop over a stream cannot hang (iwlib.c:3140-3161).
Advances ==
  [][ret' <= 0 \/ current' > current \/ (current' = current /\ value' > value)]_vars
==============================================================================
