----------------------------- MODULE IwDecodeProofs ----------------------------
(***************************************************************************)
(* Theorems about IwDecode, for streams of any events of any length.        *)
(***************************************************************************)
EXTENDS IwDecode, IwStreamProofs

\* The decoder is at the end of event i of the list; if it has a value to come, then
\* that is a value of the next event, whole and behind its header.
Standing(off, i) == Stands(events, off, i, current, value)

\* The bytes are those of the events, and the decoder stands between two of them.
Between ==
  /\ data \in Seq(Bytes) /\ ret \in {-2, -1, 0, 1, 2} /\ weVersion \in Nat
  /\ Len(events) \in Nat /\ \A i \in 1..Len(events) : IsEvent(events[i])
  /\ DOMAIN events = 1..Len(events)
  /\ iwe = [cmd |-> iwe.cmd, at |-> iwe.at, length |-> iwe.length]
  /\ iwe.at \in 0..Len(data) /\ iwe.length \in Nat
  /\ \E layout \in Layouts : \E off :
       Laid(events, layout, off) /\ \E i \in 0..Len(events) : Standing(off, i)

-----------------------------------------------------------------------------
\* A stream that stays is laid as it was.
LEMMA SameStream ==
  ASSUME UNCHANGED <<data, weVersion>>, UNCHANGED events,
         NEW layout \in Layouts, NEW off, Laid(events, layout, off)
  PROVE  layout \in Layouts' /\ Laid(events, layout, off)'
<1>1. \A cmd : FixedLen(cmd)' = FixedLen(cmd)
  BY DEF FixedLen, PointOff
<1>2. \A i, e : Body(i, e, layout)' = Body(i, e, layout)
  BY <1>1 DEF Body, PointOff
<1>3. \A i, e : EventBytes(i, e, layout)' = EventBytes(i, e, layout)
  BY <1>2 DEF EventBytes
<1>4. Laid(events, layout, off)'
  BY <1>3 DEF Laid
<1>5. layout \in Layouts'
  BY DEF Layouts
<1> QED BY <1>4, <1>5

\* What a step of the loop does to the decoder's place.
LEMMA ExtractStep ==
  ASSUME Between, NEW layout \in Layouts, NEW off, Laid(events, layout, off),
         NEW i \in 0..Len(events), Standing(off, i), Extract, UNCHANGED events
  PROVE  /\ Between'
         /\ \E k \in 0..Len(events) : Standing(off, k)'
         /\ ret' <= 0 \/ current' > current \/ (current' = current /\ value' > value)
         /\ Filled /\ ret' = 1 /\ HeaderType(iwe'.cmd) # "POINT" =>
              iwe'.at + FixedLen(iwe'.cmd) <= Len(data)
         /\ Word = 4 /\ ret' = 1 /\ HeaderType(iwe'.cmd) = "POINT" /\ (weVersion > 18 \/ Proper) =>
              (iwe'.at # 0 => iwe'.at + TokenLen(iwe'.cmd, iwe'.length) <= current')
<1> HIDE DEF Bytes
<1>0. Written(events, layout, off) /\ Stands(events, off, i, current, value)
  BY DEF Between, Written, Standing
<1> DEFINE j == i + 1
<1>1. UNCHANGED <<data, weVersion>>
  BY DEF Extract, EndOfStream, InvalidEvent, UnknownEvent, TruncatedEvent, PointEvent,
         ValueEvent, Return
<1>2. layout \in Layouts' /\ Laid(events, layout, off)'
  BY <1>1, SameStream
<1>3. /\ off[i] \in Nat /\ off[i] <= Len(data) /\ Len(data) \in Nat
      /\ HasHeader <=> i < Len(events)
      /\ i < Len(events) =>
           /\ off[j] \in Nat /\ off[j] <= Len(data)
           /\ EvLen = off[j] - off[i] /\ EvLen >= 4
           /\ Cmd = events[j].cmd
      /\ current = off[i]
  BY <1>0, AtHeader DEF Stands
<1>4. /\ Len(events) \in Nat /\ (i < Len(events) => j \in 0..Len(events) /\ j \in 1..Len(events))
      /\ DOMAIN events = 1..Len(events)
  BY DEF Between
<1> DEFINE Moved == \/ \E k \in 0..Len(events) : Standing(off, k)'
           Whole == /\ iwe' = [cmd |-> iwe'.cmd, at |-> iwe'.at, length |-> iwe'.length]
                    /\ iwe'.at \in 0..Len(data) /\ iwe'.length \in Nat
                    /\ ret' \in {-2, -1, 0, 1, 2}
<1>5. ASSUME Moved, Whole PROVE Between'
  <2>1. \E k \in 0..Len(events)' : Standing(off, k)'
    BY <1>5
  <2> HIDE DEF Moved
  <2> QED BY <1>1, <1>2, <1>5, <2>1 DEF Between
<1> HIDE DEF Whole
<1>6. ASSUME i < Len(events), current' = off[j], value' = 0 PROVE Moved
  <2>1. Standing(off, j)'
    BY <1>6 DEF Standing, Stands
  <2>2. j \in 0..Len(events)
    BY <1>4, <1>6
  <2> HIDE DEF j
  <2> QED BY <2>1, <2>2
<1>7. CASE EndOfStream
  <2>1. UNCHANGED <<current, value, iwe>> /\ ret' = 0
    BY <1>7 DEF EndOfStream, Return
  <2>2. Standing(off, i)'
    <3>1. \A cmd : FixedLen(cmd)' = FixedLen(cmd)
      BY <1>1 DEF FixedLen, PointOff
    <3> QED BY <2>1, <3>1 DEF Standing, Stands
  <2>3. Whole
    BY <1>1, <2>1 DEF Between, Whole
  <2> QED BY <1>5, <2>1, <2>2, <2>3
<1>8. CASE InvalidEvent
  <2>1. UNCHANGED <<current, value>> /\ ret' = -1 /\ iwe' = [iwe EXCEPT !.cmd = Cmd]
    BY <1>8 DEF InvalidEvent, Return
  <2>2. Standing(off, i)'
    <3>1. \A cmd : FixedLen(cmd)' = FixedLen(cmd)
      BY <1>1 DEF FixedLen, PointOff
    <3> QED BY <2>1, <3>1 DEF Standing, Stands
  <2>3. iwe' = [cmd |-> Cmd, at |-> iwe.at, length |-> iwe.length]
    BY <2>1 DEF Between
  <2>4. Whole
    BY <1>1, <2>1, <2>3 DEF Between, Whole
  <2> QED BY <1>5, <2>1, <2>2, <2>4
<1>9. CASE UnknownEvent \/ TruncatedEvent
  <2>1. /\ i < Len(events) /\ current' = current + EvLen /\ value' = value
        /\ iwe' = [iwe EXCEPT !.cmd = Cmd]
    BY <1>3, <1>9 DEF UnknownEvent, TruncatedEvent, Return, KnownEvent
  <2>2. /\ ret' \in {2, -2} /\ (ret' = 2 => EvLen > 4)
    BY <1>9 DEF UnknownEvent, TruncatedEvent, Return, IW_EV_LCP_PK_LEN
  <2>3. value = 0
    <3>1. ASSUME value # 0 PROVE FALSE
      <4>1. /\ HeaderType(Cmd) \notin {"POINT", "NULL"}
            /\ value + FixedLen(Cmd) <= off[j]
            /\ value \in Nat
        BY <1>3, <2>1, <3>1 DEF Standing, Stands
      <4>2. FixedLen(Cmd) \in {4, 8, 16}
        BY <4>1, HeaderTypes, FixedLens
      <4>3. ValueFits
        BY <1>3, <2>1, <3>1, <4>1, <4>2 DEF ValueFits, Pointer
      <4> QED BY <1>9, <4>2, <4>3 DEF UnknownEvent, TruncatedEvent
    <3> QED BY <3>1
  <2>4. iwe' = [cmd |-> Cmd, at |-> iwe.at, length |-> iwe.length]
    BY <2>1 DEF Between
  <2>5. Whole
    BY <1>1, <2>2, <2>4 DEF Between, Whole
  <2>6. current' = off[j]
    BY <1>3, <2>1
  <2>7. Moved
    BY <1>6, <2>1, <2>3, <2>6
  <2>8. ret' <= 0 \/ current' > current
    BY <1>3, <2>1, <2>2
  <2> HIDE DEF Moved
  <2>9. Between'
    BY <1>5, <2>5, <2>7
  <2> QED BY <2>2, <2>7, <2>8, <2>9 DEF Moved
<1>10. CASE PointEvent
  <2>1. /\ i < Len(events) /\ HeaderType(events[j].cmd) = "POINT"
        /\ current' = off[j] /\ value' = 0 /\ ret' = 1
        /\ iwe' = [cmd |-> events[j].cmd, at |-> iwe'.at, length |-> iwe'.length]
        /\ iwe'.at \in 0..Len(data) /\ iwe'.length \in Nat
        /\ Word = 4 /\ weVersion > 18 /\ iwe'.at # 0 =>
             iwe'.at + TokenLen(iwe'.cmd, iwe'.length) <= current'
    BY <1>0, <1>10, PointStep
  <2>7. Word = 4 /\ Proper /\ iwe'.at # 0 =>
          iwe'.at + TokenLen(iwe'.cmd, iwe'.length) <= current'
    <3> SUFFICES ASSUME Word = 4, Proper
                 PROVE  iwe'.at # 0 => iwe'.at + TokenLen(iwe'.cmd, iwe'.length) <= current'
      OBVIOUS
    <3>1. events[i + 1].num = events[i + 1].n
      BY <1>4, <2>1 DEF Proper
    <3> QED BY <1>0, <1>10, <3>1, PointArrives
  <2>2. iwe'.cmd = events[j].cmd
    BY <2>1
  <2>3. Moved
    BY <1>6, <2>1
  <2>4. current' > current
    <3>1. EvLen > 4
      BY <1>10 DEF PointEvent, KnownEvent, IW_EV_LCP_PK_LEN
    <3> QED BY <1>3, <2>1, <3>1
  <2>5. Whole
    BY <2>1, <2>2 DEF Whole
  <2> HIDE DEF Moved
  <2>6. Between'
    BY <1>5, <2>3, <2>5
  <2> QED BY <2>1, <2>2, <2>3, <2>4, <2>6, <2>7 DEF Moved
<1>11. CASE ValueEvent
  <2>1. /\ i < Len(events) /\ HeaderType(events[j].cmd) \notin {"POINT", "NULL"}
        /\ ret' = 1
        /\ iwe' = [cmd |-> events[j].cmd, at |-> iwe'.at, length |-> 0]
        /\ iwe'.at \in 0..Len(data)
        /\ events[j].n > 0 => iwe'.at + FixedLen(events[j].cmd) <= Len(data)
        /\ \/ current' = off[j] /\ value' = 0
           \/ /\ current' = current /\ value' \in Nat /\ value' > value
              /\ value' >= current + 4
              /\ value' + FixedLen(events[j].cmd) <= off[j]
    BY <1>0, <1>11, ValueStep
  <2>2. iwe'.cmd = events[j].cmd /\ iwe'.length = 0
    BY <2>1
  <2>3. Moved
    <3>1. CASE current' = off[j] /\ value' = 0
      BY <1>6, <2>1, <3>1
    <3>2. CASE ~(current' = off[j] /\ value' = 0)
      <4>1. \A cmd : FixedLen(cmd)' = FixedLen(cmd)
        BY <1>1 DEF FixedLen, PointOff
      <4>2. Standing(off, i)'
        BY <1>3, <2>1, <3>2, <4>1 DEF Standing, Stands
      <4> QED BY <4>2
    <3> QED BY <3>1, <3>2
  <2>4. current' > current \/ (current' = current /\ value' > value)
    <3>1. EvLen > 4
      BY <1>11 DEF ValueEvent, KnownEvent, IW_EV_LCP_PK_LEN
    <3> QED BY <1>3, <2>1, <3>1
  <2>5. Whole
    BY <2>1, <2>2 DEF Whole
  <2>6. Filled => events[j].n > 0
    BY <1>4, <2>1 DEF Filled
  <2> HIDE DEF Moved
  <2>7. Between'
    BY <1>5, <2>3, <2>5
  <2> QED BY <2>1, <2>2, <2>3, <2>4, <2>6, <2>7 DEF Moved
<1> QED BY <1>7, <1>8, <1>9, <1>10, <1>11 DEF Extract

-----------------------------------------------------------------------------
\* The loop starts at the first event of what the driver wrote.
LEMMA BetweenInit == Init => Between
<1> HIDE DEF Bytes
<1> SUFFICES ASSUME Init PROVE Between
  OBVIOUS
<1>1. PICK layout \in Layouts : InitStream(Encode(events, layout))
  BY DEF Init
<1>2. PICK n \in 0..MaxEvents : events \in [1..n -> Events]
  BY DEF Init, Streams
<1>3. n \in Nat
  BY EventsAssumption
<1>4. Len(events) = n /\ DOMAIN events = 1..n
  BY <1>2, <1>3
<1>5. \A i \in 1..Len(events) : IsEvent(events[i])
  BY <1>2, <1>4, EventsAssumption DEF IsEvent, Commands
<1>6. data = Encode(events, layout) /\ current = 0 /\ value = 0 /\ iwe = NoEvent /\ ret = 1
  BY <1>1 DEF InitStream
<1>7. data \in Seq(Bytes) /\ \E off : Laid(events, layout, off)
  BY <1>3, <1>4, <1>5, <1>6, EncodeLaid
<1>8. PICK off : Laid(events, layout, off)
  BY <1>7
<1>9. Standing(off, 0)
  BY <1>6, <1>8 DEF Standing, Stands, Laid
<1>10. weVersion \in Nat
  BY VersionAssumption DEF Init
<1>11. Len(data) \in Nat
  BY <1>7
<1>12. /\ iwe = [cmd |-> iwe.cmd, at |-> iwe.at, length |-> iwe.length]
       /\ iwe.at \in 0..Len(data) /\ iwe.length \in Nat
  <2>1. NoEvent = [cmd |-> NoEvent.cmd, at |-> NoEvent.at, length |-> NoEvent.length]
    BY DEF NoEvent
  <2>2. NoEvent.at = 0 /\ NoEvent.length = 0
    BY DEF NoEvent
  <2> QED BY <1>6, <1>11, <2>1, <2>2
<1>13. 0 \in 0..Len(events)
  BY <1>3, <1>4
<1> QED BY <1>3, <1>4, <1>5, <1>6, <1>7, <1>8, <1>9, <1>10, <1>12, <1>13 DEF Between

\* The loop stays between the events, whatever they are.
LEMMA BetweenStep == Between /\ [Next]_vars => Between'
<1> HIDE DEF Bytes
<1> SUFFICES ASSUME Between, [Next]_vars PROVE Between'
  OBVIOUS
<1>1. PICK layout, off :
        layout \in Layouts /\ Laid(events, layout, off) /\ \E i \in 0..Len(events) : Standing(off, i)
  BY DEF Between
<1>2. PICK i \in 0..Len(events) : Standing(off, i)
  BY <1>1
<1>3. CASE Next
  BY <1>1, <1>2, <1>3, ExtractStep DEF Next
<1>4. CASE UNCHANGED vars
  <2>1. UNCHANGED <<data, current, value, iwe, ret, weVersion>> /\ UNCHANGED events
    BY <1>4 DEF vars, streamVars
  <2>2. layout \in Layouts' /\ Laid(events, layout, off)'
    BY <1>1, <2>1, SameStream
  <2>3. Standing(off, i)'
    BY <1>2, <2>1 DEF Standing, Stands, FixedLen, PointOff
  <2> QED BY <1>2, <2>1, <2>2, <2>3 DEF Between
<1> QED BY <1>3, <1>4

\* At every call the decoder stands between two events of what the driver wrote, and
\* what is left of an event with several values is whole: the inductive invariant.
THEOREM BetweenCorrect == Spec => []Between
<1>1. Init => Between
  BY BetweenInit
<1>2. Between /\ [Next]_vars => Between'
  BY BetweenStep
<1> QED BY <1>1, <1>2, PTL DEF Spec

\* The decoder returns one of the five answers of iw_extract_event_stream and never
\* points outside of the stream (iwlib.c:2701-2906).
THEOREM TypeCorrect == Spec => []TypeOK
<1>1. Between => TypeOK
  <2> HIDE DEF Bytes
  <2> SUFFICES ASSUME Between PROVE TypeOK
    OBVIOUS
  <2>1. PICK layout, off :
          layout \in Layouts /\ Laid(events, layout, off) /\ \E i \in 0..Len(events) : Standing(off, i)
    BY DEF Between
  <2>2. PICK i \in 0..Len(events) : Standing(off, i)
    BY <2>1
  <2>3. /\ off[i] \in Nat /\ off[i] <= Len(data) /\ Len(data) \in Nat
        /\ i < Len(events) => off[i + 1] \in Nat /\ off[i + 1] <= Len(data)
    <3>1. Written(events, layout, off) /\ Stands(events, off, i, current, value)
      BY <2>1, <2>2 DEF Between, Written, Standing
    <3> QED BY <3>1, AtHeader
  <2>4. current \in Nat
    BY <2>2, <2>3 DEF Standing, Stands
  <2>5. value \in 0..Len(data)
    <3>1. CASE value = 0
      BY <2>3, <3>1
    <3>2. CASE value # 0
      <4>1. /\ value \in Nat /\ i < Len(events)
            /\ value + FixedLen(events[i + 1].cmd) <= off[i + 1]
        BY <2>2, <3>2 DEF Standing, Stands
      <4>2. FixedLen(events[i + 1].cmd) \in Nat
        BY FixedLens
      <4> QED BY <2>3, <4>1, <4>2
    <3> QED BY <3>1, <3>2
  <2> QED BY <2>4, <2>5 DEF TypeOK, Between
<1>2. Spec => []Between
  BY BetweenCorrect
<1> QED BY <1>1, <1>2, PTL

\* No call of the loop over a stream leaves the decoder where it was, whatever the
\* lengths of the events: the loop ends (iwlib.c:3140-3161).
THEOREM AdvancesCorrect == Spec => Advances
<1>1. Between /\ [Next]_vars =>
        [ret' <= 0 \/ current' > current \/ (current' = current /\ value' > value)]_vars
  <2> HIDE DEF Bytes
  <2> SUFFICES ASSUME Between, Next
               PROVE  ret' <= 0 \/ current' > current \/ (current' = current /\ value' > value)
    OBVIOUS
  <2>1. PICK layout, off :
          layout \in Layouts /\ Laid(events, layout, off) /\ \E i \in 0..Len(events) : Standing(off, i)
    BY DEF Between
  <2>2. PICK i \in 0..Len(events) : Standing(off, i)
    BY <2>1
  <2> QED BY <2>1, <2>2, ExtractStep DEF Next
<1>2. Spec => []Between
  BY BetweenCorrect
<1> QED BY <1>1, <1>2, PTL DEF Spec, Advances

\* In a 32-bit program, what a caller is handed of a stream without an event that lacks
\* its value is in that stream, whether or not the kernel padded it: for version 19 and
\* later whatever number of tokens a payload claims and whatever it begins with, for
\* earlier ones if no event claims tokens it does not have (iwlib.c:2793-2906).
THEOREM PayloadCorrect ==
  ASSUME Word = 4
  PROVE  Spec => []PayloadInEvent
<1>1. Init => PayloadInEvent
  <2> HIDE DEF Bytes
  <2> SUFFICES ASSUME Init PROVE PayloadInEvent
    OBVIOUS
  <2>1. iwe = NoEvent
    BY DEF Init, InitStream
  <2>2. NoEvent.cmd = <<"", "">> /\ NoEvent.at = 0
    BY DEF NoEvent
  <2>3. HeaderType(<<"", "">>) = "NULL"
    BY DEF HeaderType, Tokens, RequestTokens, AddrNames, ParamNames
  <2>4. FixedLen(iwe.cmd) = 0 /\ HeaderType(iwe.cmd) # "POINT"
    BY <2>1, <2>2, <2>3, FixedLens
  <2>5. Between
    BY BetweenInit
  <2>6. Len(data) \in Nat
    BY <2>5 DEF Between
  <2>7. iwe.at = 0
    BY <2>1, <2>2
  <2>8. iwe.at + FixedLen(iwe.cmd) <= Len(data)
    BY <2>4, <2>6, <2>7
  <2> QED BY <2>4, <2>8, Zenon DEF PayloadInEvent
<1>2. Between /\ PayloadInEvent /\ [Next]_vars => PayloadInEvent'
  <2> HIDE DEF Bytes
  <2> SUFFICES ASSUME Between, PayloadInEvent, [Next]_vars PROVE PayloadInEvent'
    OBVIOUS
  <2>1. \A cmd : FixedLen(cmd)' = FixedLen(cmd) /\ HeaderType(cmd)' = HeaderType(cmd)
    <3>1. weVersion' = weVersion
      BY DEF Next, vars, streamVars, Extract, EndOfStream, InvalidEvent, UnknownEvent,
             TruncatedEvent, PointEvent, ValueEvent, Return
    <3> QED BY <3>1 DEF FixedLen, PointOff
  <2>2. UNCHANGED <<data, events, weVersion>>
    BY DEF Next, vars, streamVars, Extract, EndOfStream, InvalidEvent, UnknownEvent,
           TruncatedEvent, PointEvent, ValueEvent, Return
  <2>3. Filled' = Filled /\ Proper' = Proper
    BY <2>2 DEF Filled, Proper
  <2>4. CASE Next
    <3>1. PICK layout, off :
            layout \in Layouts /\ Laid(events, layout, off) /\ \E i \in 0..Len(events) : Standing(off, i)
      BY DEF Between
    <3>2. PICK i \in 0..Len(events) : Standing(off, i)
      BY <3>1
    <3>3. /\ Filled /\ ret' = 1 /\ HeaderType(iwe'.cmd) # "POINT" =>
               iwe'.at + FixedLen(iwe'.cmd) <= Len(data)
          /\ ret' = 1 /\ HeaderType(iwe'.cmd) = "POINT" /\ (weVersion > 18 \/ Proper) =>
               (iwe'.at # 0 => iwe'.at + TokenLen(iwe'.cmd, iwe'.length) <= current')
      BY <2>4, <3>1, <3>2, ExtractStep DEF Next
    <3> QED BY <2>1, <2>2, <2>3, <3>3 DEF PayloadInEvent, Within
  <2>5. CASE UNCHANGED vars
    <3>1. UNCHANGED <<data, current, iwe, ret>>
      BY <2>5 DEF vars, streamVars
    <3> QED BY <2>1, <2>2, <2>3, <3>1 DEF PayloadInEvent, Within
  <2> QED BY <2>4, <2>5
<1>3. Spec => []Between
  BY BetweenCorrect
<1> QED BY <1>1, <1>2, <1>3, PTL DEF Spec

-----------------------------------------------------------------------------
(* What the caller is given of a proper stream *)

\* What a caller can be given of an event.
Handed == [cmd : Commands, length : Nat, field : Bytes]

\* Drivers put a number of 4 bytes and a quality alone in their event: the decoder
\* takes two of them for one that is padded (iwlib.c:2877-2885).
SingleNumbers == \A e \in Events : HeaderType(e.cmd) \in {"UINT", "QUAL"} => e.n <= 1

\* What an event carries is a list of such things.
LEMMA CarriedType ==
  ASSUME NEW i \in Nat, NEW e, IsEvent(e)
  PROVE  /\ Carried(i, e) \in Seq(Handed)
         /\ HeaderType(e.cmd) = "POINT" =>
              Carried(i, e) = <<[cmd |-> e.cmd, length |-> e.n,
                                 field |-> IF PayloadKept(e) THEN <<"payload", i, e.n>>
                                           ELSE Pad]>>
         /\ HeaderType(e.cmd) = "NULL" => Carried(i, e) = << >>
         /\ HeaderType(e.cmd) \notin {"POINT", "NULL"} =>
              /\ Len(Carried(i, e)) = e.n
              /\ \A k \in 1..e.n : Carried(i, e)[k] = [cmd |-> e.cmd, length |-> 0,
                                                       field |-> <<"value", i, k>>]
<1>1. e.cmd \in Commands /\ e.n \in Nat
  BY DEF IsEvent
<1> HIDE DEF Commands
<1>2. CASE HeaderType(e.cmd) = "POINT"
  <2> DEFINE f == IF PayloadKept(e) THEN <<"payload", i, e.n>> ELSE Pad
  <2>1. Carried(i, e) = <<[cmd |-> e.cmd, length |-> e.n, field |-> f]>>
    BY <1>2 DEF Carried
  <2>2. f \in Bytes
    <3>1. Pad \in Bytes /\ <<"payload", i, e.n>> \in Bytes
      BY <1>1, ByteType DEF Pad, Kinds
    <3> HIDE DEF Bytes
    <3> QED BY <3>1
  <2> HIDE DEF f, Bytes
  <2>3. [cmd |-> e.cmd, length |-> e.n, field |-> f] \in Handed
    BY <1>1, <2>2 DEF Handed
  <2>4. Carried(i, e) \in Seq(Handed)
    <3> HIDE DEF Handed
    <3> QED BY <2>1, <2>3
  <2> QED BY <1>2, <2>1, <2>4 DEF f
<1>3. CASE HeaderType(e.cmd) = "NULL"
  <2>1. Carried(i, e) = << >>
    BY <1>3 DEF Carried
  <2> HIDE DEF Handed
  <2> QED BY <1>3, <2>1
<1>4. CASE HeaderType(e.cmd) \notin {"POINT", "NULL"}
  <2> DEFINE v(k) == [cmd |-> e.cmd, length |-> 0, field |-> <<"value", i, k>>]
  <2>1. Carried(i, e) = [k \in 1..e.n |-> v(k)]
    BY <1>4 DEF Carried
  <2>2. ASSUME NEW k \in 1..e.n PROVE v(k) \in Handed
    <3>1. <<"value", i, k>> \in Bytes
      BY ByteType DEF Kinds
    <3> HIDE DEF Bytes
    <3> QED BY <1>1, <3>1 DEF Handed
  <2> HIDE DEF v, Handed
  <2>3. [k \in 1..e.n |-> v(k)] \in Seq(Handed)
    BY <1>1, <2>2
  <2>4. Len([k \in 1..e.n |-> v(k)]) = e.n
    BY <1>1
  <2>5. \A k \in 1..e.n : Carried(i, e)[k] = v(k)
    BY <2>1
  <2> QED BY <1>4, <2>1, <2>3, <2>4, <2>5 DEF v
<1> QED BY <1>2, <1>3, <1>4

\* What the events of a list carry, one after another.
LEMMA CarriedJoined ==
  ASSUME NEW list, Len(list) \in Nat, \A i \in 1..Len(list) : IsEvent(list[i])
  PROVE  Prefixes(CarriedUpTo(list), [i \in 1..Len(list) |-> Carried(i, list[i])],
                  Len(list), Handed)
<1> DEFINE n == Len(list)
           parts == [i \in 1..n |-> Carried(i, list[i])]
           Solves(g) == g = [i \in 0..n |-> IF i = 0 THEN << >>
                                            ELSE g[i - 1] \o Carried(i, list[i])]
           upTo == CHOOSE g : Solves(g)
<1> HIDE DEF Handed
<1>1. \A i \in 1..n : /\ Carried(i, list[i]) \in Seq(Handed)
                      /\ parts[i] = Carried(i, list[i])
  BY CarriedType
<1>2. ASSUME NEW g PROVE Joined(g, parts, n) <=> Solves(g)
  <2> DEFINE A(i) == IF i = 0 THEN << >> ELSE g[i - 1] \o parts[i]
             B(i) == IF i = 0 THEN << >> ELSE g[i - 1] \o Carried(i, list[i])
  <2>1. ASSUME NEW i \in 0..n PROVE A(i) = B(i)
    <3>1. CASE i = 0
      BY <3>1
    <3>2. CASE i # 0
      <4>1. parts[i] = Carried(i, list[i])
        BY <1>1, <3>2
      <4> HIDE DEF parts
      <4> QED BY <4>1
    <3> QED BY <3>1, <3>2
  <2>2. [i \in 0..n |-> A(i)] = [i \in 0..n |-> B(i)]
    <3> HIDE DEF A, B
    <3> QED BY <2>1
  <2>3. Joined(g, parts, n) <=> g = [i \in 0..n |-> A(i)]
    BY DEF Joined
  <2>4. Solves(g) <=> g = [i \in 0..n |-> B(i)]
    OBVIOUS
  <2> HIDE DEF A, B, Solves
  <2> QED BY <2>2, <2>3, <2>4
<1>3. Joined(upTo, parts, n)
  <2>1. \E g : Joined(g, parts, n)
    BY JoinExists
  <2>2. \E g : Solves(g)
    <3> HIDE DEF Solves, parts
    <3> QED BY <1>2, <2>1
  <2>3. Solves(upTo)
    <3> HIDE DEF Solves
    <3> QED BY <2>2
  <2> HIDE DEF Solves, upTo, parts
  <2> QED BY <1>2, <2>3
<1>4. CarriedUpTo(list) = upTo
  BY DEF CarriedUpTo
<1> HIDE DEF upTo
<1>5. \A i \in 1..n : parts[i] \in Seq(Handed)
  BY <1>1
<1>6. n \in Nat
  OBVIOUS
<1>7. Prefixes(upTo, parts, n, Handed)
  <2> HIDE DEF n, parts
  <2> QED BY <1>3, <1>5, <1>6, JoinPrefix
<1> QED BY <1>4, <1>7

\* Sequences that grow by one element of another.
LEMMA TakeOne ==
  \A S : \A s, c \in Seq(S) : \A k \in Nat :
    k < Len(c) => Append(s \o SubSeq(c, 1, k), c[k + 1]) = s \o SubSeq(c, 1, k + 1)
<1> SUFFICES ASSUME NEW S, NEW s \in Seq(S), NEW c \in Seq(S), NEW k \in Nat, k < Len(c)
             PROVE  Append(s \o SubSeq(c, 1, k), c[k + 1]) = s \o SubSeq(c, 1, k + 1)
  BY Zenon
<1>1. SubSeq(c, 1, k) \in Seq(S) /\ c[k + 1] \in S
  OBVIOUS
<1>2. SubSeq(c, 1, k + 1) = SubSeq(c, 1, k) \o <<c[k + 1]>>
  OBVIOUS
<1>3. Append(s \o SubSeq(c, 1, k), c[k + 1]) = (s \o SubSeq(c, 1, k)) \o <<c[k + 1]>>
  BY <1>1
<1>4. (s \o SubSeq(c, 1, k)) \o <<c[k + 1]>> = s \o (SubSeq(c, 1, k) \o <<c[k + 1]>>)
  <2>1. <<c[k + 1]>> \in Seq(S)
    BY <1>1
  <2>2. \A t, u \in Seq(S) : (s \o t) \o u = s \o (t \o u)
    BY ConcatAssociative, SMTT(30)
  <2> QED BY <1>1, <2>1, <2>2, Zenon
<1> QED BY <1>2, <1>3, <1>4

\* And at the ends of it.
LEMMA OneMore ==
  ASSUME NEW S, NEW s \in Seq(S), NEW c \in Seq(S)
  PROVE  /\ s \o << >> = s /\ s \o SubSeq(c, 1, 0) = s
         /\ s \o SubSeq(c, 1, Len(c)) = s \o c
         /\ \A x \in S : Append(s, x) = s \o <<x>>
<1>1. SubSeq(c, 1, 0) = << >> /\ SubSeq(c, 1, Len(c)) = c
  OBVIOUS
<1>2. s \o << >> = s /\ \A x \in S : Append(s, x) = s \o <<x>>
  OBVIOUS
<1> QED BY <1>1, <1>2

\* What the caller has got when the decoder has read i events and k values of the next
\* one: all that they carry, and nothing else.
Handing(layout, off, i, k) ==
  /\ HasRead(events, layout, off, i, k, current, value)
  /\ ret \in {0, 1, 2} /\ (ret = 0 => i = Len(events) /\ k = 0)
  /\ got = IF k = 0 THEN CarriedUpTo(events)[i]
           ELSE CarriedUpTo(events)[i] \o SubSeq(Carried(i + 1, events[i + 1]), 1, k)

\* A proper stream is handed out in order.
InOrder ==
  Proper =>
    /\ \A i \in 1..Len(events) : ProperEvent(events[i])
    /\ \E layout \in Layouts : \E off :
         /\ Laid(events, layout, off)
         /\ \E i \in 0..Len(events) : \E k \in Nat : Handing(layout, off, i, k)

\* What a caller has after one call more.
LEMMA HandingStep ==
  ASSUME Word = 4, Between, Next,
         \A i \in 1..Len(events) : ProperEvent(events[i]),
         NEW layout \in Layouts, NEW off, Laid(events, layout, off),
         NEW i \in 0..Len(events), NEW k \in Nat, Handing(layout, off, i, k)
  PROVE  \E m \in 0..Len(events) : \E q \in Nat : Handing(layout, off, m, q)'
<1> HIDE DEF Bytes, Handed
<1> DEFINE j    == i + 1
           e    == events[j]
           c    == Carried(j, e)
           upTo == CarriedUpTo(events)
<1>1. /\ Extract /\ UNCHANGED events
      /\ got' = IF ret' = 1 THEN Append(got, Given(iwe')) ELSE got
  BY DEF Next
<1>2. UNCHANGED <<data, weVersion, events>>
  BY <1>1 DEF Extract, EndOfStream, InvalidEvent, UnknownEvent, TruncatedEvent, PointEvent,
         ValueEvent, Return
<1>3. \A cmd : FixedLen(cmd)' = FixedLen(cmd)
  BY <1>2 DEF FixedLen, PointOff
<1>4. Written(events, layout, off)
  BY DEF Between, Written
<1>5. Len(events) \in Nat /\ \A m \in 1..Len(events) : IsEvent(events[m])
  BY DEF Between
<1>6. Prefixes(upTo, [m \in 1..Len(events) |-> Carried(m, events[m])], Len(events), Handed)
  BY <1>5, CarriedJoined
<1>7. upTo[i] \in Seq(Handed)
  BY <1>6, Zenon DEF Prefixes
<1>8. CarriedUpTo(events)' = upTo /\ c' = c
  BY <1>1
<1> HIDE DEF upTo
<1>9. ASSUME i < Len(events)
      PROVE  /\ j \in 1..Len(events) /\ j \in 0..Len(events) /\ j \in Nat
             /\ IsEvent(e) /\ e.n \in Nat
             /\ upTo[j] = upTo[i] \o c /\ c \in Seq(Handed)
  <2>1. j \in 1..Len(events) /\ j - 1 = i /\ j \in Nat /\ j \in 0..Len(events)
    BY <1>5, <1>9
  <2> HIDE DEF j
  <2>2. IsEvent(e) /\ e.n \in Nat
    BY <1>5, <2>1 DEF IsEvent
  <2>3. [m \in 1..Len(events) |-> Carried(m, events[m])][j] = Carried(j, e)
    BY <2>1
  <2>4. upTo[j] = upTo[j - 1] \o [m \in 1..Len(events) |-> Carried(m, events[m])][j]
    BY <1>6, <2>1, Zenon DEF Prefixes
  <2>5. Carried(j, e) \in Seq(Handed)
    BY <2>1, <2>2, CarriedType
  <2> QED BY <2>1, <2>2, <2>3, <2>4, <2>5
<1>10. got = upTo[i] \o SubSeq(c, 1, k) \/ (k = 0 /\ got = upTo[i])
  BY DEF Handing, upTo
<1>11. ASSUME NEW m \in 0..Len(events), NEW q \in Nat,
              HasRead(events, layout, off, m, q, current', value'),
              ret' \in {0, 1, 2}, ret' = 0 => m = Len(events) /\ q = 0,
              got' = IF q = 0 THEN upTo[m] ELSE upTo[m] \o SubSeq(Carried(m + 1, events[m + 1]), 1, q)
       PROVE  Handing(layout, off, m, q)'
  <2>1. HasRead(events, layout, off, m, q, current, value)'
    BY <1>1, <1>3, <1>11 DEF HasRead, Stands
  <2>2. got' = IF q = 0 THEN CarriedUpTo(events)'[m]
               ELSE CarriedUpTo(events)'[m] \o SubSeq(Carried(m + 1, events[m + 1])', 1, q)
    BY <1>1, <1>8, <1>11
  <2> QED BY <1>1, <1>11, <2>1, <2>2 DEF Handing
<1>12. ASSUME i < Len(events), HasRead(events, layout, off, j, 0, current', value'),
              ret' \in {1, 2}, got' = upTo[j]
       PROVE  \E m \in 0..Len(events) : \E q \in Nat : Handing(layout, off, m, q)'
  <2>1. j \in 0..Len(events) /\ 0 \in Nat
    BY <1>9, <1>12
  <2>2. Handing(layout, off, j, 0)'
    BY <1>11, <1>12, <2>1
  <2> QED BY <2>1, <2>2
<1>13. CASE AtEnd(events, i, k)
  <2>1. i = Len(events) /\ k = 0 /\ ret' = 0 /\ got' = upTo[i]
        /\ current' = current /\ value' = value
    BY <1>1, <1>10, <1>13, OneMore, <1>7 DEF AtEnd, Handing, upTo
  <2>2. HasRead(events, layout, off, i, 0, current', value')
    BY <2>1 DEF Handing
  <2>3. Handing(layout, off, i, 0)'
    BY <1>11, <2>1, <2>2
  <2> QED BY <2>3
<1>14. CASE PassesEvent(events, layout, off, i, k)
  <2>1. /\ i < Len(events) /\ HeaderType(e.cmd) = "NULL" /\ k = 0 /\ ret' = 2
        /\ HasRead(events, layout, off, j, 0, current', value')
    BY <1>14 DEF PassesEvent
  <2>2. c = << >>
    BY <1>9, <2>1, CarriedType
  <2>3. upTo[j] = upTo[i] /\ got = upTo[i]
    BY <1>7, <1>9, <2>1, <2>2, OneMore DEF Handing, upTo
  <2> QED BY <1>1, <1>12, <2>1, <2>3
<1>15. CASE ReadsPayload(events, layout, off, i, k)
  <2>1. /\ i < Len(events) /\ HeaderType(e.cmd) = "POINT" /\ k = 0 /\ ret' = 1
        /\ iwe'.cmd = e.cmd /\ iwe'.length = e.n
        /\ PayloadKept(e) => iwe'.at # 0 /\ ByteAt(iwe'.at) = <<"payload", j, e.n>>
        /\ ~PayloadKept(e) => iwe'.at = 0 \/ e.n = 0
        /\ HasRead(events, layout, off, j, 0, current', value')
    BY <1>15 DEF ReadsPayload
  <2> DEFINE f == IF PayloadKept(e) THEN <<"payload", j, e.n>> ELSE Pad
             g == [cmd |-> e.cmd, length |-> e.n, field |-> f]
  <2>2. c = <<g>>
    BY <1>9, <2>1, CarriedType
  <2>3. Given(iwe') = g
    <3>1. PayloadKept(e) => e.n # 0
      BY <1>9, <2>1 DEF PayloadKept
    <3>2. f = IF iwe'.at = 0 \/ (HeaderType(e.cmd) = "POINT" /\ e.n = 0) THEN Pad
              ELSE ByteAt(iwe'.at)
      BY <2>1, <3>1
    <3> HIDE DEF f
    <3> QED BY <2>1, <3>2 DEF Given
  <2> HIDE DEF g, c
  <2>4. g \in Handed /\ got = upTo[i]
    <3>1. <<g>> \in Seq(Handed)
      BY <1>9, <2>1, <2>2
    <3> QED BY <2>1, <3>1, ElementOfSeq DEF Handing, upTo
  <2>5. got' = upTo[j]
    <3>1. got' = Append(upTo[i], g)
      BY <1>1, <2>1, <2>3, <2>4
    <3>2. Append(upTo[i], g) = upTo[i] \o <<g>>
      BY <1>7, <2>4, OneMore
    <3> QED BY <1>9, <2>1, <2>2, <3>1, <3>2
  <2> QED BY <1>12, <2>1, <2>5
<1>16. CASE ReadsValue(events, layout, off, i, k)
  <2>1. /\ i < Len(events) /\ HeaderType(e.cmd) \notin {"POINT", "NULL"} /\ k < e.n
        /\ ret' = 1 /\ iwe'.cmd = e.cmd /\ iwe'.length = 0
        /\ iwe'.at # 0 /\ ByteAt(iwe'.at) = <<"value", j, k + 1>>
        /\ IF k + 1 < e.n THEN HasRead(events, layout, off, i, k + 1, current', value')
                          ELSE HasRead(events, layout, off, j, 0, current', value')
    BY <1>16 DEF ReadsValue
  <2> DEFINE g == [cmd |-> e.cmd, length |-> 0, field |-> <<"value", j, k + 1>>]
  <2>2. Given(iwe') = g
    BY <2>1 DEF Given
  <2>3. c \in Seq(Handed) /\ Len(c) = e.n /\ e.n \in Nat /\ c[k + 1] = g
    <3>1. k + 1 \in 1..e.n
      BY <1>9, <2>1
    <3>2. /\ Len(Carried(j, e)) = e.n
          /\ \A m \in 1..e.n : Carried(j, e)[m] = [cmd |-> e.cmd, length |-> 0,
                                                   field |-> <<"value", j, m>>]
      <4> HIDE DEF j
      <4> QED BY <1>9, <2>1, CarriedType, ZenonT(40)
    <3> QED BY <1>9, <2>1, <3>2
  <2> HIDE DEF c, g
  <2>4. got = upTo[i] \o SubSeq(c, 1, k)
    <3>1. upTo[i] \o SubSeq(c, 1, 0) = upTo[i]
      BY <1>7, <2>3, OneMore
    <3> QED BY <1>10, <3>1
  <2>5. got' = upTo[i] \o SubSeq(c, 1, k + 1)
    <3>1. got' = Append(upTo[i] \o SubSeq(c, 1, k), c[k + 1])
      BY <1>1, <2>1, <2>2, <2>3, <2>4
    <3>2. \A m \in Nat : m < Len(c) =>
            Append(upTo[i] \o SubSeq(c, 1, m), c[m + 1]) = upTo[i] \o SubSeq(c, 1, m + 1)
      BY <1>7, <2>3, TakeOne, Zenon
    <3>3. k < Len(c)
      BY <2>1, <2>3
    <3> QED BY <3>1, <3>2, <3>3, Zenon
  <2>6. CASE k + 1 < e.n
    <3>1. HasRead(events, layout, off, i, k + 1, current', value') /\ k + 1 \in Nat /\ k + 1 # 0
      BY <2>1, <2>6
    <3>2. got' = IF k + 1 = 0 THEN upTo[i]
                 ELSE upTo[i] \o SubSeq(Carried(i + 1, events[i + 1]), 1, k + 1)
      BY <2>5, <3>1 DEF c
    <3>3. Handing(layout, off, i, k + 1)'
      <4> DEFINE q == k + 1
      <4>1. HasRead(events, layout, off, i, q, current', value') /\ q \in Nat
            /\ got' = (IF q = 0 THEN upTo[i]
                       ELSE upTo[i] \o SubSeq(Carried(i + 1, events[i + 1]), 1, q))
        BY <3>1, <3>2
      <4> HIDE DEF q
      <4>2. Handing(layout, off, i, q)'
        BY <1>11, <2>1, <4>1
      <4> QED BY <4>2 DEF q
    <3> QED BY <3>1, <3>3
  <2>7. CASE ~(k + 1 < e.n)
    <3>1. HasRead(events, layout, off, j, 0, current', value') /\ k + 1 = Len(c)
      BY <2>1, <2>3, <2>7
    <3>2. got' = upTo[i] \o c
      <4>1. upTo[i] \o SubSeq(c, 1, Len(c)) = upTo[i] \o c
        BY <1>7, <2>3, OneMore
      <4> QED BY <2>5, <3>1, <4>1, Zenon
    <3> QED BY <1>9, <1>12, <2>1, <3>1, <3>2
  <2> QED BY <2>6, <2>7
<1>17. HasRead(events, layout, off, i, k, current, value)
  BY DEF Handing
<1>18. \/ AtEnd(events, i, k) \/ PassesEvent(events, layout, off, i, k)
       \/ ReadsPayload(events, layout, off, i, k) \/ ReadsValue(events, layout, off, i, k)
  BY <1>1, <1>4, <1>17, Arrives
<1> QED BY <1>13, <1>14, <1>15, <1>16, <1>18

\* At the first call nothing was handed out.
LEMMA InOrderInit ==
  ASSUME SingleNumbers, Init
  PROVE  InOrder
<1> HIDE DEF Bytes, Handed
<1> SUFFICES ASSUME Proper PROVE InOrder
  BY DEF InOrder
<1>1. PICK layout \in Layouts : InitStream(Encode(events, layout))
  BY DEF Init
<1>2. Between
  BY BetweenInit
<1>3. /\ Len(events) \in Nat /\ \A i \in 1..Len(events) : IsEvent(events[i])
      /\ DOMAIN events = 1..Len(events)
  BY <1>2 DEF Between
<1>4. data = Encode(events, layout) /\ current = 0 /\ value = 0 /\ ret = 1
  BY <1>1 DEF InitStream
<1>5. PICK off : Laid(events, layout, off)
  BY <1>3, <1>4, EncodeLaid
<1>6. HasRead(events, layout, off, 0, 0, current, value)
  BY <1>4, <1>5 DEF HasRead, Stands, Laid
<1>7. CarriedUpTo(events)[0] = << >>
  <2>1. Prefixes(CarriedUpTo(events), [k \in 1..Len(events) |-> Carried(k, events[k])],
                 Len(events), Handed)
    BY <1>3, CarriedJoined
  <2> QED BY <2>1, Zenon DEF Prefixes
<1>8. Handing(layout, off, 0, 0)
  BY <1>4, <1>6, <1>7 DEF Handing, Init
<1>9. \A i \in 1..Len(events) : ProperEvent(events[i])
  <2>1. PICK n \in 0..MaxEvents : events \in [1..n -> Events]
    BY DEF Init, Streams
  <2>2. DOMAIN events = 1..n
    BY <2>1
  <2>3. \A i \in 1..Len(events) : events[i] \in Events
    BY <1>3, <2>1, <2>2
  <2>4. \A i \in 1..Len(events) : /\ HeaderType(events[i].cmd) = "POINT" \/ events[i].n > 0
                                  /\ events[i].num = events[i].n
    BY <1>3 DEF Proper, Filled
  <2> QED BY <2>3, <2>4 DEF SingleNumbers, ProperEvent
<1>10. 0 \in 0..Len(events) /\ 0 \in Nat
  BY <1>3
<1> QED BY <1>5, <1>8, <1>9, <1>10 DEF InOrder

\* Every call keeps the order.
LEMMA InOrderStep ==
  ASSUME Word = 4, Between, InOrder, [Next]_vars
  PROVE  InOrder'
<1> HIDE DEF Bytes, Handed
<1>1. UNCHANGED <<data, weVersion, events>>
  BY DEF Next, vars, streamVars, Extract, EndOfStream, InvalidEvent, UnknownEvent,
         TruncatedEvent, PointEvent, ValueEvent, Return
<1>2. Proper' <=> Proper
  BY <1>1 DEF Proper, Filled
<1> SUFFICES ASSUME Proper PROVE InOrder'
  BY <1>2 DEF InOrder
<1>3. \A i \in 1..Len(events) : ProperEvent(events[i])
  BY DEF InOrder
<1>4. PICK layout, off :
        /\ layout \in Layouts
        /\ Laid(events, layout, off)
        /\ \E i \in 0..Len(events) : \E k \in Nat : Handing(layout, off, i, k)
  BY DEF InOrder
<1>5. PICK i \in 0..Len(events), k \in Nat : Handing(layout, off, i, k)
  BY <1>4
<1>6. layout \in Layouts' /\ Laid(events, layout, off)'
  BY <1>1, <1>4, SameStream
<1>7. \E m \in 0..Len(events) : \E q \in Nat : Handing(layout, off, m, q)'
  <2>1. CASE Next
    BY <1>3, <1>4, <1>5, <2>1, HandingStep
  <2>2. CASE UNCHANGED vars
    <3>1. UNCHANGED <<data, current, value, ret, weVersion, events, got>>
      BY <2>2 DEF vars, streamVars
    <3>2. Handing(layout, off, i, k)'
      BY <1>5, <3>1 DEF Handing, HasRead, Stands, FixedLen, PointOff
    <3> QED BY <3>2
  <2> QED BY <2>1, <2>2
<1>8. \A m \in 1..Len(events)' : ProperEvent(events[m])'
  BY <1>1, <1>3 DEF ProperEvent
<1>9. \E m \in 0..Len(events)' : \E q \in Nat : Handing(layout, off, m, q)'
  BY <1>1, <1>7
<1> QED BY <1>6, <1>8, <1>9 DEF InOrder

\* A sequence that another begins with is the first part of it.
LEMMA FirstPart ==
  \A S : \A s, t \in Seq(S) :
    Len(s) <= Len(t) /\ (\A k \in 1..Len(s) : t[k] = s[k]) => s = SubSeq(t, 1, Len(s))
<1> SUFFICES ASSUME NEW S, NEW s \in Seq(S), NEW t \in Seq(S), Len(s) <= Len(t),
                    \A k \in 1..Len(s) : t[k] = s[k]
             PROVE  s = SubSeq(t, 1, Len(s))
  BY Zenon
<1>1. SubSeq(t, 1, Len(s)) \in Seq(S) /\ Len(SubSeq(t, 1, Len(s))) = Len(s)
  OBVIOUS
<1>2. \A k \in 1..Len(s) : SubSeq(t, 1, Len(s))[k] = s[k]
  OBVIOUS
<1> QED BY <1>1, <1>2, SeqEqual

\* What was handed out so far begins what there is to hand out.
LEMMA InOrderArrives ==
  ASSUME Between, InOrder
  PROVE  EventsArrive
<1> HIDE DEF Bytes, Handed
<1> SUFFICES ASSUME Proper
             PROVE  LET all == CarriedUpTo(events)[Len(events)]
                    IN /\ Len(got) <= Len(all)
                       /\ got = SubSeq(all, 1, Len(got))
                       /\ ret <= 0 => ret = 0 /\ got = all
  BY DEF EventsArrive
<1> DEFINE upTo == CarriedUpTo(events)
           n    == Len(events)
<1>a. PICK layout, off :
        /\ layout \in Layouts
        /\ Laid(events, layout, off)
        /\ \E i \in 0..n : \E k \in Nat : Handing(layout, off, i, k)
  BY DEF InOrder
<1>1. PICK i \in 0..n, k \in Nat : Handing(layout, off, i, k)
  BY <1>a
<1>2. n \in Nat /\ \A q \in 1..n : IsEvent(events[q])
  BY DEF Between
<1>3. Prefixes(upTo, [q \in 1..n |-> Carried(q, events[q])], n, Handed)
  BY <1>2, CarriedJoined
<1>4. /\ \A q \in 0..n : upTo[q] \in Seq(Handed)
      /\ \A q \in 1..n : upTo[q] = upTo[q - 1] \o [m \in 1..n |-> Carried(m, events[m])][q]
      /\ \A q \in 0..n : /\ Len(upTo[q]) <= Len(upTo[n])
                         /\ \A m \in 1..Len(upTo[q]) : upTo[n][m] = upTo[q][m]
  BY <1>3, Zenon DEF Prefixes
<1>5. /\ k = 0 => got = upTo[i]
      /\ ret \in {0, 1, 2} /\ (ret = 0 => i = n /\ k = 0)
  BY <1>1 DEF Handing
<1>6. ret <= 0 => ret = 0 /\ got = upTo[n]
  BY <1>5
<1>7. /\ got \in Seq(Handed) /\ Len(got) <= Len(upTo[n])
      /\ \A m \in 1..Len(got) : upTo[n][m] = got[m]
  <2>1. CASE k = 0
    BY <1>4, <1>5, <2>1
  <2>2. CASE k # 0
    <3> DEFINE j == i + 1
               e == events[j]
               c == Carried(j, e)
    <3>1. i < n /\ k < e.n /\ HeaderType(e.cmd) \notin {"POINT", "NULL"}
      <4>1. HasRead(events, layout, off, i, k, current, value)
        BY <1>1 DEF Handing
      <4>2. value # 0
        <5>1. value = off[i] + 4 + PadLen(layout) + k * FixedLen(e.cmd) /\ current = off[i]
          BY <2>2, <4>1 DEF HasRead, Stands
        <5>2. off[i] \in Nat /\ PadLen(layout) \in Nat /\ FixedLen(e.cmd) \in Nat
          <6>1. off \in [0..n -> Nat]
            BY <1>a DEF Laid
          <6> QED BY <6>1, FixedLens DEF PadLen
        <5>3. PICK s \in Nat : s = FixedLen(e.cmd)
          BY <5>2
        <5>4. k * s \in Nat
          OBVIOUS
        <5>5. PICK all \in Nat : all = k * FixedLen(e.cmd)
          BY <5>3, <5>4
        <5> QED BY <5>1, <5>2, <5>5
      <4> QED BY <2>2, <4>1, <4>2 DEF HasRead, Stands
    <3>2. j \in 1..n /\ j - 1 = i /\ j \in 0..n /\ j \in Nat
      BY <1>2, <3>1
    <3>3. HeaderType(e.cmd) \notin {"POINT", "NULL"} /\ IsEvent(e)
      BY <1>2, <3>1, <3>2
    <3>4. k \in Nat \ {0} /\ k < e.n /\ got = upTo[i] \o SubSeq(c, 1, k)
      BY <1>1, <2>2, <3>1 DEF Handing
    <3> HIDE DEF j
    <3>5. c \in Seq(Handed) /\ Len(c) = e.n
      BY <3>2, <3>3, CarriedType
    <3>6. upTo[j] = upTo[i] \o c
      <4>1. upTo[j] = upTo[j - 1] \o [m \in 1..n |-> Carried(m, events[m])][j]
        BY <1>4, <3>2, Zenon
      <4>2. [m \in 1..n |-> Carried(m, events[m])][j] = c
        BY <3>2
      <4> QED BY <3>2, <4>1, <4>2
    <3> HIDE DEF c, e, upTo, n
    <3>7. upTo[i] \in Seq(Handed) /\ upTo[j] \in Seq(Handed)
      BY <1>4, <3>2
    <3>8. SubSeq(c, 1, k) \in Seq(Handed) /\ Len(SubSeq(c, 1, k)) = k /\ k < Len(c)
          /\ \A m \in 1..k : SubSeq(c, 1, k)[m] = c[m]
      BY <3>4, <3>5
    <3>9. PICK s \in Seq(Handed), t \in Seq(Handed) : s = upTo[i] /\ t = SubSeq(c, 1, k)
      BY <3>7, <3>8
    <3>10. got = s \o t /\ upTo[j] = s \o c /\ Len(t) <= Len(c)
           /\ \A m \in 1..Len(t) : t[m] = c[m]
      BY <3>4, <3>5, <3>6, <3>8, <3>9
    <3>11. got \in Seq(Handed) /\ Len(got) <= Len(upTo[j])
           /\ \A m \in 1..Len(got) : upTo[j][m] = got[m]
      BY <3>5, <3>10
    <3>12. Len(upTo[j]) <= Len(upTo[n]) /\ \A m \in 1..Len(upTo[j]) : upTo[n][m] = upTo[j][m]
      BY <1>4, <3>2
    <3>13. Len(upTo[j]) \in Nat /\ Len(got) \in Nat /\ Len(upTo[n]) \in Nat
      BY <1>2, <1>4, <3>7, <3>11
    <3>14. Len(got) <= Len(upTo[n])
      BY <3>11, <3>12, <3>13
    <3>15. ASSUME NEW m \in 1..Len(got) PROVE upTo[n][m] = got[m]
      <4>1. m \in 1..Len(upTo[j])
        BY <3>11, <3>13
      <4>2. upTo[n][m] = upTo[j][m]
        BY <3>12, <4>1, Zenon
      <4>3. upTo[j][m] = got[m]
        BY <3>11, Zenon
      <4> QED BY <4>2, <4>3, Zenon
    <3> QED BY <3>11, <3>14, <3>15, Zenon
  <2> QED BY <2>1, <2>2
<1>8. upTo[n] \in Seq(Handed)
  BY <1>2, <1>4
<1> HIDE DEF upTo
<1>9. got = SubSeq(upTo[n], 1, Len(got))
  BY <1>7, <1>8, FirstPart, Zenon
<1> QED BY <1>6, <1>7, <1>9 DEF upTo

\* In a 32-bit program, every value and every payload of a proper stream arrives, in
\* order and from its place, whether or not the kernel padded the stream, if numbers and
\* qualities stand alone in their events; without that, and in a 64-bit program, some do
\* not (iwlib.c:2793-2906).
THEOREM EventsArriveCorrect ==
  ASSUME Word = 4, SingleNumbers
  PROVE  Spec => []EventsArrive
<1>1. Init => Between /\ InOrder
  BY BetweenInit, InOrderInit
<1>2. Between /\ InOrder /\ [Next]_vars => Between' /\ InOrder'
  BY BetweenStep, InOrderStep
<1>3. Between /\ InOrder => EventsArrive
  BY InOrderArrives
<1> QED BY <1>1, <1>2, <1>3, PTL DEF Spec
=============================================================================
