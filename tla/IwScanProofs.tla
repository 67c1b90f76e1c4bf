------------------------------ MODULE IwScanProofs -----------------------------
(***************************************************************************)
(* Theorems about IwScan, for any lists, any number of retries and buffers  *)
(* of any size.                                                             *)
(***************************************************************************)
EXTENDS IwScan, IwStreamProofs, FiniteSetTheorems

-----------------------------------------------------------------------------
(* Waiting *)

Longest == 250 + (MaxRetry - 1) * 100

\* What was slept when retry n began, and by its end.
Slept(n) == 250 + (n - 2) * 100

\* No error: the empty string.
NoError == ""

\* How long the caller has waited where it is, and what it has asked for: the first
\* turn asks and sleeps, every later one reads or sleeps again.
Course ==
  /\ pc \in {"process", "alloc", "fetch", "parse", "sleep", "done", "crashed"}
  /\ retry \in 0..(MaxRetry + 1) /\ asked \in 0..1 /\ waited \in Nat
  /\ pc # "done" => errno = NoError
  /\ pc = "process" /\ retry = 0 => asked = 0 /\ waited = 0
  /\ pc = "process" /\ retry > 0 => retry <= MaxRetry /\ asked = 1 /\ waited = Slept(retry + 1)
  /\ pc = "sleep" => retry \in 1..MaxRetry /\ asked = 1 /\ waited = Slept(retry + 1)
  /\ pc \in {"alloc", "fetch", "parse"} => retry \in 2..MaxRetry /\ asked = 1 /\ waited = Slept(retry)
  /\ pc \in {"done", "crashed"} => waited <= Longest /\ (errno = "ETIME" => waited = Longest)

\* The scan begins with nothing asked and nothing slept.
LEMMA CourseInit == Init => Course
<1> SUFFICES ASSUME Init PROVE Course
  OBVIOUS
<1>1. /\ pc = "process" /\ retry = 0 /\ asked = 0 /\ waited = 0 /\ errno = NoError
  BY Zenon DEF Init, NoError
<1> QED BY <1>1, ScanAssumption DEF Course

\* No call makes the caller wait out of turn.
LEMMA CourseNext == Course /\ [Next]_vars => Course'
<1> SUFFICES ASSUME Course, [Next]_vars PROVE Course'
  OBVIOUS
<1> USE ScanAssumption
<1>1. CASE Expire
  BY <1>1 DEF Expire, Expired, Finish, Course, Slept, Longest, historyVars
<1>2. CASE Initiate
  BY <1>2 DEF Initiate, First, Expired, Finish, Granted, Course, Slept, Longest
<1>3. CASE Sleep
  BY <1>3 DEF Sleep, Course, Slept, Longest, historyVars, callerVars
<1>4. CASE Proceed
  BY <1>4 DEF Proceed, First, Expired, Course, Slept, Longest, historyVars
<1>5. CASE Realloc
  BY <1>5 DEF Realloc, Finish, Course, Slept, Longest, historyVars
<1>6. CASE FetchLater
  BY <1>6 DEF FetchLater, Course, Slept, Longest, callerVars
<1>7. CASE FetchError
  BY <1>7 DEF FetchError, Finish, Course, Slept, Longest, historyVars
<1>8. CASE FetchTooBig
  BY <1>8 DEF FetchTooBig, Finish, Course, Slept, Longest, historyVars
<1>9. CASE Fetch
  BY <1>9 DEF Fetch, Course, Slept, Longest, callerVars
<1>10. CASE Parse
  <2>1. /\ pc = "parse" /\ UNCHANGED <<retry, asked, waited>>
        /\ \/ pc' \in {"parse", "crashed"} /\ errno' = errno
           \/ pc' = "done" /\ errno' = "ENOMEM"
    BY <1>10 DEF Parse, Token, Finish, historyVars
  <2>2. NoError # "ETIME"
    BY DEF NoError
  <2> QED BY <2>1, <2>2 DEF Course, Slept, Longest
<1>11. CASE ParseEnds
  <2>1. /\ pc = "parse" /\ pc' = "done" /\ UNCHANGED <<retry, asked, waited>>
        /\ errno' = NoError
    BY <1>11, Zenon DEF ParseEnds, Finish, historyVars, NoError
  <2>2. NoError # "ETIME"
    BY DEF NoError
  <2> QED BY <2>1, <2>2 DEF Course, Slept, Longest
<1>12. CASE DriverChanges
  BY <1>12 DEF DriverChanges, Course, callerVars, historyVars
<1>13. CASE UNCHANGED vars
  BY <1>13 DEF vars, Course, callerVars, historyVars
<1> QED BY <1>1, <1>2, <1>3, <1>4, <1>5, <1>6, <1>7, <1>8, <1>9, <1>10, <1>11, <1>12, <1>13
        DEF Next, Caller

\* A scan takes its turns in order: the inductive invariant.
THEOREM CourseCorrect == Spec => []Course
<1>1. Init => Course
  BY CourseInit
<1>2. Course /\ [Next]_vars => Course'
  BY CourseNext
<1> QED BY <1>1, <1>2, PTL DEF Spec

\* However long the driver takes, the caller asks it once to scan, sleeps 250 ms and
\* then 100 ms for every retry left, never more, and gives up only after all of it
\* (iwlib.c:3043-3064, 3106-3112).
THEOREM PatienceCorrect == Spec => []Patience
<1>1. Course => Patience
  <2> SUFFICES ASSUME Course PROVE Patience
    OBVIOUS
  <2>1. asked <= 1 /\ waited <= Longest
    BY ScanAssumption DEF Course, Slept, Longest
  <2>2. errno = "ETIME" => waited = Longest
    <3>1. NoError # "ETIME"
      BY DEF NoError
    <3> QED BY <3>1 DEF Course
  <2> QED BY <2>1, <2>2 DEF Patience, Longest
<1>2. Spec => []Course
  BY CourseCorrect
<1> QED BY <1>1, <1>2, PTL

-----------------------------------------------------------------------------
(* Failing *)

\* Why a scan may end without the cells.
Cause ==
  \/ faults > 0
  \/ errno = "ENOMEM" /\ buflen > MemoryLimit
  \/ /\ errno = "ENOMEM" /\ fetched # NotFetched
     /\ ~NewCell(fetched[1]) /\ ~InCell(fetched[1])
  \/ errno = "E2BIG" /\ weVersion <= 16 /\ buflen = MinBuffer

\* The values of the variables but the stream and the cells.
Ranges ==
  /\ weVersion \in Nat /\ layout \in Layouts
  /\ buflen \in Nat /\ buflen >= MinBuffer /\ (weVersion <= 16 => buflen = MinBuffer)
  /\ busy \in BOOLEAN /\ events \in Lists /\ changes \in 0..MaxChanges /\ faults \in 0..MaxFaults
  /\ errno \in {NoError, "ETIME", "ENOMEM", "E2BIG", "error"}
  /\ pc \in {"process", "alloc", "fetch", "parse", "sleep", "done", "crashed"}
  /\ pc # "done" => errno = NoError

\* The caller has read a list and the decoder is at its start.
AtStart ==
  /\ current = 0 /\ value = 0 /\ fetched # << >>
  /\ data = Encode(fetched, layout)

\* What the caller holds where it is: nothing before it has read a list, and until the
\* first cell of that list the decoder is at its start.
Holding ==
  /\ pc \notin {"parse", "done", "crashed"} =>
       fetched = NotFetched /\ result = << >> /\ current = 0 /\ value = 0
  /\ pc = "parse" => fetched \in Lists /\ (ret > 0 /\ result = << >> => AtStart)
  /\ pc = "done" /\ errno = NoError => fetched \in Lists
  /\ pc = "crashed" =>
       result = << >> /\ fetched \in Lists /\ fetched # NotFetched /\ InCell(fetched[1])

\* A scan that fails has a cause.
Caused == errno \notin {NoError, "ETIME"} => Cause

\* The lists of a driver are lists of events, and not the one that stands for none.
LEMMA ListType ==
  ASSUME NEW list \in Lists
  PROVE  /\ Len(list) \in Nat /\ \A i \in 1..Len(list) : IsEvent(list[i])
         /\ list = << >> <=> Len(list) = 0
         /\ list # NotFetched
<1> DEFINE E == [cmd : STRING \X STRING, n : Nat, num : Nat]
<1>1. list \in Seq(E)
  BY ListsAssumption
<1>2. Len(list) \in Nat /\ (list = << >> <=> Len(list) = 0)
  <2> HIDE DEF E
  <2> QED BY <1>1, EmptySeq
<1>3. ASSUME NEW i \in 1..Len(list) PROVE IsEvent(list[i])
  <2>1. list[i] \in E
    <3> HIDE DEF E
    <3> QED BY <1>1, <1>3, ElementOfSeq
  <2> QED BY <2>1 DEF IsEvent, Commands
<1>4. list # NotFetched
  <2>1. ASSUME list = NotFetched PROVE FALSE
    <3>1. Len(list) = 1 /\ list[1] = NoEvent
      BY <2>1 DEF NotFetched
    <3>2. list[1] \in E
      <4>1. 1 \in 1..Len(list)
        BY <3>1
      <4> HIDE DEF E
      <4> QED BY <1>1, <4>1, ElementOfSeq
    <3>3. "n" \in DOMAIN list[1]
      BY <3>2
    <3>4. "n" \notin DOMAIN NoEvent
      BY DEF NoEvent
    <3> QED BY <3>1, <3>3, <3>4
  <2> QED BY <2>1
<1> QED BY <1>2, <1>3, <1>4

\* The bytes of a list: none if there is nothing in it, and first of all the header of
\* its first event.
LEMMA ListBytes ==
  ASSUME NEW list \in Lists, NEW l
  PROVE  /\ Len(Encode(list, l)) \in Nat
         /\ Encode(list, l) = << >> <=> list = << >>
         /\ data = Encode(list, l) /\ list # << >> => ByteAt(0)[3] = list[1].cmd
<1> HIDE DEF Bytes
<1>1. /\ Len(list) \in Nat /\ \A i \in 1..Len(list) : IsEvent(list[i])
      /\ list = << >> <=> Len(list) = 0
  BY ListType
<1>2. Encode(list, l) \in Seq(Bytes)
  BY <1>1, EncodeParts
<1> DEFINE n == Len(list)
           parts == [i \in 1..n |-> EventBytes(i, list[i], l)]
<1>3. PICK upTo : Encode(list, l) = upTo[n] /\ Prefixes(upTo, parts, n, Bytes)
  BY <1>1, EncodeParts
<1>4. /\ upTo[0] = << >>
      /\ \A i \in 0..n : upTo[i] \in Seq(Bytes)
      /\ \A i \in 1..n : upTo[i] = upTo[i - 1] \o parts[i]
      /\ \A i \in 0..n : /\ Len(upTo[i]) <= Len(upTo[n])
                         /\ \A k \in 1..Len(upTo[i]) : upTo[n][k] = upTo[i][k]
  BY <1>3, Zenon DEF Prefixes
<1>5. Len(Encode(list, l)) \in Nat /\ (Encode(list, l) = << >> <=> Len(Encode(list, l)) = 0)
  BY <1>2, EmptySeq
<1>6. CASE list = << >>
  <2>1. Encode(list, l) = << >>
    BY <1>1, <1>3, <1>4, <1>6
  <2> QED BY <1>5, <1>6, <2>1
<1>7. CASE list # << >>
  <2> DEFINE part == EventBytes(1, list[1], l)
             body == Body(1, list[1], l)
  <2>1. 1 \in 1..n /\ 1 \in 0..n /\ IsEvent(list[1])
    BY <1>1, <1>7
  <2>2. body \in Seq(Bytes)
    BY <2>1, BodyType
  <2>3. HeadShape(1, list[1], l)
    BY <2>1, <2>2, EventHead
  <2>4. part \in Seq(Bytes) /\ part[1] = <<"header", Len(part), list[1].cmd>>
        /\ Len(part) = 4 + PadLen(l) + Len(body)
    BY <2>3, Zenon DEF HeadShape
  <2>5. Len(part) >= 4
    <3>1. Len(body) \in Nat /\ PadLen(l) \in {0, 4}
      BY <2>2, LenProperties DEF PadLen
    <3> HIDE DEF part, body
    <3> QED BY <2>4, <3>1
  <2>6. upTo[1] = part
    <3>1. upTo[1] = upTo[0] \o parts[1] /\ parts[1] = part
      <4>1. 1 - 1 = 0
        OBVIOUS
      <4> QED BY <1>4, <2>1, <4>1
    <3>2. << >> \o part = part
      BY <2>4, ConcatEmptySeq
    <3> QED BY <1>4, <3>1, <3>2, Zenon
  <2> HIDE DEF part, parts
  <2>7. Len(Encode(list, l)) >= 4
    BY <1>3, <1>4, <1>5, <2>1, <2>5, <2>6
  <2>8. Encode(list, l)[1] = <<"header", Len(part), list[1].cmd>>
    BY <1>3, <1>4, <2>1, <2>4, <2>5, <2>6
  <2>9. data = Encode(list, l) => ByteAt(0)[3] = list[1].cmd
    <3>1. ASSUME data = Encode(list, l) PROVE ByteAt(0) = data[1]
      BY <1>5, <2>7, <3>1 DEF ByteAt
    <3> QED BY <2>8, <3>1
  <2> QED BY <1>5, <1>7, <2>7, <2>9
<1> QED BY <1>6, <1>7

\* Nothing is held at the start.
LEMMA HoldingInit == Init => Ranges /\ Holding /\ Caused
<1> SUFFICES ASSUME Init PROVE Ranges /\ Holding /\ Caused
  OBVIOUS
<1>1. /\ pc = "process" /\ result = << >> /\ buflen = MinBuffer /\ errno = NoError
      /\ weVersion \in WeVersions /\ layout \in Layouts /\ current = 0 /\ value = 0
      /\ busy \in BOOLEAN /\ events \in Lists /\ changes = 0 /\ faults = 0
      /\ fetched = NotFetched
  BY Zenon DEF Init, InitStream, NoError
<1> QED BY <1>1, ScanAssumption, VersionAssumption DEF Ranges, Holding, Caused

\* The errors differ from none.
LEMMA Errors == NoError \notin {"ETIME", "ENOMEM", "E2BIG", "error", "EPERM", "ok"}
BY DEF NoError

\* The version and the layout of a stream never change.
LEMMA SameBuild == [Next]_vars => weVersion' = weVersion /\ layout' = layout /\ Layouts' = Layouts
<1> SUFFICES ASSUME [Next]_vars PROVE weVersion' = weVersion /\ layout' = layout /\ Layouts' = Layouts
  OBVIOUS
<1>1. weVersion' = weVersion /\ layout' = layout
  BY DEF Next, Caller, vars, streamVars, callerVars, driverVars, Expire, Initiate, Sleep,
         Proceed, Realloc, FetchLater, FetchError, FetchTooBig, Fetch, Parse, ParseEnds,
         DriverChanges, Discard, Extract, EndOfStream, InvalidEvent, UnknownEvent,
         TruncatedEvent, PointEvent, ValueEvent, Return
<1> QED BY <1>1 DEF Layouts

\* The bytes of a list depend on the version only.
LEMMA SameEncode ==
  ASSUME weVersion' = weVersion
  PROVE  \A list, l : Encode(list, l)' = Encode(list, l)
BY SMT DEF Encode, EventBytes, Body, FixedLen, PointOff

\* What the decoder hands out starts with the command under its position.
LEMMA ExtractTells ==
  ASSUME Extract, ret' > 0
  PROVE  iwe'.cmd = Cmd
<1>1. CASE EndOfStream
  BY <1>1 DEF EndOfStream, Return
<1>2. CASE InvalidEvent
  BY <1>2 DEF InvalidEvent, Return
<1>3. CASE UnknownEvent
  BY <1>3 DEF UnknownEvent, Return
<1>4. CASE TruncatedEvent
  BY <1>4 DEF TruncatedEvent, Return
<1>5. CASE PointEvent
  BY <1>5 DEF PointEvent
<1>6. CASE ValueEvent
  BY <1>6 DEF ValueEvent
<1> QED BY <1>1, <1>2, <1>3, <1>4, <1>5, <1>6 DEF Extract

\* What a token does to the scan.
LEMMA ParseTells ==
  ASSUME Ranges, Holding, Parse
  PROVE  /\ pc = "parse" /\ ret > 0 /\ errno = NoError
         /\ UNCHANGED <<retry, buflen, busy, events, changes, asked, waited, fetched>>
         /\ \/ /\ pc' = "parse" /\ errno' = NoError /\ faults' = faults
               /\ ret' > 0 => result' # << >>
               /\ ~(ret' > 0) => result' = result
            \/ /\ pc' = "done" /\ errno' = "ENOMEM" /\ result' = result
               /\ \/ faults < MaxFaults /\ faults' = faults + 1
                  \/ /\ faults' = faults /\ fetched \in Lists
                     /\ ~NewCell(fetched[1]) /\ ~InCell(fetched[1])
            \/ /\ pc' = "crashed" /\ errno' = NoError /\ faults' = faults
               /\ result' = << >> /\ fetched \in Lists /\ InCell(fetched[1])
<1> USE Errors
<1>1. /\ pc = "parse" /\ ret > 0 /\ errno = NoError /\ fetched \in Lists
      /\ UNCHANGED <<retry, buflen, busy, events, changes, asked, waited, fetched>>
      /\ Extract
  BY DEF Parse, Ranges, Holding, historyVars
<1>2. CASE ~(ret' > 0)
  BY <1>1, <1>2 DEF Parse
<1>3. CASE ret' > 0 /\ NewCell(iwe')
  <2>1. Token(iwe')
    BY <1>3 DEF Parse
  <2>2. \/ /\ result' = Append(result, [NoCell EXCEPT !.ap = Source(iwe')])
           /\ pc' = "parse" /\ errno' = errno /\ faults' = faults
        \/ /\ faults < MaxFaults /\ faults' = faults + 1
           /\ pc' = "done" /\ errno' = "ENOMEM" /\ result' = result
    BY <1>3, <2>1 DEF Token, Fault, Finish
  <2>3. result' = Append(result, [NoCell EXCEPT !.ap = Source(iwe')]) => result' # << >>
    BY <1>1
  <2> QED BY <1>1, <1>3, <2>2, <2>3
<1>4. CASE ret' > 0 /\ ~NewCell(iwe') /\ result # << >>
  <2>1. Token(iwe')
    BY <1>4 DEF Parse
  <2>2. /\ result' = [result EXCEPT ![Len(result)] = Stored(@, iwe')]
        /\ pc' = "parse" /\ errno' = errno /\ faults' = faults
    BY <1>4, <2>1 DEF Token
  <2>3. result' # << >>
    BY <1>4, <2>2
  <2> QED BY <1>1, <1>4, <2>2, <2>3
<1>5. CASE ret' > 0 /\ ~NewCell(iwe') /\ result = << >>
  <2>1. Token(iwe')
    BY <1>5 DEF Parse
  <2>2. /\ result' = result /\ faults' = faults
        /\ \/ ~InCell(iwe') /\ pc' = "done" /\ errno' = "ENOMEM"
           \/ InCell(iwe') /\ pc' = "crashed" /\ errno' = errno
    BY <1>5, <2>1 DEF Token, Finish
  <2>3. AtStart
    BY <1>1, <1>5 DEF Holding
  <2>4. iwe'.cmd = ByteAt(0)[3]
    BY <1>1, <1>5, <2>3, ExtractTells DEF AtStart, Cmd, Header
  <2>5. ByteAt(0)[3] = fetched[1].cmd
    BY <1>1, <2>3, ListBytes DEF AtStart
  <2>6. ~NewCell(fetched[1]) /\ (InCell(fetched[1]) <=> InCell(iwe'))
    BY <1>5, <2>4, <2>5 DEF NewCell, InCell
  <2> QED BY <1>1, <1>5, <2>2, <2>6
<1> QED BY <1>2, <1>3, <1>4, <1>5

\* Each call leaves the caller with what it holds there, and a scan that fails with a
\* cause.
LEMMA HoldingNext ==
  Ranges /\ Holding /\ Caused /\ [Next]_vars => Ranges' /\ Holding' /\ Caused'
<1> SUFFICES ASSUME Ranges, Holding, Caused, [Next]_vars
             PROVE  Ranges' /\ Holding' /\ Caused'
  OBVIOUS
<1>1. weVersion' = weVersion /\ layout' = layout /\ Layouts' = Layouts
  BY SameBuild
<1> USE ScanAssumption, Errors
<1>a. faults \in Nat /\ faults <= MaxFaults
  BY DEF Ranges
<1>b. ASSUME UNCHANGED <<pc, buflen, busy, events, changes, faults, errno>> PROVE Ranges'
  BY <1>1, <1>b DEF Ranges
<1>3. CASE Expire
  <2>1. /\ pc = "process" /\ pc' = "done" /\ errno' = "ETIME"
        /\ UNCHANGED <<buflen, busy, events, changes, faults>>
    BY <1>3 DEF Expire, Finish, driverVars
  <2> QED BY <1>1, <2>1 DEF Ranges, Holding, Caused
<1>4. CASE Initiate
  <2>1. /\ UNCHANGED <<result, buflen, events, changes, fetched, current, value>>
        /\ pc = "process" /\ busy' \in BOOLEAN
        /\ \/ pc' = "sleep" /\ UNCHANGED <<errno, faults>>
           \/ pc' = "done" /\ errno' = "error" /\ faults < MaxFaults /\ faults' = faults + 1
    BY <1>4 DEF Initiate, Granted, Finish, Fault, streamVars
  <2>2. faults' \in 0..MaxFaults /\ (pc' = "done" => faults' > 0)
    BY <1>a, <2>1 DEF Ranges
  <2>3. Ranges'
    BY <1>1, <2>1, <2>2 DEF Ranges
  <2>4. Holding'
    BY <2>1 DEF Holding
  <2>5. Caused'
    BY <2>1, <2>2 DEF Caused, Cause, Ranges
  <2> QED BY <2>3, <2>4, <2>5
<1>5. CASE Sleep
  <2>1. /\ pc = "sleep" /\ pc' = "process"
        /\ UNCHANGED <<result, buflen, busy, events, changes, faults, fetched, current, value, errno>>
    BY <1>5 DEF Sleep, streamVars, callerVars, driverVars, historyVars
  <2> QED BY <1>1, <2>1 DEF Ranges, Holding, Caused
<1>6. CASE Proceed
  <2>1. /\ pc = "process" /\ pc' = "alloc" /\ buflen' = MinBuffer
        /\ UNCHANGED <<result, busy, events, changes, faults, fetched, current, value, errno>>
    BY <1>6 DEF Proceed, streamVars, driverVars, historyVars
  <2> QED BY <1>1, <2>1 DEF Ranges, Holding, Caused
<1>7. CASE Realloc
  <2>1. /\ pc = "alloc"
        /\ UNCHANGED <<result, buflen, busy, events, changes, faults, fetched, current, value>>
        /\ \/ pc' = "fetch" /\ UNCHANGED errno
           \/ pc' = "done" /\ errno' = "ENOMEM" /\ ~(buflen <= MemoryLimit)
    BY <1>7 DEF Realloc, Finish, streamVars, driverVars, historyVars
  <2>2. Ranges'
    BY <1>1, <2>1 DEF Ranges
  <2>3. Holding'
    BY <2>1 DEF Holding
  <2>4. Caused'
    BY <2>1 DEF Caused, Cause, Ranges
  <2> QED BY <2>2, <2>3, <2>4
<1>8. CASE FetchLater
  <2>1. /\ pc = "fetch" /\ pc' = "sleep"
        /\ UNCHANGED <<result, buflen, busy, events, changes, faults, fetched, current, value, errno>>
    BY <1>8 DEF FetchLater, streamVars, callerVars, driverVars
  <2> QED BY <1>1, <2>1 DEF Ranges, Holding, Caused
<1>9. CASE FetchError
  <2>1. /\ pc = "fetch" /\ UNCHANGED <<result, buflen, busy, events, changes, fetched, current, value>>
        /\ pc' = "done" /\ errno' = "error" /\ faults < MaxFaults /\ faults' = faults + 1
    BY <1>9 DEF FetchError, Finish, Fault, streamVars, historyVars
  <2>2. faults' \in 0..MaxFaults /\ faults' > 0
    BY <1>a, <2>1 DEF Ranges
  <2> QED BY <1>1, <2>1, <2>2 DEF Ranges, Holding, Caused, Cause
<1>10. CASE FetchTooBig
  <2>1. /\ pc = "fetch" /\ UNCHANGED <<result, busy, events, changes, faults, fetched, current, value>>
        /\ \/ /\ weVersion > 16 /\ pc' = "alloc" /\ UNCHANGED errno
              /\ \E hint \in Hints(Len(Results), RequestLength) : buflen' = Grown(hint)
           \/ ~(weVersion > 16) /\ pc' = "done" /\ errno' = "E2BIG" /\ UNCHANGED buflen
    BY <1>10 DEF FetchTooBig, Finish, streamVars, driverVars, historyVars
  <2>0. weVersion \in Nat
    BY DEF Ranges
  <2>2. CASE weVersion > 16
    <3>1. PICK hint \in Hints(Len(Results), RequestLength) : buflen' = Grown(hint)
      BY <2>1, <2>2
    <3>2. Len(Results) \in Nat
      BY ListBytes DEF Results, Ranges
    <3>3. LengthMod > 0 /\ LengthMod \in Nat
      OBVIOUS
    <3>4. hint \in Nat
      <4>1. buflen \in Nat
        BY DEF Ranges
      <4>2. Len(Results) % LengthMod \in Nat /\ buflen % LengthMod \in Nat
        BY <3>2, <3>3, <4>1
      <4> QED BY <4>2 DEF Hints, RequestLength
    <3>5. buflen' \in Nat /\ buflen' >= MinBuffer
      BY <3>1, <3>4 DEF Grown, Ranges
    <3>6. pc' = "alloc" /\ errno' = errno /\ ~(weVersion <= 16)
      BY <2>0, <2>1, <2>2
    <3> QED BY <1>1, <2>1, <3>5, <3>6 DEF Ranges, Holding, Caused
  <2>3. CASE ~(weVersion > 16)
    <3>1. weVersion <= 16 /\ pc' = "done" /\ errno' = "E2BIG" /\ buflen' = buflen
      BY <2>0, <2>1, <2>3
    <3>2. Ranges' /\ Holding'
      BY <1>1, <2>1, <3>1 DEF Ranges, Holding
    <3>3. Caused'
      BY <1>1, <3>1 DEF Ranges, Caused, Cause
    <3> QED BY <3>2, <3>3
  <2> QED BY <2>2, <2>3
<1>11. CASE Fetch
  <2>1. /\ pc = "fetch" /\ pc' = "parse" /\ fetched' = events /\ data' = Results
        /\ ret' = (IF Results = << >> THEN 0 ELSE 1)
        /\ UNCHANGED <<current, value, result, buflen, errno, busy, events, changes, faults>>
    BY <1>11 DEF Fetch, callerVars, driverVars
  <2>2. Results = << >> <=> events = << >>
    BY ListBytes DEF Results, Ranges
  <2>3. data' = Encode(fetched, layout)'
    BY <1>1, <2>1, SameEncode DEF Results
  <2>4. errno = NoError /\ current = 0 /\ value = 0
    BY <2>1 DEF Ranges, Holding
  <2>5. ret' > 0 => AtStart'
    <3>1. ret' > 0 => Results # << >>
      BY <2>1
    <3>2. ret' > 0 => fetched' # << >>
      BY <2>1, <2>2, <3>1
    <3>3. current' = 0 /\ value' = 0
      BY <2>1, <2>4
    <3> QED BY <2>3, <3>2, <3>3 DEF AtStart
  <2>6. Ranges' /\ Caused'
    BY <1>1, <2>1, <2>4 DEF Ranges, Caused
  <2>7. Holding'
    BY <2>1, <2>4, <2>5 DEF Holding, Ranges
  <2> QED BY <2>6, <2>7
<1>12. CASE Parse
  <2>1. /\ pc = "parse" /\ ret > 0 /\ errno = NoError
        /\ UNCHANGED <<retry, buflen, busy, events, changes, asked, waited, fetched>>
        /\ \/ /\ pc' = "parse" /\ errno' = NoError /\ faults' = faults
              /\ ret' > 0 => result' # << >>
              /\ ~(ret' > 0) => result' = result
           \/ /\ pc' = "done" /\ errno' = "ENOMEM" /\ result' = result
              /\ \/ faults < MaxFaults /\ faults' = faults + 1
                 \/ /\ faults' = faults /\ fetched \in Lists
                    /\ ~NewCell(fetched[1]) /\ ~InCell(fetched[1])
           \/ /\ pc' = "crashed" /\ errno' = NoError /\ faults' = faults
              /\ result' = << >> /\ fetched \in Lists /\ InCell(fetched[1])
    BY <1>12, ParseTells
  <2>2. CASE pc' = "parse"
    BY <1>1, <2>1, <2>2 DEF Ranges, Holding, Caused
  <2>3. CASE pc' = "done"
    <3>1. faults' \in 0..MaxFaults
      BY <1>a, <2>1, <2>3 DEF Ranges
    <3>2. Ranges' /\ Holding'
      BY <1>1, <2>1, <2>3, <3>1 DEF Ranges, Holding
    <3>3. \/ faults' > 0
          \/ fetched' # NotFetched /\ ~NewCell(fetched'[1]) /\ ~InCell(fetched'[1])
      BY <1>a, <2>1, <2>3, ListType
    <3>4. Caused'
      BY <2>1, <2>3, <3>3 DEF Caused, Cause, NewCell, InCell
    <3> QED BY <3>2, <3>4
  <2>4. CASE pc' = "crashed"
    <3>1. fetched' = fetched /\ fetched # NotFetched /\ InCell(fetched'[1])
      BY <2>1, <2>4, ListType
    <3>2. Holding'
      BY <2>1, <2>4, <3>1 DEF Holding, InCell, NotFetched, NoEvent
    <3> QED BY <1>1, <2>1, <2>4, <3>2 DEF Ranges, Caused
  <2> QED BY <2>1, <2>2, <2>3, <2>4
<1>13. CASE ParseEnds
  <2>1. /\ pc = "parse" /\ pc' = "done" /\ errno' = NoError
        /\ UNCHANGED <<result, buflen, busy, events, changes, faults, fetched>>
    BY <1>13, Zenon DEF ParseEnds, Finish, driverVars, historyVars, NoError
  <2> QED BY <1>1, <2>1 DEF Ranges, Holding, Caused
<1>14. CASE DriverChanges
  <2>1. /\ UNCHANGED <<pc, buflen, errno, result, faults, fetched, current, value, data, ret>>
        /\ busy' \in BOOLEAN /\ events' \in Lists /\ changes < MaxChanges /\ changes' = changes + 1
    BY <1>14 DEF DriverChanges, streamVars, callerVars, historyVars
  <2>2. Ranges'
    BY <1>1, <2>1 DEF Ranges
  <2>3. AtStart' = AtStart
    BY <1>1, <2>1, SameEncode DEF AtStart
  <2>4. Holding'
    BY <2>1, <2>3 DEF Holding
  <2>5. Caused'
    BY <1>1, <2>1 DEF Caused, Cause, NewCell
  <2> QED BY <2>2, <2>4, <2>5
<1>15. CASE UNCHANGED vars
  <2>1. UNCHANGED <<pc, buflen, errno, result, faults, fetched, current, value, data, ret, busy,
                    events, changes>>
    BY <1>15 DEF vars, streamVars, callerVars, driverVars, historyVars
  <2>2. Ranges'
    BY <1>1, <2>1 DEF Ranges
  <2>3. AtStart' = AtStart
    BY <1>1, <2>1, SameEncode DEF AtStart
  <2>4. Holding'
    BY <2>1, <2>3 DEF Holding
  <2>5. Caused'
    BY <1>1, <2>1 DEF Caused, Cause, NewCell
  <2> QED BY <2>2, <2>4, <2>5
<1> QED BY <1>3, <1>4, <1>5, <1>6, <1>7, <1>8, <1>9, <1>10, <1>11, <1>12, <1>13, <1>14, <1>15
        DEF Next, Caller

\* For lists of any events: only a fault, the memory or a list that starts with an event
\* of no interest ends a scan with an error, and only a list that starts with an event
\* that belongs in a cell ends the program (iwlib.c:2970-3013, 3058-3061, 3083-3117,
\* 3150).
THEOREM FailsForCauseCorrect == Spec => []FailsForCause
<1>1. Init => Ranges /\ Holding /\ Caused
  BY HoldingInit
<1>2. Ranges /\ Holding /\ Caused /\ [Next]_vars => (Ranges /\ Holding /\ Caused)'
  BY HoldingNext
<1>3. Holding /\ Caused => FailsForCause
  BY Zenon DEF Holding, Caused, Cause, FailsForCause, NoError
<1> QED BY <1>1, <1>2, <1>3, PTL DEF Spec

-----------------------------------------------------------------------------
(* The promise of Scan *)

\* The cells are handed over: those decoded so far, of the list that was read.
HandOver ==
  /\ pc = "parse" /\ ret <= 0 /\ pc' = "done" /\ errno' = NoError
  /\ fetched \in Lists
  /\ UNCHANGED <<events, fetched, asked, result>>

\* A step of Scan; of Deliver it is left open that the cells are those of the list.
PromisedStep ==
  \/ Promise!Find \/ Promise!Ask \/ Promise!Read \/ Promise!Fail
  \/ HandOver
  \/ UNCHANGED Promise!vars

\* A scan that starts has promised nothing.
LEMMA PromiseInit == Init => Promise!Init
<1> SUFFICES ASSUME Init PROVE Promise!Init
  OBVIOUS
<1>1. pc = "process" /\ fetched = NotFetched /\ asked = 0 /\ events \in Lists
  BY DEF Init
<1> QED BY <1>1 DEF Promise!Init

\* Where a caller that has not come to an end stands, in the terms of Scan.
LEMMA Phases ==
  ASSUME Course, Ranges, Holding
  PROVE  /\ pc \in {"alloc", "fetch", "sleep"} => asked = 1 /\ fetched = NotFetched
         /\ pc = "parse" => fetched \in Lists /\ fetched # NotFetched
         /\ pc = "process" => fetched = NotFetched /\ (asked = 0 <=> retry = 0) /\ asked \in 0..1
<1>1. \A list \in Lists : list # NotFetched
  BY ListType
<1> QED BY <1>1 DEF Course, Holding

\* Every call is a step of Scan, or nothing it speaks of.
LEMMA PromiseNext == Course /\ Ranges /\ Holding /\ [Next]_vars => PromisedStep
<1> SUFFICES ASSUME Course, Ranges, Holding, [Next]_vars PROVE PromisedStep
  OBVIOUS
<1> USE Errors
<1>0. /\ pc \in {"alloc", "fetch", "sleep"} => asked = 1 /\ fetched = NotFetched
      /\ pc = "parse" => fetched \in Lists /\ fetched # NotFetched
      /\ pc = "process" => fetched = NotFetched /\ (asked = 0 <=> retry = 0) /\ asked \in 0..1
      /\ pc # "done" => errno = NoError
  BY Phases DEF Ranges
<1>a. ASSUME pc # "done", pc' # "done", UNCHANGED <<events, fetched, asked>>
      PROVE  PromisedStep
  BY <1>a DEF Promise!vars, PromisedStep
<1>b. ASSUME pc # "done", pc' = "done", UNCHANGED <<events, fetched>>, errno' # NoError
      PROVE  PromisedStep
  <2>1. errno' # ""
    BY <1>b, Zenon DEF NoError
  <2>2. Promise!Fail
    BY <1>b, <2>1, Zenon DEF Promise!Fail
  <2> QED BY <2>2 DEF PromisedStep
<1>1. CASE Expire
  BY <1>1, <1>b DEF Expire, Finish, driverVars, historyVars
<1>2. CASE Initiate
  <2>1. CASE pc' = "done"
    BY <1>2, <1>b, <2>1 DEF Initiate, Finish
  <2>2. CASE pc' # "done"
    <3>1. pc = "process" /\ pc' # "done" /\ retry = 0 /\ asked' = asked + 1
          /\ UNCHANGED <<events, fetched>>
      BY <1>0, <1>2, <2>2 DEF Initiate, First, Course
    <3>2. asked = 0 /\ asked' = 1
      BY <1>0, <3>1
    <3> QED BY <1>0, <3>1, <3>2 DEF Promise!Ask, PromisedStep
  <2> QED BY <2>1, <2>2
<1>3. CASE Sleep
  BY <1>3, <1>a DEF Sleep, driverVars, historyVars
<1>4. CASE Proceed
  BY <1>4, <1>a DEF Proceed, driverVars, historyVars
<1>5. CASE Realloc
  BY <1>5, <1>a, <1>b DEF Realloc, Finish, driverVars, historyVars
<1>6. CASE FetchLater
  BY <1>6, <1>a DEF FetchLater, driverVars
<1>7. CASE FetchError
  BY <1>7, <1>b DEF FetchError, Finish, historyVars
<1>8. CASE FetchTooBig
  BY <1>8, <1>a, <1>b DEF FetchTooBig, Finish, driverVars, historyVars
<1>9. CASE Fetch
  <2>1. /\ pc = "fetch" /\ pc' = "parse" /\ fetched' = events
        /\ UNCHANGED <<events, asked>>
    BY <1>9 DEF Fetch, callerVars, driverVars
  <2>2. fetched' # NotFetched
    BY <2>1, ListType DEF Ranges
  <2>3. asked > 0 /\ fetched = NotFetched
    BY <1>0, <2>1
  <2>4. NotFetched' = NotFetched
    BY DEF NotFetched, NoEvent
  <2> QED BY <2>1, <2>2, <2>3, <2>4 DEF Promise!Read, PromisedStep
<1>10. CASE Parse
  <2>1. /\ pc = "parse" /\ UNCHANGED <<events, asked, fetched>>
        /\ \/ pc' \in {"parse", "crashed"}
           \/ pc' = "done" /\ errno' = "ENOMEM"
    BY <1>10, ParseTells
  <2> QED BY <1>a, <1>b, <2>1
<1>11. CASE ParseEnds
  <2>1. /\ pc = "parse" /\ ret <= 0 /\ pc' = "done" /\ errno' = NoError
        /\ UNCHANGED <<events, fetched, asked, result>>
    BY <1>11, Zenon DEF ParseEnds, Finish, driverVars, historyVars, NoError
  <2> QED BY <1>0, <2>1 DEF HandOver, PromisedStep
<1>12. CASE DriverChanges
  <2>1. /\ events' \in Lists
        /\ UNCHANGED <<pc, errno, result, fetched, asked>>
    BY <1>12 DEF DriverChanges, callerVars, historyVars
  <2> QED BY <2>1, Zenon DEF Promise!Find, PromisedStep, NotFetched, NoEvent
<1>13. CASE UNCHANGED vars
  <2>1. UNCHANGED <<pc, errno, result, fetched, asked, events>>
    BY <1>13 DEF vars, callerVars, driverVars, historyVars
  <2> QED BY <2>1, Zenon DEF Promise!vars, PromisedStep, NotFetched, NoEvent
<1> QED BY <1>1, <1>2, <1>3, <1>4, <1>5, <1>6, <1>7, <1>8, <1>9, <1>10, <1>11, <1>12, <1>13
        DEF Next, Caller

\* A scan keeps the promise of Scan step by step, but for what is in the cells: the
\* driver is asked once and before anything is read, one list it holds at one instant
\* is read and never another one, and a scan that ends hands over the cells decoded
\* from it, or fails for good (iwlib.c:3033-3215).
THEOREM KeepsPromise == Spec => Promise!Init /\ [][PromisedStep]_vars
<1>1. Init => Course /\ Ranges /\ Holding /\ Caused /\ Promise!Init
  BY CourseInit, HoldingInit, PromiseInit
<1>2. Course /\ Ranges /\ Holding /\ Caused /\ [Next]_vars
        => (Course /\ Ranges /\ Holding /\ Caused)' /\ [PromisedStep]_vars
  BY CourseNext, HoldingNext, PromiseNext
<1> QED BY <1>1, <1>2, PTL DEF Spec

-----------------------------------------------------------------------------
(* What the cells tell *)

Fields == {"ap", "nwid", "freq", "mode", "essid", "key", "qual", "rate"}

\* The fields that tell of the last event of a command.
LastFields == {"nwid", "freq", "essid", "key", "qual"}

\* When i events and k values of the next one have been read, the last one of which
\* something has been read.
LastRead(i, k) == IF k = 0 THEN i ELSE i + 1

WithField(list, s, t, f) == {j \in s..t : FieldOf(list[j].cmd) = f}
ValidModes(list, s, t) == {j \in s..t : list[j].cmd = <<"GIW", "MODE">> /\ ValidMode(list[j])}

SpeedsRead(list, s, i, k) ==
  {v \in 1..5 : \E j \in s..(i + 1) : \E q \in Nat \ {0} :
     /\ list[j].cmd = <<"GIW", "RATE">> /\ q <= list[j].n
     /\ j <= i \/ q <= k
     /\ v = Speed(list[j], q)}

\* The last of some events, and the greatest of some speeds, or 0.
IsLast(found, v) ==
  /\ found = {} => v = 0
  /\ found # {} => v \in found /\ \A j \in found : j <= v

\* A field of a payload that was withheld is -1.
SourceOf(list, j) == IF HeaderType(list[j].cmd) = "POINT" /\ ~PayloadKept(list[j]) THEN -1 ELSE j

\* A cell tells what events s to i of the list say, and the first k values of the next.
Tells(list, s, i, k, cell) ==
  /\ cell \in [Fields -> Int]
  /\ cell["ap"] = s
  /\ \A f \in LastFields :
       \E j \in Nat : /\ IsLast(WithField(list, s, LastRead(i, k), f), j)
                      /\ cell[f] = IF j = 0 THEN 0 ELSE SourceOf(list, j)
  /\ IsLast(ValidModes(list, s, LastRead(i, k)), cell["mode"])
  /\ IsLast(SpeedsRead(list, s, i, k), cell["rate"])

\* The cells tell what has been read, each one from where it starts to the next.
CellsTell(list, cells, i, k, st) ==
  /\ cells \in Seq([Fields -> Int])
  /\ st \in [1..Len(cells) -> 1..i]
  /\ \A a, b \in 1..Len(cells) : a < b => st[a] < st[b]
  /\ \A j \in 1..i : NewCell(list[j]) <=> \E a \in 1..Len(cells) : st[a] = j
  /\ \A a \in 1..(Len(cells) - 1) : Tells(list, st[a], st[a + 1] - 1, 0, cells[a])
  /\ cells # << >> => Tells(list, st[Len(cells)], i, k, cells[Len(cells)])
  /\ k # 0 => ~NewCell(list[i + 1])

-----------------------------------------------------------------------------
\* The commands are different.
LEMMA CmdTypes ==
  /\ HeaderType(<<"GIW", "AP">>) = "ADDR"
  /\ HeaderType(<<"GIW", "NWID">>) = "PARAM" /\ HeaderType(<<"GIW", "FREQ">>) = "FREQ"
  /\ HeaderType(<<"GIW", "MODE">>) = "UINT"  /\ HeaderType(<<"GIW", "RATE">>) = "PARAM"
  /\ HeaderType(<<"GIW", "ESSID">>) = "POINT" /\ HeaderType(<<"GIW", "ENCODE">>) = "POINT"
  /\ HeaderType(<<"IWEV", "QUAL">>) = "QUAL"
BY DEF HeaderType, Tokens, RequestTokens, EventTokens, AddrNames, ParamNames

\* The fields that events are stored in, by their commands; the others have none.
NoField == ""
LEMMA FieldCmd ==
  ASSUME NEW cmd
  PROVE  /\ FieldOf(cmd) \in LastFields \cup {NoField} /\ NoField \notin LastFields
         /\ FieldOf(cmd) = "nwid"  <=> cmd = <<"GIW", "NWID">>
         /\ FieldOf(cmd) = "freq"  <=> cmd = <<"GIW", "FREQ">>
         /\ FieldOf(cmd) = "essid" <=> cmd = <<"GIW", "ESSID">>
         /\ FieldOf(cmd) = "key"   <=> cmd = <<"GIW", "ENCODE">>
         /\ FieldOf(cmd) = "qual"  <=> cmd = <<"IWEV", "QUAL">>
<1>1. /\ cmd = <<"GIW", "NWID">> => FieldOf(cmd) = "nwid"
      /\ cmd = <<"GIW", "FREQ">> => FieldOf(cmd) = "freq"
      /\ cmd = <<"GIW", "ESSID">> => FieldOf(cmd) = "essid"
      /\ cmd = <<"GIW", "ENCODE">> => FieldOf(cmd) = "key"
      /\ cmd = <<"IWEV", "QUAL">> => FieldOf(cmd) = "qual"
      /\ cmd \notin {<<"GIW", "NWID">>, <<"GIW", "FREQ">>, <<"GIW", "ESSID">>, <<"GIW", "ENCODE">>,
                     <<"IWEV", "QUAL">>} => FieldOf(cmd) = NoField
  BY DEF FieldOf, NoField
<1>2. NoField \notin LastFields
  BY DEF NoField, LastFields
<1> HIDE DEF FieldOf, NoField
<1> QED BY <1>1, <1>2 DEF LastFields

\* There is one last event, and one greatest speed.
LEMMA IsLastUnique ==
  ASSUME NEW found, NEW v \in Int, NEW w \in Int, IsLast(found, v), IsLast(found, w)
  PROVE  v = w
<1>1. CASE found = {}
  BY <1>1 DEF IsLast
<1>2. CASE found # {}
  <2>1. v <= w /\ w <= v
    BY <1>2 DEF IsLast
  <2> QED BY <2>1
<1> QED BY <1>1, <1>2

\* What is stored of an event, by its command.
LEMMA StoredCases ==
  ASSUME NEW cell, NEW event
  PROVE  /\ FieldOf(event.cmd) \in LastFields =>
              Stored(cell, event) = [cell EXCEPT ![FieldOf(event.cmd)] = Source(event)]
         /\ event.cmd = <<"GIW", "MODE">> =>
              Stored(cell, event) =
                IF cell["mode"] # 0 \/ ValidMode(fetched[Source(event)])
                THEN [cell EXCEPT !["mode"] = Source(event)] ELSE cell
         /\ event.cmd = <<"GIW", "RATE">> =>
              Stored(cell, event) =
                IF SpeedAt(event.at) > cell["rate"]
                THEN [cell EXCEPT !["rate"] = SpeedAt(event.at)] ELSE cell
         /\ FieldOf(event.cmd) \notin LastFields /\ event.cmd # <<"GIW", "MODE">>
              /\ event.cmd # <<"GIW", "RATE">> => Stored(cell, event) = cell
<1> DEFINE cmd == event.cmd
<1>1. FieldOf(cmd) \in LastFields \cup {NoField} /\ NoField \notin LastFields
  BY FieldCmd
<1>2. cmd = <<"GIW", "MODE">> => FieldOf(cmd) = NoField
  BY DEF FieldOf, NoField
<1>3. cmd = <<"GIW", "RATE">> => FieldOf(cmd) = NoField
  BY DEF FieldOf, NoField
<1>4. <<"GIW", "MODE">> # <<"GIW", "RATE">>
  OBVIOUS
<1> DEFINE src   == Source(event)
           speed == SpeedAt(event.at)
           given == [cell EXCEPT ![FieldOf(cmd)] = src]
<1>5. Stored(cell, event) =
        CASE FieldOf(cmd) # NoField -> given
          [] /\ cmd = <<"GIW", "MODE">>
             /\ cell["mode"] # 0 \/ ValidMode(fetched[src]) -> [cell EXCEPT !["mode"] = src]
          [] cmd = <<"GIW", "RATE">> /\ speed > cell["rate"] -> [cell EXCEPT !["rate"] = speed]
          [] OTHER -> cell
  BY DEF Stored, NoField, ValidMode
<1> HIDE DEF src, speed, given
<1>6. ASSUME FieldOf(cmd) \in LastFields
      PROVE  Stored(cell, event) = given
  <2>1. FieldOf(cmd) # NoField /\ ~(cmd = <<"GIW", "MODE">>) /\ ~(cmd = <<"GIW", "RATE">>)
    BY <1>1, <1>2, <1>3, <1>6
  <2> HIDE DEF cmd
  <2> QED BY <1>5, <2>1
<1>7. ASSUME cmd = <<"GIW", "MODE">>
      PROVE  Stored(cell, event) = IF cell["mode"] # 0 \/ ValidMode(fetched[src])
                                   THEN [cell EXCEPT !["mode"] = src] ELSE cell
  <2>1. ~(FieldOf(cmd) # NoField) /\ ~(cmd = <<"GIW", "RATE">>)
    BY <1>2, <1>4, <1>7
  <2> HIDE DEF cmd
  <2> QED BY <1>5, <1>7, <2>1
<1>8. ASSUME cmd = <<"GIW", "RATE">>
      PROVE  Stored(cell, event) = IF speed > cell["rate"]
                                   THEN [cell EXCEPT !["rate"] = speed] ELSE cell
  <2>1. ~(FieldOf(cmd) # NoField) /\ ~(cmd = <<"GIW", "MODE">>)
    BY <1>3, <1>4, <1>8
  <2> HIDE DEF cmd
  <2> QED BY <1>5, <1>8, <2>1
<1>9. ASSUME FieldOf(cmd) \notin LastFields, cmd # <<"GIW", "MODE">>, cmd # <<"GIW", "RATE">>
      PROVE  Stored(cell, event) = cell
  <2>1. ~(FieldOf(cmd) # NoField)
    BY <1>1, <1>9
  <2> HIDE DEF cmd
  <2> QED BY <1>5, <1>9, <2>1
<1> QED BY <1>6, <1>7, <1>8, <1>9 DEF src, speed, given

\* A speed is one of five.
LEMMA SpeedType ==
  ASSUME NEW e, e.num \in Nat, NEW q \in Nat
  PROVE  Speed(e, q) \in 1..5
<1>1. PICK all \in Nat : all = e.num * q
  OBVIOUS
<1>2. all % 5 \in 0..4
  BY SMT
<1>3. (e.num * q) % 5 \in 0..4
  BY <1>1, <1>2
<1> QED BY <1>3 DEF Speed

\* Reading one more value, or one more event, of the same cell.
LastValue(list, i, k, i2, k2) ==
  \/ /\ i2 = i + 1 /\ k2 = 0
     /\ HeaderType(list[i + 1].cmd) \in {"POINT", "NULL"} \/ list[i + 1].n = k + 1
  \/ i2 = i /\ k2 = k + 1 /\ k + 1 < list[i + 1].n

\* Its speed is one more.
LEMMA OneMoreSpeed ==
  ASSUME NEW list, NEW s \in Nat, NEW i \in Nat, s <= i, NEW k \in Nat,
         NEW i2, NEW k2, LastValue(list, i, k, i2, k2), IsEvent(list[i + 1])
  PROVE  SpeedsRead(list, s, i2, k2) =
           IF list[i + 1].cmd = <<"GIW", "RATE">>
           THEN SpeedsRead(list, s, i, k) \cup {Speed(list[i + 1], k + 1)}
           ELSE SpeedsRead(list, s, i, k)
<1> DEFINE Rated(j, q, m, l) ==
             /\ list[j].cmd = <<"GIW", "RATE">> /\ q <= list[j].n /\ j <= m + 1
             /\ j <= m \/ q <= l
<1>1. /\ i2 \in Nat /\ k2 \in Nat
      /\ (i2 = i + 1 /\ k2 = 0) \/ (i2 = i /\ k2 = k + 1)
  BY DEF LastValue
<1>2. HeaderType(<<"GIW", "RATE">>) \notin {"POINT", "NULL"}
  BY CmdTypes
<1>3. list[i + 1].cmd = <<"GIW", "RATE">> => (i2 = i /\ k + 1 < list[i + 1].n) \/ list[i + 1].n = k + 1
  BY <1>2 DEF LastValue
<1>4. \A j \in s..(i + 2) : \A q \in Nat \ {0} :
        Rated(j, q, i2, k2) <=> \/ (j <= i + 1 /\ Rated(j, q, i, k))
                               \/ (j = i + 1 /\ q = k + 1 /\ list[j].cmd = <<"GIW", "RATE">>)
  <2> SUFFICES ASSUME NEW j \in s..(i + 2), NEW q \in Nat \ {0}
               PROVE  Rated(j, q, i2, k2) <=>
                        \/ (j <= i + 1 /\ Rated(j, q, i, k))
                        \/ (j = i + 1 /\ q = k + 1 /\ list[j].cmd = <<"GIW", "RATE">>)
    OBVIOUS
  <2>1. list[i + 1].n \in Nat
    BY DEF IsEvent
  <2>2. CASE j = i + 1
    BY <1>1, <1>3, <2>1, <2>2
  <2>3. CASE j # i + 1
    BY <1>1, <2>3
  <2> QED BY <2>2, <2>3
<1>a. ASSUME NEW m \in {i, i + 1}, NEW l
      PROVE  \A v : v \in SpeedsRead(list, s, m, l) <=>
               v \in 1..5 /\ \E j \in s..(i + 2) : \E q \in Nat \ {0} :
                 Rated(j, q, m, l) /\ v = Speed(list[j], q)
  <2>1. \A j : j \in s..(m + 1) <=> j \in s..(i + 2) /\ j <= m + 1
    BY <1>a
  <2>2. \A v : v \in SpeedsRead(list, s, m, l) <=>
          v \in 1..5 /\ \E j \in s..(m + 1) : \E q \in Nat \ {0} :
                 /\ list[j].cmd = <<"GIW", "RATE">> /\ q <= list[j].n
                 /\ j <= m \/ q <= l
                 /\ v = Speed(list[j], q)
    BY DEF SpeedsRead
  <2> QED BY <2>1, <2>2
<1>5. \A v : v \in SpeedsRead(list, s, i2, k2) <=>
        v \in 1..5 /\ \E j \in s..(i + 2) : \E q \in Nat \ {0} :
          Rated(j, q, i2, k2) /\ v = Speed(list[j], q)
  <2>1. i2 \in {i, i + 1}
    BY <1>1
  <2> HIDE DEF Rated
  <2> QED BY <1>a, <2>1
<1>6. \A v : v \in SpeedsRead(list, s, i, k) <=>
        v \in 1..5 /\ \E j \in s..(i + 2) : \E q \in Nat \ {0} :
          Rated(j, q, i, k) /\ v = Speed(list[j], q)
  <2> HIDE DEF Rated
  <2> QED BY <1>a
<1> HIDE DEF Rated
<1>7. Speed(list[i + 1], k + 1) \in 1..5
  BY SpeedType DEF IsEvent
<1>8. \A v : v \in SpeedsRead(list, s, i2, k2) <=>
        \/ v \in SpeedsRead(list, s, i, k)
        \/ list[i + 1].cmd = <<"GIW", "RATE">> /\ v = Speed(list[i + 1], k + 1)
  <2> SUFFICES ASSUME NEW v
               PROVE  v \in SpeedsRead(list, s, i2, k2) <=>
                        \/ v \in SpeedsRead(list, s, i, k)
                        \/ list[i + 1].cmd = <<"GIW", "RATE">> /\ v = Speed(list[i + 1], k + 1)
    OBVIOUS
  <2>1. ASSUME v \in SpeedsRead(list, s, i2, k2)
        PROVE  \/ v \in SpeedsRead(list, s, i, k)
               \/ list[i + 1].cmd = <<"GIW", "RATE">> /\ v = Speed(list[i + 1], k + 1)
    <3>1. PICK j \in s..(i + 2) : \E q \in Nat \ {0} : Rated(j, q, i2, k2) /\ v = Speed(list[j], q)
      BY <1>5, <2>1
    <3>2. PICK q \in Nat \ {0} : Rated(j, q, i2, k2) /\ v = Speed(list[j], q)
      BY <3>1
    <3>3. CASE j <= i + 1 /\ Rated(j, q, i, k)
      BY <1>5, <1>6, <2>1, <3>2, <3>3
    <3>4. CASE j = i + 1 /\ q = k + 1 /\ list[j].cmd = <<"GIW", "RATE">>
      BY <3>2, <3>4
    <3> QED BY <1>4, <3>2, <3>3, <3>4
  <2>2. ASSUME v \in SpeedsRead(list, s, i, k)
        PROVE  v \in SpeedsRead(list, s, i2, k2)
    <3>1. PICK j \in s..(i + 2) : \E q \in Nat \ {0} : Rated(j, q, i, k) /\ v = Speed(list[j], q)
      BY <1>6, <2>2
    <3>2. j \in s..(i + 2) /\ j <= i + 1
      BY <3>1 DEF Rated
    <3> QED BY <1>4, <1>5, <1>6, <2>2, <3>1, <3>2
  <2>3. ASSUME list[i + 1].cmd = <<"GIW", "RATE">> /\ v = Speed(list[i + 1], k + 1)
        PROVE  v \in SpeedsRead(list, s, i2, k2)
    <3>1. i + 1 \in s..(i + 2) /\ k + 1 \in Nat \ {0}
      OBVIOUS
    <3>2. Rated(i + 1, k + 1, i2, k2)
      BY <1>4, <2>3, <3>1
    <3> QED BY <1>5, <1>7, <2>3, <3>1, <3>2
  <2> QED BY <2>1, <2>2, <2>3
<1> QED BY <1>8

\* The fields of modes and rates are not told by their last events.
LEMMA OtherFields ==
  /\ FieldOf(<<"GIW", "MODE">>) \notin LastFields
  /\ FieldOf(<<"GIW", "RATE">>) \notin LastFields
  /\ <<"GIW", "MODE">> # <<"GIW", "RATE">>
<1>1. FieldOf(<<"GIW", "MODE">>) = NoField /\ FieldOf(<<"GIW", "RATE">>) = NoField
  BY DEF FieldOf, NoField
<1>2. NoField \notin LastFields
  BY FieldCmd
<1> QED BY <1>1, <1>2

\* One event more, and the last one is that event or the last one before it.
LEMMA LastGrows ==
  ASSUME NEW found, NEW more, NEW v \in Int, NEW w \in Nat, IsLast(found, v),
         found \subseteq Int, \A j \in found : j <= w,
         \A j : j \in more <=> j \in found \/ j = w
  PROVE  IsLast(more, w)
<1>1. w \in more
  OBVIOUS
<1>2. ASSUME NEW j \in more PROVE j <= w
  <2>1. j \in found \/ j = w
    BY <1>2
  <2>2. ASSUME j = w PROVE j <= w
    BY <2>2
  <2> QED BY <2>1, <2>2
<1> QED BY <1>1, <1>2 DEF IsLast

\* The events of a cell up to the next one: the next one is added if it is of the kind.
LEMMA NextIn ==
  ASSUME NEW s \in Nat, NEW i \in Nat, s <= i, NEW k \in Nat, NEW P
  PROVE  /\ s..LastRead(i, k) \subseteq s..(i + 1)
         /\ LastRead(i, k) \in Nat /\ LastRead(i, k) <= i + 1
         /\ \A j \in s..(i + 1) : j \in s..LastRead(i, k) \/ j = i + 1
BY DEF LastRead

\* The next event of a cell is stored in it: of every field the cell tells what the
\* events read by then say.
LEMMA StoredTells ==
  ASSUME NEW list, Len(list) \in Nat, DOMAIN list = 1..Len(list),
         \A j \in 1..Len(list) : IsEvent(list[j]), ProperList(list), fetched = list,
         NEW s \in Nat \ {0}, NEW i \in Nat, s <= i, i < Len(list), NEW k \in Nat,
         NEW i2, NEW k2, LastValue(list, i, k, i2, k2),
         \A j \in (s + 1)..(i + 1) : ~NewCell(list[j]), NewCell(list[s]),
         NEW cell, Tells(list, s, i, k, cell),
         NEW event, event.cmd = list[i + 1].cmd,
         HeaderType(event.cmd) # "NULL" => Source(event) = SourceOf(list, i + 1),
         event.cmd = <<"GIW", "RATE">> => SpeedAt(event.at) = Speed(list[i + 1], k + 1)
  PROVE  Tells(list, s, i2, k2, Stored(cell, event))
<1> DEFINE e   == list[i + 1]
           new == Stored(cell, event)
           f   == FieldOf(event.cmd)
<1>1. /\ s..LastRead(i, k) \subseteq s..(i + 1) /\ LastRead(i, k) \in Nat
      /\ \A j \in s..(i + 1) : j \in s..LastRead(i, k) \/ j = i + 1
      /\ LastRead(i2, k2) = i + 1 /\ i + 1 \in s..(i + 1) /\ i2 \in Nat /\ k2 \in Nat
  BY NextIn DEF LastRead, LastValue
<1>2. IsEvent(e) /\ i + 1 \in Nat /\ i + 1 \in 1..Len(list)
  OBVIOUS
<1>3. cell \in [Fields -> Int] /\ cell["ap"] = s
  BY DEF Tells
<1>a. SpeedAt(event.at) \in Int \/ event.cmd # <<"GIW", "RATE">>
  BY <1>2, SpeedType DEF IsEvent
<1>b. HeaderType(event.cmd) # "NULL" => Source(event) \in Int
  BY <1>2 DEF SourceOf
<1>4. /\ new \in [Fields -> Int]
      /\ new["ap"] = s
      /\ \A g \in LastFields : new[g] = IF g = f THEN SourceOf(list, i + 1) ELSE cell[g]
      /\ new["mode"] = IF event.cmd = <<"GIW", "MODE">> /\ (cell["mode"] # 0 \/ ValidMode(e))
                       THEN i + 1 ELSE cell["mode"]
      /\ new["rate"] = IF event.cmd = <<"GIW", "RATE">> /\ Speed(e, k + 1) > cell["rate"]
                       THEN Speed(e, k + 1) ELSE cell["rate"]
  <2>0. LastFields \subseteq Fields /\ {"ap", "mode", "rate"} \subseteq Fields
        /\ {"ap", "mode", "rate"} \cap LastFields = {}
    BY DEF LastFields, Fields
  <2>1. CASE f \in LastFields
    <3>1. event.cmd # <<"GIW", "MODE">> /\ event.cmd # <<"GIW", "RATE">>
          /\ HeaderType(event.cmd) # "NULL"
      <4>1. event.cmd \in {<<"GIW", "NWID">>, <<"GIW", "FREQ">>, <<"GIW", "ESSID">>,
                           <<"GIW", "ENCODE">>, <<"IWEV", "QUAL">>}
        BY <2>1, FieldCmd DEF LastFields
      <4>2. HeaderType(event.cmd) # "NULL"
        BY <4>1, CmdTypes
      <4> QED BY <4>1, <4>2
    <3>2. new = [cell EXCEPT ![f] = Source(event)] /\ Source(event) = SourceOf(list, i + 1)
          /\ Source(event) \in Int
      BY <1>b, <2>1, <3>1, StoredCases
    <3> HIDE DEF new, f
    <3> QED BY <1>3, <2>0, <2>1, <3>1, <3>2
  <2>2. CASE event.cmd = <<"GIW", "MODE">>
    <3>1. f \notin LastFields
      BY <2>2, OtherFields
    <3>2. HeaderType(event.cmd) = "UINT"
      BY <2>2, CmdTypes
    <3>3. Source(event) = i + 1
      BY <3>2 DEF SourceOf
    <3>4. new = IF cell["mode"] # 0 \/ ValidMode(e) THEN [cell EXCEPT !["mode"] = i + 1] ELSE cell
      BY <2>2, <3>3, StoredCases
    <3>5. event.cmd # <<"GIW", "RATE">>
      BY <2>2
    <3> HIDE DEF new, f
    <3> QED BY <1>2, <1>3, <2>0, <2>2, <3>1, <3>4, <3>5
  <2>3. CASE event.cmd = <<"GIW", "RATE">>
    <3>1. f \notin LastFields /\ event.cmd # <<"GIW", "MODE">>
      BY <2>3, OtherFields
    <3>2. new = IF SpeedAt(event.at) > cell["rate"]
                THEN [cell EXCEPT !["rate"] = SpeedAt(event.at)] ELSE cell
      BY <2>3, StoredCases
    <3>3. SpeedAt(event.at) = Speed(e, k + 1) /\ SpeedAt(event.at) \in Int
      BY <1>a, <2>3
    <3> HIDE DEF new, f
    <3> QED BY <1>3, <2>0, <2>3, <3>1, <3>2, <3>3
  <2>4. CASE f \notin LastFields /\ event.cmd # <<"GIW", "MODE">> /\ event.cmd # <<"GIW", "RATE">>
    <3>1. new = cell
      BY <2>4, StoredCases
    <3> HIDE DEF new, f
    <3> QED BY <1>3, <2>4, <3>1
  <2> QED BY <2>1, <2>2, <2>3, <2>4
<1> HIDE DEF new
<1>5. ASSUME NEW g \in LastFields
      PROVE  \E j \in Nat : /\ IsLast(WithField(list, s, i + 1, g), j)
                            /\ new[g] = IF j = 0 THEN 0 ELSE SourceOf(list, j)
  <2>1. PICK j \in Nat : /\ IsLast(WithField(list, s, LastRead(i, k), g), j)
                         /\ cell[g] = IF j = 0 THEN 0 ELSE SourceOf(list, j)
    BY <1>5 DEF Tells
  <2> DEFINE found == WithField(list, s, LastRead(i, k), g)
             more  == WithField(list, s, i + 1, g)
  <2>2. CASE g = f
    <3>1. \A x : x \in more <=> x \in found \/ x = i + 1
      BY <1>1, <2>2 DEF WithField
    <3>2. found \subseteq Int /\ \A x \in found : x <= i + 1
      BY <1>1 DEF WithField
    <3> HIDE DEF found, more
    <3>3. IsLast(more, i + 1)
      BY <1>2, <2>1, <3>1, <3>2, LastGrows DEF found
    <3>4. i + 1 # 0 /\ new[g] = SourceOf(list, i + 1)
      BY <1>4, <1>5, <2>2
    <3> QED BY <1>2, <3>3, <3>4 DEF more
  <2>3. CASE g # f
    <3>1. more = found
      BY <1>1, <2>3 DEF WithField
    <3>2. new[g] = cell[g]
      BY <1>4, <1>5, <2>3
    <3> QED BY <2>1, <3>1, <3>2
  <2> QED BY <2>2, <2>3
<1>6. IsLast(ValidModes(list, s, i + 1), new["mode"])
  <2> DEFINE found == ValidModes(list, s, LastRead(i, k))
             more  == ValidModes(list, s, i + 1)
  <2>1. IsLast(found, cell["mode"]) /\ cell["mode"] \in Int
    BY <1>3 DEF Tells, Fields
  <2>2. CASE event.cmd = <<"GIW", "MODE">> /\ ValidMode(e)
    <3>1. \A x : x \in more <=> x \in found \/ x = i + 1
      BY <1>1, <2>2 DEF ValidModes
    <3>2. found \subseteq Int /\ \A x \in found : x <= i + 1
      BY <1>1 DEF ValidModes
    <3> HIDE DEF found, more
    <3>3. IsLast(more, i + 1)
      BY <1>2, <2>1, <3>1, <3>2, LastGrows
    <3> QED BY <1>4, <2>2, <3>3 DEF more
  <2>3. CASE ~(event.cmd = <<"GIW", "MODE">> /\ ValidMode(e))
    <3>1. more = found
      BY <1>1, <2>3 DEF ValidModes
    <3>2. ASSUME event.cmd = <<"GIW", "MODE">>
          PROVE  cell["mode"] = 0
      <4>1. SUFFICES ASSUME found # {} PROVE FALSE
        BY <2>1 DEF IsLast
      <4>2. PICK j \in found : TRUE
        BY <4>1
      <4>3. /\ j \in s..(i + 1) /\ list[j].cmd = <<"GIW", "MODE">> /\ ValidMode(list[j])
        BY <1>1, <4>2 DEF ValidModes
      <4>4. j # i + 1 /\ j # s
        BY <2>3, <3>2, <4>3 DEF NewCell
      <4>5. j \in 1..((i + 1) - 1) /\ i + 1 \in DOMAIN list
        <5>1. j \in 1..((i + 1) - 1)
          BY <4>3, <4>4
        <5>2. i + 1 \in DOMAIN list
          BY <1>2
        <5> QED BY <5>1, <5>2
      <4>6. PICK m \in j..(i + 1) : NewCell(list[m])
        BY <2>3, <3>2, <4>3, <4>5 DEF ProperList
      <4>7. m \in (s + 1)..(i + 1)
        BY <4>3, <4>4
      <4> QED BY <4>6, <4>7
    <3>3. new["mode"] = cell["mode"]
      BY <1>4, <2>3, <3>2
    <3> QED BY <2>1, <3>1, <3>3
  <2> QED BY <2>2, <2>3
<1>7. IsLast(SpeedsRead(list, s, i2, k2), new["rate"])
  <2>1. IsLast(SpeedsRead(list, s, i, k), cell["rate"]) /\ cell["rate"] \in Int
    BY <1>3 DEF Tells, Fields
  <2>2. SpeedsRead(list, s, i2, k2) =
           IF list[i + 1].cmd = <<"GIW", "RATE">>
           THEN SpeedsRead(list, s, i, k) \cup {Speed(list[i + 1], k + 1)}
           ELSE SpeedsRead(list, s, i, k)
    BY <1>2, OneMoreSpeed, SMTT(30)
  <2>3. SpeedsRead(list, s, i, k) \subseteq 1..5
    BY DEF SpeedsRead
  <2>4. Speed(e, k + 1) \in 1..5
    BY <1>2, SpeedType DEF IsEvent
  <2> DEFINE found == SpeedsRead(list, s, i, k)
             v     == Speed(e, k + 1)
  <2> HIDE DEF found, v
  <2>5. CASE event.cmd = <<"GIW", "RATE">>
    <3>1. SpeedsRead(list, s, i2, k2) = found \cup {v}
      BY <2>2, <2>5 DEF found, v
    <3>2. new["rate"] = IF v > cell["rate"] THEN v ELSE cell["rate"]
      BY <1>4, <2>5 DEF v
    <3>3. IsLast(found \cup {v}, new["rate"])
      <4>1. v \in 1..5 /\ found \subseteq 1..5 /\ IsLast(found, cell["rate"]) /\ cell["rate"] \in Int
        BY <2>1, <2>3, <2>4 DEF found, v
      <4>2. CASE found = {}
        <5>1. cell["rate"] = 0
          BY <4>1, <4>2 DEF IsLast
        <5>2. new["rate"] = v
          BY <3>2, <4>1, <5>1
        <5> QED BY <4>1, <4>2, <5>2 DEF IsLast
      <4>3. CASE found # {}
        <5>1. cell["rate"] \in found /\ \A w \in found : w <= cell["rate"]
          BY <4>1, <4>3 DEF IsLast
        <5>2. new["rate"] \in found \cup {v} /\ \A w \in found \cup {v} : w <= new["rate"]
          BY <3>2, <4>1, <5>1
        <5> QED BY <5>2 DEF IsLast
      <4> QED BY <4>2, <4>3
    <3> QED BY <3>1, <3>3
  <2>6. CASE event.cmd # <<"GIW", "RATE">>
    BY <1>4, <2>1, <2>2, <2>6
  <2> QED BY <2>5, <2>6
<1> QED BY <1>1, <1>4, <1>5, <1>6, <1>7 DEF Tells, new

-----------------------------------------------------------------------------
(* One cell after another *)

\* A proper list of events.
IsList(list) ==
  /\ Len(list) \in Nat /\ DOMAIN list = 1..Len(list)
  /\ \A j \in 1..Len(list) : IsEvent(list[j])
  /\ ProperList(list)

\* Before anything is read there are no cells.
LEMMA NoCells ==
  ASSUME NEW list
  PROVE  \E st : CellsTell(list, << >>, 0, 0, st)
<1> DEFINE st == [a \in 1..0 |-> 1]
<1>1. << >> \in Seq([Fields -> Int]) /\ Len(<< >>) = 0
  OBVIOUS
<1>2. st \in [1..0 -> 1..0]
  OBVIOUS
<1> HIDE DEF st
<1>3. CellsTell(list, << >>, 0, 0, st)
  BY <1>1, <1>2 DEF CellsTell
<1> QED BY <1>3

\* A cell that starts tells nothing yet but who it is.
LEMMA StartTells ==
  ASSUME NEW list, NEW s \in Nat, NewCell(list[s])
  PROVE  Tells(list, s, s, 0, [NoCell EXCEPT !.ap = s])
<1> DEFINE cell == [NoCell EXCEPT !.ap = s]
<1>1. /\ cell \in [Fields -> Int]
      /\ cell["ap"] = s /\ \A f \in LastFields \cup {"mode", "rate"} : cell[f] = 0
  <2>1. NoCell \in [Fields -> Int] /\ \A f \in LastFields \cup {"mode", "rate"} : NoCell[f] = 0
    BY DEF NoCell, Fields, LastFields
  <2>2. "ap" \notin LastFields \cup {"mode", "rate"} /\ "ap" \in Fields
        /\ LastFields \cup {"mode", "rate"} \subseteq Fields
    BY DEF LastFields, Fields
  <2> QED BY <2>1, <2>2
<1> HIDE DEF cell
<1>2. \A f \in LastFields : WithField(list, s, s, f) = {}
  <2>1. FieldOf(<<"GIW", "AP">>) \notin LastFields
    <3>1. FieldOf(<<"GIW", "AP">>) = NoField
      BY DEF FieldOf, NoField
    <3> QED BY <3>1, FieldCmd
  <2> QED BY <2>1 DEF WithField, NewCell
<1>3. ValidModes(list, s, s) = {}
  BY DEF ValidModes, NewCell
<1>4. SpeedsRead(list, s, s, 0) = {}
  <2> SUFFICES ASSUME NEW j \in s..(s + 1), NEW q \in Nat \ {0},
                      list[j].cmd = <<"GIW", "RATE">>, j <= s \/ q <= 0
               PROVE  FALSE
    BY DEF SpeedsRead
  <2>1. j = s
    OBVIOUS
  <2> QED BY <2>1 DEF NewCell
<1>5. LastRead(s, 0) = s
  BY DEF LastRead
<1>6. \A f \in LastFields :
        \E j \in Nat : /\ IsLast(WithField(list, s, s, f), j)
                       /\ cell[f] = IF j = 0 THEN 0 ELSE SourceOf(list, j)
  <2> SUFFICES ASSUME NEW f \in LastFields
               PROVE  IsLast(WithField(list, s, s, f), 0) /\ cell[f] = 0
    OBVIOUS
  <2> QED BY <1>1, <1>2 DEF IsLast
<1>7. IsLast(ValidModes(list, s, s), cell["mode"]) /\ IsLast(SpeedsRead(list, s, s, 0), cell["rate"])
  BY <1>1, <1>3, <1>4 DEF IsLast
<1> QED BY <1>1, <1>5, <1>6, <1>7 DEF Tells, cell

\* A cell is added.
LEMMA CellAdded ==
  ASSUME NEW list, NEW cells, NEW i \in Nat, NEW st,
         CellsTell(list, cells, i, 0, st), NewCell(list[i + 1])
  PROVE  \E more : CellsTell(list, Append(cells, [NoCell EXCEPT !.ap = i + 1]), i + 1, 0, more)
<1> DEFINE cell == [NoCell EXCEPT !.ap = i + 1]
           all  == Append(cells, cell)
           n    == Len(cells)
           more == [a \in 1..(n + 1) |-> IF a <= n THEN st[a] ELSE i + 1]
<1>1. Tells(list, i + 1, i + 1, 0, cell)
  BY StartTells
<1>2. cell \in [Fields -> Int]
  BY <1>1 DEF Tells
<1> HIDE DEF cell
<1>3. /\ cells \in Seq([Fields -> Int]) /\ n \in Nat
      /\ st \in [1..n -> 1..i]
      /\ \A a, b \in 1..n : a < b => st[a] < st[b]
      /\ \A j \in 1..i : NewCell(list[j]) <=> \E a \in 1..n : st[a] = j
      /\ \A a \in 1..(n - 1) : Tells(list, st[a], st[a + 1] - 1, 0, cells[a])
      /\ cells # << >> => Tells(list, st[n], i, 0, cells[n])
  BY DEF CellsTell
<1>4. /\ all \in Seq([Fields -> Int]) /\ Len(all) = n + 1 /\ all[n + 1] = cell
      /\ \A a \in 1..n : all[a] = cells[a]
      /\ all # << >>
  <2> DEFINE T == [Fields -> Int]
  <2>1. cells \in Seq(T) /\ cell \in T
    BY <1>2, <1>3
  <2> HIDE DEF T
  <2>2. all \in Seq(T) /\ Len(all) = n + 1 /\ all[n + 1] = cell
    BY <2>1
  <2>3. \A a \in 1..n : all[a] = cells[a]
    BY <2>1
  <2>4. all # << >>
    BY <2>1
  <2> QED BY <2>2, <2>3, <2>4 DEF T
<1> HIDE DEF all
<1>5. /\ more \in [1..(n + 1) -> 1..(i + 1)] /\ more[n + 1] = i + 1
      /\ \A a \in 1..n : more[a] = st[a] /\ st[a] \in 1..i
  <2> HIDE DEF n
  <2>1. \A a \in 1..n : st[a] \in 1..i
    BY <1>3
  <2>2. \A a \in 1..(n + 1) : (IF a <= n THEN st[a] ELSE i + 1) \in 1..(i + 1)
    BY <1>3, <2>1
  <2>3. more \in [1..(n + 1) -> 1..(i + 1)]
    BY <2>2
  <2>4. n + 1 \in 1..(n + 1) /\ ~(n + 1 <= n)
    BY <1>3
  <2>5. \A a \in 1..n : a \in 1..(n + 1) /\ a <= n
    BY <1>3
  <2> QED BY <2>1, <2>3, <2>4, <2>5
<1>0. cells = << >> <=> n = 0
  BY <1>3
<1> HIDE DEF more, n
<1>6. \A a, b \in 1..(n + 1) : a < b => more[a] < more[b]
  <2> SUFFICES ASSUME NEW a \in 1..(n + 1), NEW b \in 1..(n + 1), a < b
               PROVE  more[a] < more[b]
    OBVIOUS
  <2>1. a \in 1..n /\ more[a] = st[a] /\ st[a] \in 1..i
    BY <1>3, <1>5
  <2>2. CASE b = n + 1
    BY <1>5, <2>1, <2>2
  <2>3. CASE b \in 1..n
    BY <1>3, <1>5, <2>1, <2>3
  <2> QED BY <1>3, <2>2, <2>3
<1>7. \A j \in 1..(i + 1) : NewCell(list[j]) <=> \E a \in 1..(n + 1) : more[a] = j
  <2> SUFFICES ASSUME NEW j \in 1..(i + 1)
               PROVE  NewCell(list[j]) <=> \E a \in 1..(n + 1) : more[a] = j
    OBVIOUS
  <2>1. CASE j = i + 1
    <3>1. n + 1 \in 1..(n + 1)
      BY <1>3
    <3> QED BY <1>5, <2>1, <3>1
  <2>2. CASE j # i + 1
    <3>1. j \in 1..i
      BY <2>2
    <3>2. (\E a \in 1..n : st[a] = j) <=> \E a \in 1..(n + 1) : more[a] = j
      <4>1. ASSUME NEW a \in 1..n, st[a] = j PROVE a \in 1..(n + 1) /\ more[a] = j
        BY <1>3, <1>5, <4>1
      <4>2. ASSUME NEW a \in 1..(n + 1), more[a] = j PROVE a \in 1..n /\ st[a] = j
        <5>1. a # n + 1
          BY <1>5, <2>2, <4>2
        <5>2. a \in 1..n
          BY <1>3, <5>1
        <5> QED BY <1>5, <4>2, <5>2
      <4> QED BY <4>1, <4>2
    <3> QED BY <1>3, <3>1, <3>2
  <2> QED BY <2>1, <2>2
<1>8. \A a \in 1..n : Tells(list, more[a], more[a + 1] - 1, 0, all[a])
  <2> SUFFICES ASSUME NEW a \in 1..n
               PROVE  Tells(list, more[a], more[a + 1] - 1, 0, all[a])
    OBVIOUS
  <2>1. CASE a = n
    <3>1. more[n + 1] - 1 = i /\ cells # << >>
      BY <1>0, <1>5, <2>1
    <3> QED BY <1>3, <1>4, <1>5, <2>1, <3>1
  <2>2. CASE a # n
    <3>1. a \in 1..(n - 1) /\ a + 1 \in 1..n
      BY <1>3, <2>2
    <3> QED BY <1>3, <1>4, <1>5, <3>1
  <2> QED BY <2>1, <2>2
<1>9. Tells(list, more[n + 1], i + 1, 0, all[n + 1])
  BY <1>1, <1>4, <1>5
<1>10. (n + 1) - 1 = n
  BY <1>3
<1>11. CellsTell(list, all, i + 1, 0, more)
  BY <1>4, <1>5, <1>6, <1>7, <1>8, <1>9, <1>10 DEF CellsTell
<1> QED BY <1>11 DEF all, cell

\* The last cell tells more.
LEMMA CellGrows ==
  ASSUME NEW list, IsList(list), fetched = list,
         NEW cells, NEW i \in Nat, NEW k \in Nat, NEW st, CellsTell(list, cells, i, k, st),
         i < Len(list), cells # << >>, ~NewCell(list[i + 1]),
         NEW i2, NEW k2, LastValue(list, i, k, i2, k2),
         NEW event, event.cmd = list[i + 1].cmd,
         HeaderType(event.cmd) # "NULL" => Source(event) = SourceOf(list, i + 1),
         event.cmd = <<"GIW", "RATE">> => SpeedAt(event.at) = Speed(list[i + 1], k + 1)
  PROVE  CellsTell(list, [cells EXCEPT ![Len(cells)] = Stored(@, event)], i2, k2, st)
<1> DEFINE n   == Len(cells)
           new == Stored(cells[n], event)
           all == [cells EXCEPT ![n] = new]
<1>1. /\ cells \in Seq([Fields -> Int]) /\ n \in Nat
      /\ st \in [1..n -> 1..i]
      /\ \A a, b \in 1..n : a < b => st[a] < st[b]
      /\ \A j \in 1..i : NewCell(list[j]) <=> \E a \in 1..n : st[a] = j
      /\ \A a \in 1..(n - 1) : Tells(list, st[a], st[a + 1] - 1, 0, cells[a])
      /\ Tells(list, st[n], i, k, cells[n])
  <2>1. cells \in Seq([Fields -> Int])
    BY DEF CellsTell
  <2>2. n \in Nat
    BY <2>1, LenProperties
  <2> HIDE DEF n
  <2> QED BY <2>1, <2>2 DEF CellsTell, n
<1>2. n # 0 /\ n \in 1..n
  BY <1>1
<1> HIDE DEF n
<1>3. st[n] \in 1..i /\ st[n] \in Nat \ {0} /\ st[n] <= i
  BY <1>1, <1>2
<1>4. NewCell(list[st[n]])
  BY <1>1, <1>2, <1>3
<1>5. \A j \in (st[n] + 1)..(i + 1) : ~NewCell(list[j])
  <2> SUFFICES ASSUME NEW j \in (st[n] + 1)..(i + 1), NewCell(list[j]) PROVE FALSE
    OBVIOUS
  <2>1. j \in 1..i
    <3>1. j # i + 1
      OBVIOUS
    <3> QED BY <1>3, <3>1
  <2>2. PICK a \in 1..n : st[a] = j
    BY <1>1, <2>1
  <2>3. st[a] <= st[n]
    <3>1. CASE a = n
      BY <1>3, <3>1
    <3>2. CASE a # n
      <4>1. a < n
        BY <1>1, <3>2
      <4>2. st[a] < st[n] /\ st[a] \in 1..i
        BY <1>1, <1>2, <4>1
      <4> QED BY <1>3, <4>2
    <3> QED BY <3>1, <3>2
  <2> QED BY <1>3, <2>2, <2>3
<1>6. Tells(list, st[n], i2, k2, new)
  BY <1>1, <1>3, <1>4, <1>5, StoredTells DEF IsList
<1>7. new \in [Fields -> Int]
  BY <1>6 DEF Tells
<1> HIDE DEF new
<1>8. /\ all \in Seq([Fields -> Int]) /\ Len(all) = n /\ all[n] = new
      /\ \A a \in 1..(n - 1) : all[a] = cells[a]
      /\ all # << >>
  BY <1>1, <1>2, <1>7 DEF n
<1>9. /\ i2 \in Nat /\ (i2 = i \/ i2 = i + 1) /\ k2 \in Nat
      /\ k2 # 0 => i2 = i
  BY DEF LastValue
<1>10. st \in [1..n -> 1..i2]
  BY <1>1, <1>9
<1>11. \A j \in 1..i2 : NewCell(list[j]) <=> \E a \in 1..n : st[a] = j
  <2> SUFFICES ASSUME NEW j \in 1..i2
               PROVE  NewCell(list[j]) <=> \E a \in 1..n : st[a] = j
    OBVIOUS
  <2>1. CASE j \in 1..i
    BY <1>1, <2>1
  <2>2. CASE j = i + 1
    <3>1. \A a \in 1..n : st[a] # j
      BY <1>1, <2>2
    <3> QED BY <2>2, <3>1
  <2> QED BY <1>9, <2>1, <2>2
<1>12. [cells EXCEPT ![Len(cells)] = Stored(@, event)] = all
  BY DEF n, new
<1> HIDE DEF all
<1>13. \A a \in 1..(n - 1) : Tells(list, st[a], st[a + 1] - 1, 0, all[a])
  BY <1>1, <1>8
<1>14. CellsTell(list, all, i2, k2, st)
  BY <1>1, <1>6, <1>8, <1>9, <1>10, <1>11, <1>13 DEF CellsTell
<1> QED BY <1>12, <1>14

-----------------------------------------------------------------------------
(* What a list says *)

\* The first a of some different numbers are a.
LEMMA CountFirst ==
  ASSUME NEW n \in Nat, NEW st, NEW S, st \in [1..n -> S],
         \A a, b \in 1..n : a # b => st[a] # st[b],
         NEW T, \A r : r \in T <=> \E a \in 1..n : st[a] = r
  PROVE  IsFiniteSet(T) /\ Cardinality(T) = n
<1> DEFINE f == [a \in 1..n |-> st[a]]
<1>1. f \in [1..n -> T]
  OBVIOUS
<1>2. \A a, b \in 1..n : f[a] = f[b] => a = b
  OBVIOUS
<1>3. \A t \in T : \E a \in 1..n : f[a] = t
  OBVIOUS
<1> HIDE DEF f
<1>4. f \in Bijection(1..n, T)
  BY <1>1, <1>2, <1>3 DEF Bijection, Injection, Surjection, IsInjective
<1>5. ExistsBijection(1..n, T)
  BY <1>4 DEF ExistsBijection
<1>6. IsFiniteSet(1..n) /\ Cardinality(1..n) = n
  <2>1. IsFiniteSet(1..n) /\ Cardinality(1..n) = IF 1 > n THEN 0 ELSE n - 1 + 1
    BY FS_Interval
  <2> QED BY <2>1
<1> QED BY <1>5, <1>6, FS_Bijection

\* The last of some events is the one that is chosen.
LEMMA LastChosen ==
  ASSUME NEW found, found \subseteq Int, NEW v \in Int, IsLast(found, v)
  PROVE  v = IF found = {} THEN 0 ELSE CHOOSE i \in found : \A j \in found : j <= i
<1>1. CASE found = {}
  BY <1>1 DEF IsLast
<1>2. CASE found # {}
  <2> DEFINE w == CHOOSE i \in found : \A j \in found : j <= i
  <2>1. v \in found /\ \A j \in found : j <= v
    BY <1>2 DEF IsLast
  <2>2. w \in found /\ \A j \in found : j <= w
    BY <2>1
  <2> HIDE DEF w
  <2>3. v <= w /\ w <= v /\ w \in Int
    BY <2>1, <2>2
  <2>4. v = w
    BY <2>3
  <2> QED BY <1>2, <2>4 DEF w
<1> QED BY <1>1, <1>2

\* Up to its end, the last event of a cell with a command is that of its field.
LEMMA LatestField ==
  ASSUME NEW list, NEW s \in Nat, NEW last \in Nat, CellEnd(list, s) = last, NEW cmd,
         FieldOf(cmd) \in LastFields, NEW v \in Int, IsLast(WithField(list, s, last, FieldOf(cmd)), v)
  PROVE  Latest(list, s, cmd, Always) = v
<1> DEFINE found == {i \in s..CellEnd(list, s) : list[i].cmd = cmd /\ Always(list[i])}
<1>1. Latest(list, s, cmd, Always) =
        IF found = {} THEN 0 ELSE CHOOSE i \in found : \A j \in found : j <= i
  BY Zenon DEF Latest
<1>2. \A c : FieldOf(c) = FieldOf(cmd) <=> c = cmd
  BY FieldCmd DEF LastFields
<1>3. found = WithField(list, s, last, FieldOf(cmd))
  BY <1>2 DEF WithField, Always
<1>4. found \subseteq Int
  OBVIOUS
<1> HIDE DEF found
<1> QED BY <1>1, <1>3, <1>4, LastChosen

\* And the last valid mode is the last of the valid modes.
LEMMA LatestMode ==
  ASSUME NEW list, NEW s \in Nat, NEW last \in Nat, CellEnd(list, s) = last,
         NEW v \in Int, IsLast(ValidModes(list, s, last), v)
  PROVE  Latest(list, s, <<"GIW", "MODE">>, ValidMode) = v
<1> DEFINE found == {i \in s..CellEnd(list, s) :
                       list[i].cmd = <<"GIW", "MODE">> /\ ValidMode(list[i])}
<1>1. Latest(list, s, <<"GIW", "MODE">>, ValidMode) =
        IF found = {} THEN 0 ELSE CHOOSE i \in found : \A j \in found : j <= i
  BY Zenon DEF Latest
<1>2. found = ValidModes(list, s, last)
  BY DEF ValidModes
<1>3. found \subseteq Int
  OBVIOUS
<1>4. IsLast(found, v)
  BY <1>2
<1> HIDE DEF found
<1>5. v = IF found = {} THEN 0 ELSE CHOOSE i \in found : \A j \in found : j <= i
  BY <1>3, <1>4, LastChosen
<1> QED BY <1>1, <1>5

\* The greatest speed of a cell is the fastest.
LEMMA FastestIs ==
  ASSUME NEW list, Len(list) \in Nat, \A j \in 1..Len(list) : IsEvent(list[j]),
         NEW s \in Nat \ {0}, NEW last \in Nat, last <= Len(list), CellEnd(list, s) = last,
         NEW v \in Int, IsLast(SpeedsRead(list, s, last, 0), v)
  PROVE  Fastest(list, s) = v
<1> DEFINE read   == SpeedsRead(list, s, last, 0)
           speeds == Speeds(list, s) \cup {0}
<1>1. read \subseteq 1..5
  BY DEF SpeedsRead
<1>2. \A w : w \in Speeds(list, s) <=>
        \E j \in s..last : list[j].cmd = <<"GIW", "RATE">> /\ \E q \in 1..list[j].n : w = Speed(list[j], q)
  <2> DEFINE rated == {j \in s..last : list[j].cmd = <<"GIW", "RATE">>}
             of(j) == {Speed(list[j], q) : q \in 1..list[j].n}
  <2>1. Speeds(list, s) = UNION {of(j) : j \in rated}
    BY DEF Speeds
  <2> HIDE DEF of, rated
  <2>2. \A w : w \in Speeds(list, s) <=> \E j \in rated : w \in of(j)
    BY <2>1
  <2> QED BY <2>2 DEF of, rated
<1>3. \A w : w \in read <=>
        w \in 1..5 /\ \E j \in s..(last + 1) : \E q \in Nat \ {0} :
          /\ list[j].cmd = <<"GIW", "RATE">> /\ q <= list[j].n
          /\ j <= last \/ q <= 0
          /\ w = Speed(list[j], q)
  BY DEF SpeedsRead
<1>4. \A j \in s..last : IsEvent(list[j])
  OBVIOUS
<1>5. \A w : w \in Speeds(list, s) <=> w \in read
  <2>1. ASSUME NEW w \in Speeds(list, s) PROVE w \in read
    <3>1. PICK j \in s..last : list[j].cmd = <<"GIW", "RATE">>
                                /\ \E q \in 1..list[j].n : w = Speed(list[j], q)
      BY <1>2, <2>1
    <3>2. PICK q \in 1..list[j].n : w = Speed(list[j], q)
      BY <3>1
    <3>3. list[j].num \in Nat /\ list[j].n \in Nat
      BY <1>4, <3>1 DEF IsEvent
    <3>4. q \in Nat \ {0} /\ q <= list[j].n
      BY <3>2, <3>3
    <3>5. w \in 1..5
      BY <3>2, <3>3, <3>4, SpeedType
    <3>6. j \in s..(last + 1) /\ j <= last
      OBVIOUS
    <3> QED BY <1>3, <3>1, <3>2, <3>4, <3>5, <3>6
  <2>2. ASSUME NEW w \in read PROVE w \in Speeds(list, s)
    <3>1. PICK j \in s..(last + 1) : \E q \in Nat \ {0} :
          /\ list[j].cmd = <<"GIW", "RATE">> /\ q <= list[j].n
          /\ j <= last \/ q <= 0
          /\ w = Speed(list[j], q)
      BY <1>3, <2>2
    <3>2. PICK q \in Nat \ {0} :
          /\ list[j].cmd = <<"GIW", "RATE">> /\ q <= list[j].n
          /\ j <= last \/ q <= 0
          /\ w = Speed(list[j], q)
      BY <3>1
    <3>3. j \in s..last
      BY <3>2
    <3>4. list[j].n \in Nat
      BY <1>4, <3>3 DEF IsEvent
    <3>5. q \in 1..list[j].n
      BY <3>2, <3>4
    <3> QED BY <1>2, <3>2, <3>3, <3>5
  <2> QED BY <2>1, <2>2
<1>6. Fastest(list, s) = CHOOSE x \in speeds : \A w \in speeds : w <= x
  BY Zenon DEF Fastest
<1>7. v \in speeds /\ \A w \in speeds : w <= v
  BY <1>1, <1>5 DEF IsLast
<1>8. \A w \in speeds : w \in Int
  BY <1>1, <1>5
<1> DEFINE x == CHOOSE x \in speeds : \A w \in speeds : w <= x
<1>9. x \in speeds /\ \A w \in speeds : w <= x
  BY <1>7
<1> HIDE DEF x, speeds
<1>10. x <= v /\ v <= x /\ x \in Int
  BY <1>7, <1>8, <1>9
<1>11. x = v
  BY <1>10
<1> QED BY <1>6, <1>11 DEF x, speeds

\* A cell whose events have all been read is that of the list.
LEMMA CellTold ==
  ASSUME NEW list, Len(list) \in Nat, \A j \in 1..Len(list) : IsEvent(list[j]),
         NEW s \in Nat \ {0}, NEW last \in Nat, last <= Len(list), CellEnd(list, s) = last,
         NEW cell, Tells(list, s, last, 0, cell)
  PROVE  cell = CellAt(list, s)
<1>1. /\ cell \in [Fields -> Int] /\ cell["ap"] = s
      /\ IsLast(ValidModes(list, s, last), cell["mode"])
      /\ IsLast(SpeedsRead(list, s, last, 0), cell["rate"])
      /\ \A f \in LastFields :
           \E j \in Nat : /\ IsLast(WithField(list, s, last, f), j)
                          /\ cell[f] = IF j = 0 THEN 0 ELSE SourceOf(list, j)
  BY DEF Tells, LastRead
<1>2. cell["mode"] = Latest(list, s, <<"GIW", "MODE">>, ValidMode) /\ cell["rate"] = Fastest(list, s)
  BY <1>1, LatestMode, FastestIs DEF Fields
<1>3. ASSUME NEW cmd, FieldOf(cmd) \in LastFields
      PROVE  cell[FieldOf(cmd)] =
               LET j == Latest(list, s, cmd, Always)
               IN  IF j # 0 /\ HeaderType(cmd) = "POINT" /\ ~PayloadKept(list[j]) THEN -1 ELSE j
  <2> DEFINE f == FieldOf(cmd)
  <2>1. PICK j \in Nat : /\ IsLast(WithField(list, s, last, f), j)
                         /\ cell[f] = IF j = 0 THEN 0 ELSE SourceOf(list, j)
    BY <1>1, <1>3
  <2>2. Latest(list, s, cmd, Always) = j
    BY <1>3, <2>1, LatestField
  <2>3. j # 0 => list[j].cmd = cmd
    <3>1. j # 0 => FieldOf(list[j].cmd) = f
      BY <2>1 DEF IsLast, WithField
    <3> QED BY <1>3, <3>1, FieldCmd DEF LastFields
  <2>4. cell[f] = IF j # 0 /\ HeaderType(cmd) = "POINT" /\ ~PayloadKept(list[j]) THEN -1 ELSE j
    BY <2>1, <2>3 DEF SourceOf
  <2> QED BY <2>2, <2>4
<1>4. /\ FieldOf(<<"GIW", "NWID">>) = "nwid" /\ FieldOf(<<"GIW", "FREQ">>) = "freq"
      /\ FieldOf(<<"GIW", "ESSID">>) = "essid" /\ FieldOf(<<"GIW", "ENCODE">>) = "key"
      /\ FieldOf(<<"IWEV", "QUAL">>) = "qual"
  BY FieldCmd
<1>5. cell["nwid"] = Latest(list, s, <<"GIW", "NWID">>, Always)
  BY <1>3, <1>4, CmdTypes DEF LastFields
<1>6. cell["freq"] = Latest(list, s, <<"GIW", "FREQ">>, Always)
  BY <1>3, <1>4, CmdTypes DEF LastFields
<1>7. cell["qual"] = Latest(list, s, <<"IWEV", "QUAL">>, Always)
  BY <1>3, <1>4, CmdTypes DEF LastFields
<1>8. cell["essid"] = LatestPayload(list, s, <<"GIW", "ESSID">>)
  BY <1>3, <1>4, CmdTypes DEF LastFields, LatestPayload
<1>9. cell["key"] = LatestPayload(list, s, <<"GIW", "ENCODE">>)
  BY <1>3, <1>4, CmdTypes DEF LastFields, LatestPayload
<1> QED BY <1>1, <1>2, <1>5, <1>6, <1>7, <1>8, <1>9 DEF CellAt, Fields

\* A cell lasts until the next one starts, or the list ends.
LEMMA EndOfCell ==
  ASSUME NEW list, Len(list) \in Nat, NEW s \in Nat \ {0}, NEW last \in Nat, s <= last,
         last <= Len(list), \A j \in (s + 1)..last : ~NewCell(list[j]),
         last = Len(list) \/ NewCell(list[last + 1])
  PROVE  CellEnd(list, s) = last
<1> DEFINE End(e) == /\ \A i \in (s + 1)..e : ~NewCell(list[i])
                     /\ e = Len(list) \/ NewCell(list[e + 1])
           x == CHOOSE e \in s..Len(list) : End(e)
<1>1. last \in s..Len(list) /\ End(last)
  OBVIOUS
<1> HIDE DEF End
<1>2. x \in s..Len(list) /\ End(x)
  BY <1>1
<1> HIDE DEF x
<1> USE DEF End
<1>3. ~(x < last)
  <2> SUFFICES ASSUME x < last PROVE FALSE
    OBVIOUS
  <2>1. x + 1 \in (s + 1)..last /\ x # Len(list)
    BY <1>2
  <2> QED BY <1>2, <2>1
<1>4. ~(last < x)
  <2> SUFFICES ASSUME last < x PROVE FALSE
    OBVIOUS
  <2>1. last + 1 \in (s + 1)..x /\ last # Len(list)
    BY <1>2
  <2> QED BY <1>1, <1>2, <2>1
<1>5. x = last
  BY <1>2, <1>3, <1>4
<1> QED BY <1>5 DEF CellEnd, x

\* When the whole list has been read, the cells are those of the list.
LEMMA CellsTold ==
  ASSUME NEW list, IsList(list), NEW cells, NEW st, CellsTell(list, cells, Len(list), 0, st)
  PROVE  cells = Cells(list)
<1> DEFINE n      == Len(cells)
           all    == Len(list)
           starts == CellStarts(list)
           Nth(m) == CHOOSE s \in starts : Cardinality({r \in starts : r <= s}) = m
<1>1. cells \in Seq([Fields -> Int]) /\ n \in Nat /\ all \in Nat
  <2>1. cells \in Seq([Fields -> Int])
    BY DEF CellsTell
  <2> QED BY <2>1, LenProperties DEF IsList
<1> HIDE DEF n, all
<1>2. /\ st \in [1..n -> 1..all]
      /\ \A a, b \in 1..n : a < b => st[a] < st[b]
      /\ \A j \in 1..all : NewCell(list[j]) <=> \E a \in 1..n : st[a] = j
      /\ \A a \in 1..(n - 1) : Tells(list, st[a], st[a + 1] - 1, 0, cells[a])
      /\ cells # << >> => Tells(list, st[n], all, 0, cells[n])
  BY DEF CellsTell, n, all
<1>3. \A r : r \in starts <=> \E a \in 1..n : st[a] = r
  <2>1. DOMAIN list = 1..all
    BY DEF IsList, all
  <2>2. \A r : r \in starts <=> r \in 1..all /\ NewCell(list[r])
    BY <2>1 DEF CellStarts
  <2> HIDE DEF starts
  <2> QED BY <1>2, <2>2
<1> HIDE DEF starts
<1>4. ASSUME NEW a \in 1..n, NEW b \in 1..n
      PROVE  /\ a # b => st[a] # st[b]
             /\ st[b] <= st[a] <=> b <= a
             /\ st[a] \in 1..all
  <2>1. a < b \/ b < a \/ a = b
    BY <1>1
  <2>2. st[a] \in 1..all /\ st[b] \in 1..all
    BY <1>2
  <2>3. (a < b => st[a] < st[b]) /\ (b < a => st[b] < st[a])
    BY <1>2
  <2> QED BY <1>1, <2>1, <2>2, <2>3
<1>5. Cardinality(starts) = n
  BY <1>1, <1>2, <1>3, <1>4, CountFirst
<1>6. \A a \in 1..n : Cardinality({r \in starts : r <= st[a]}) = a
  <2> SUFFICES ASSUME NEW a \in 1..n PROVE Cardinality({r \in starts : r <= st[a]}) = a
    OBVIOUS
  <2> DEFINE T  == {r \in starts : r <= st[a]}
             sb == [b \in 1..a |-> st[b]]
  <2>1. a \in Nat /\ \A b \in 1..a : b \in 1..n
    BY <1>1
  <2>2. sb \in [1..a -> 1..all]
    BY <1>4, <2>1
  <2>3. \A b, c \in 1..a : b # c => sb[b] # sb[c]
    BY <1>4, <2>1
  <2>4. \A r : r \in T <=> \E b \in 1..a : sb[b] = r
    <3>1. ASSUME NEW r \in T PROVE \E b \in 1..a : sb[b] = r
      <4>1. PICK b \in 1..n : st[b] = r
        BY <1>3, <3>1
      <4>2. b <= a
        BY <1>4, <3>1, <4>1
      <4>3. b \in 1..a
        BY <1>1, <4>2
      <4> QED BY <4>1, <4>3
    <3>2. ASSUME NEW b \in 1..a PROVE sb[b] \in T
      <4>1. b \in 1..n /\ b <= a /\ sb[b] = st[b]
        BY <2>1
      <4> QED BY <1>3, <1>4, <4>1
    <3> QED BY <3>1, <3>2
  <2> HIDE DEF T, sb
  <2>5. Cardinality(T) = a
    BY <2>1, <2>2, <2>3, <2>4, CountFirst
  <2> QED BY <2>5 DEF T
<1>7. ASSUME NEW a \in 1..n PROVE Nth(a) = st[a]
  <2>1. st[a] \in starts /\ Cardinality({r \in starts : r <= st[a]}) = a
    BY <1>3, <1>6
  <2>2. Nth(a) \in starts /\ Cardinality({r \in starts : r <= Nth(a)}) = a
    BY <2>1
  <2>3. PICK b \in 1..n : st[b] = Nth(a)
    BY <1>3, <2>2
  <2>4. Cardinality({r \in starts : r <= st[b]}) = a
    BY <2>2, <2>3
  <2>5. Cardinality({r \in starts : r <= st[b]}) = b
    BY <1>6
  <2> QED BY <2>3, <2>4, <2>5
<1>8. ASSUME NEW a \in 1..n PROVE cells[a] = CellAt(list, st[a])
  <2> DEFINE last == IF a = n THEN all ELSE st[a + 1] - 1
  <2>0. n # 0 /\ cells # << >>
    BY <1>1 DEF n
  <2>1. /\ st[a] \in 1..all /\ last \in Nat /\ st[a] <= last /\ last <= all
        /\ Tells(list, st[a], last, 0, cells[a])
        /\ last = all \/ NewCell(list[last + 1])
        /\ \A b \in 1..n : st[b] > st[a] => st[b] > last
    <3>1. CASE a = n
      <4>1. last = all /\ Tells(list, st[a], last, 0, cells[a])
        BY <1>2, <2>0, <3>1
      <4>2. \A b \in 1..n : ~(st[b] > st[a])
        <5> SUFFICES ASSUME NEW b \in 1..n PROVE ~(st[b] > st[a])
          OBVIOUS
        <5>1. b <= a
          BY <1>1, <3>1
        <5> QED BY <1>4, <5>1
      <4> QED BY <1>1, <1>4, <4>1, <4>2
    <3>2. CASE a # n
      <4>1. a \in 1..(n - 1) /\ a + 1 \in 1..n /\ a < a + 1 /\ last = st[a + 1] - 1
        BY <1>1, <3>2
      <4> HIDE DEF last
      <4>2. st[a] < st[a + 1] /\ st[a] \in 1..all /\ st[a + 1] \in 1..all
        BY <1>2, <1>4, <4>1
      <4>3. NewCell(list[st[a + 1]])
        BY <1>2, <4>1, <4>2
      <4>4. last + 1 = st[a + 1] /\ last \in Nat /\ st[a] <= last /\ last <= all
        BY <1>1, <4>1, <4>2
      <4>5. ASSUME NEW b \in 1..n, st[b] > st[a] PROVE st[b] > last
        <5>1. ~(b <= a) /\ st[b] \in 1..all
          BY <1>4, <4>5
        <5>2. a + 1 <= b
          BY <1>1, <5>1
        <5>3. st[a + 1] <= st[b]
          BY <1>4, <4>1, <5>2
        <5> QED BY <4>2, <4>4, <5>1, <5>3
      <4>6. Tells(list, st[a], last, 0, cells[a])
        BY <1>2, <4>1
      <4> QED BY <4>2, <4>3, <4>4, <4>5, <4>6
    <3> QED BY <3>1, <3>2
  <2> HIDE DEF last
  <2>2. \A j \in (st[a] + 1)..last : ~NewCell(list[j])
    <3> SUFFICES ASSUME NEW j \in (st[a] + 1)..last, NewCell(list[j]) PROVE FALSE
      OBVIOUS
    <3>1. j \in 1..all /\ j > st[a] /\ ~(j > last)
      BY <1>1, <2>1
    <3>2. PICK b \in 1..n : st[b] = j
      BY <1>2, <3>1
    <3> QED BY <2>1, <3>1, <3>2
  <2>3. st[a] \in Nat \ {0} /\ \A j \in 1..all : IsEvent(list[j])
    <3>1. st[a] \in Nat \ {0}
      BY <1>1, <2>1
    <3>2. \A j \in 1..all : IsEvent(list[j])
      BY DEF IsList, all
    <3> QED BY <3>1, <3>2
  <2>4. CellEnd(list, st[a]) = last
    BY <1>1, <2>1, <2>2, <2>3, EndOfCell DEF all
  <2> QED BY <1>1, <2>1, <2>3, <2>4, CellTold DEF all
<1>9. cells = [a \in 1..n |-> cells[a]]
  BY <1>1 DEF n
<1>10. [a \in 1..n |-> cells[a]] = [a \in 1..n |-> CellAt(list, Nth(a))]
  BY <1>7, <1>8
<1>11. Cells(list) = [a \in 1..Cardinality(starts) |-> CellAt(list, Nth(a))]
  BY DEF Cells, starts
<1> QED BY <1>5, <1>9, <1>10, <1>11

-----------------------------------------------------------------------------
(* Decoding *)

\* The lists drivers may hold are lists of proper events.
ProperLists == \A list \in Lists : ProperList(list)

\* With the offsets off and the cells starting at st, i events of the list and k values
\* of the next one are in the cells.
DecodedTo(off, i, k, st) ==
  /\ Written(fetched, layout, off)
  /\ HasRead(fetched, layout, off, i, k, current, value)
  /\ CellsTell(fetched, result, i, k, st)
  /\ ret \in {0, 1, 2} /\ (ret = 0 => i = Len(fetched) /\ k = 0)

\* The fields of the cells are events of the list, none or -1.
Typed == \A n \in DOMAIN result : \A f \in DOMAIN NoCell \ {"rate"} : result[n][f] \in FieldTypes

\* What is in the cells while the list is decoded, and when the scan has ended.
Decoded ==
  /\ pc = "parse" =>
       \E off, st : \E i \in 0..Len(fetched) : \E k \in Nat : DecodedTo(off, i, k, st)
  /\ pc \in {"done", "crashed"} => Typed

\* The lists that are read are proper.
LEMMA ReadList ==
  ASSUME ProperLists, NEW list \in Lists
  PROVE  IsList(list)
<1>1. DOMAIN list = 1..Len(list)
  <2> DEFINE E == [cmd : STRING \X STRING, n : Nat, num : Nat]
  <2>1. list \in Seq(E)
    BY ListsAssumption
  <2> HIDE DEF E
  <2> QED BY <2>1
<1> QED BY <1>1, ListType DEF IsList, ProperLists

\* The values of a cell are events that have been read.
LEMMA CellTyped ==
  ASSUME NEW list, NEW s \in Nat \ {0}, NEW i \in Nat, NEW k \in Nat, NEW all \in Nat, s <= all,
         LastRead(i, k) <= all, NEW cell, Tells(list, s, i, k, cell)
  PROVE  \A f \in DOMAIN NoCell \ {"rate"} : cell[f] \in {-1} \cup 0..all
<1> SUFFICES ASSUME NEW f \in DOMAIN NoCell \ {"rate"} PROVE cell[f] \in {-1} \cup 0..all
  OBVIOUS
<1>1. f \in LastFields \cup {"ap", "mode"}
  BY DEF NoCell, LastFields
<1>2. LastRead(i, k) \in Nat
  BY DEF LastRead
<1>3. CASE f = "ap"
  BY <1>3 DEF Tells
<1>4. CASE f = "mode"
  <2>1. IsLast(ValidModes(list, s, LastRead(i, k)), cell[f])
    BY <1>4 DEF Tells
  <2>2. ValidModes(list, s, LastRead(i, k)) \subseteq 0..all
    BY <1>2 DEF ValidModes
  <2> QED BY <2>1, <2>2 DEF IsLast
<1>5. CASE f \in LastFields
  <2>1. PICK j \in Nat : /\ IsLast(WithField(list, s, LastRead(i, k), f), j)
                         /\ cell[f] = IF j = 0 THEN 0 ELSE SourceOf(list, j)
    BY <1>5 DEF Tells
  <2>2. WithField(list, s, LastRead(i, k), f) \subseteq 0..all
    BY <1>2 DEF WithField
  <2>3. j \in 0..all
    BY <2>1, <2>2 DEF IsLast
  <2> QED BY <2>1, <2>3 DEF SourceOf
<1> QED BY <1>1, <1>3, <1>4, <1>5

\* And so are those of all the cells.
LEMMA CellsTyped ==
  ASSUME NEW off, NEW i \in 0..Len(fetched), NEW k \in Nat, NEW st, DecodedTo(off, i, k, st)
  PROVE  Typed
<1> DEFINE n   == Len(result)
           all == Len(fetched)
<1>1. all \in Nat
  BY DEF DecodedTo, Written
<1>2. result \in Seq([Fields -> Int]) /\ n \in Nat /\ DOMAIN result = 1..n
  <2>1. result \in Seq([Fields -> Int])
    BY DEF DecodedTo, CellsTell
  <2> QED BY <2>1, LenProperties
<1>0. n # 0 => result # << >>
  BY <1>2
<1>3. LastRead(i, k) <= all
  <2>1. k = 0 \/ i < Len(fetched)
    <3>1. ASSUME k # 0 PROVE i < Len(fetched)
      <4>1. /\ value = off[i] + 4 + PadLen(layout) + k * FixedLen(fetched[i + 1].cmd)
            /\ value # 0 => i < Len(fetched)
        BY <3>1 DEF DecodedTo, HasRead, Stands
      <4>2. off[i] \in Nat /\ PadLen(layout) \in {0, 4}
        BY DEF DecodedTo, Written, Laid, PadLen
      <4>3. FixedLen(fetched[i + 1].cmd) \in Nat
        BY FixedLens
      <4>4. PICK q \in Nat : q = k * FixedLen(fetched[i + 1].cmd)
        BY <4>3
      <4>5. value # 0
        BY <4>1, <4>2, <4>4
      <4> QED BY <4>1, <4>5
    <3> QED BY <3>1
  <2> QED BY <1>1, <2>1 DEF LastRead
<1>4. ASSUME NEW a \in 1..n PROVE \A f \in DOMAIN NoCell \ {"rate"} : result[a][f] \in {-1} \cup 0..all
  <2>0. all \in Nat
    BY <1>1
  <2> HIDE DEF n, all
  <2>1. /\ st \in [1..n -> 1..i]
        /\ \A b \in 1..(n - 1) : Tells(fetched, st[b], st[b + 1] - 1, 0, result[b])
        /\ result # << >> => Tells(fetched, st[n], i, k, result[n])
    BY DEF DecodedTo, CellsTell, n
  <2>2. st[a] \in 1..i /\ i \in Nat /\ i <= all
    BY <1>1, <2>1 DEF all
  <2>3. CASE a = n
    <3>1. Tells(fetched, st[n], i, k, result[n])
      BY <1>0, <1>2, <2>1, <2>3
    <3>2. st[a] \in Nat \ {0} /\ st[a] <= all /\ i \in Nat /\ all \in Nat /\ LastRead(i, k) <= all
      BY <1>3, <2>0, <2>2 DEF all
    <3>3. Tells(fetched, st[a], i, k, result[a])
      BY <2>3, <3>1
    <3> QED BY <3>2, <3>3, CellTyped
  <2>4. CASE a # n
    <3>1. a \in 1..(n - 1) /\ a + 1 \in 1..n
      BY <1>2, <2>4
    <3>2. st[a + 1] \in 1..i
      BY <2>1, <3>1
    <3>3. st[a + 1] - 1 \in Nat /\ LastRead(st[a + 1] - 1, 0) <= all
      BY <1>1, <2>2, <3>2 DEF LastRead
    <3>4. Tells(fetched, st[a], st[a + 1] - 1, 0, result[a])
      BY <2>1, <3>1
    <3>5. st[a] \in Nat \ {0} /\ st[a] <= all /\ all \in Nat /\ 0 \in Nat
      BY <2>0, <2>2
    <3> QED BY <3>3, <3>4, <3>5, CellTyped
  <2> QED BY <2>3, <2>4
<1> QED BY <1>2, <1>4 DEF Typed, FieldTypes

\* A list has been read, and nothing of it is decoded.
JustRead ==
  /\ fetched \in Lists /\ layout \in Layouts /\ weVersion \in Nat
  /\ data = Encode(fetched, layout) /\ current = 0 /\ value = 0 /\ result = << >>
  /\ ret = IF data = << >> THEN 0 ELSE 1

\* Then the cells are those of no events.
LEMMA DecodedFirst ==
  JustRead => \E off, st : \E i \in 0..Len(fetched) : \E k \in Nat : DecodedTo(off, i, k, st)
<1> HIDE DEF Bytes
<1> SUFFICES ASSUME JustRead
             PROVE  \E off, st : \E i \in 0..Len(fetched) : \E k \in Nat : DecodedTo(off, i, k, st)
  OBVIOUS
<1>1. /\ fetched \in Lists /\ layout \in Layouts /\ weVersion \in Nat
      /\ data = Encode(fetched, layout) /\ current = 0 /\ value = 0 /\ result = << >>
      /\ ret = IF data = << >> THEN 0 ELSE 1
  BY DEF JustRead
<1>2. /\ Len(fetched) \in Nat /\ \A i \in 1..Len(fetched) : IsEvent(fetched[i])
      /\ fetched = << >> <=> Len(fetched) = 0
  BY <1>1, ListType
<1>3. data \in Seq(Bytes) /\ \E off : Laid(fetched, layout, off)
  BY <1>1, <1>2, EncodeLaid
<1>4. PICK off : Laid(fetched, layout, off)
  BY <1>3
<1>5. Written(fetched, layout, off)
  BY <1>1, <1>2, <1>3, <1>4 DEF Written
<1>6. HasRead(fetched, layout, off, 0, 0, current, value)
  BY <1>1, <1>4 DEF HasRead, Stands, Laid
<1>7. PICK st : CellsTell(fetched, result, 0, 0, st)
  BY <1>1, NoCells
<1>8. ret \in {0, 1, 2} /\ (ret = 0 => 0 = Len(fetched))
  BY <1>1, <1>2, ListBytes
<1>9. DecodedTo(off, 0, 0, st)
  BY <1>5, <1>6, <1>7, <1>8 DEF DecodedTo
<1>10. 0 \in 0..Len(fetched) /\ 0 \in Nat
  BY <1>2
<1> QED BY <1>9, <1>10

\* The same of the next state.
LEMMA DecodedFirstNext ==
  JustRead' => (\E off, st : \E i \in 0..Len(fetched) : \E k \in Nat : DecodedTo(off, i, k, st))'
BY DecodedFirst, PTL

\* What one list makes known of another.
LEMMA SameLaid ==
  ASSUME UNCHANGED <<data, weVersion>>, NEW list, NEW l \in Layouts, NEW off, Laid(list, l, off)
  PROVE  l \in Layouts' /\ Laid(list, l, off)'
<1>1. \A cmd : FixedLen(cmd)' = FixedLen(cmd)
  BY DEF FixedLen, PointOff
<1>2. \A i, e : Body(i, e, l)' = Body(i, e, l)
  BY <1>1 DEF Body, PointOff
<1>3. \A i, e : EventBytes(i, e, l)' = EventBytes(i, e, l)
  BY <1>2 DEF EventBytes
<1>4. Laid(list, l, off)'
  BY <1>3 DEF Laid
<1>5. l \in Layouts'
  BY DEF Layouts
<1> QED BY <1>4, <1>5

\* As long as the stream stays, so does what was read of it.
LEMMA StillDecoded ==
  ASSUME NEW off, NEW i, NEW k, NEW st, DecodedTo(off, i, k, st),
         UNCHANGED <<data, weVersion, layout, fetched>>,
         NEW i2, NEW k2, NEW st2,
         HasRead(fetched, layout, off, i2, k2, current', value'),
         CellsTell(fetched, result', i2, k2, st2),
         ret' \in {0, 1, 2}, ret' = 0 => i2 = Len(fetched) /\ k2 = 0
  PROVE  DecodedTo(off, i2, k2, st2)'
<1> HIDE DEF Bytes
<1>1. Written(fetched, layout, off)
  BY DEF DecodedTo
<1>2. PICK list, l : list = fetched /\ l = layout
  OBVIOUS
<1>3. list = fetched' /\ l = layout'
  BY <1>2
<1>4. Written(list, l, off)'
  <2>1. Written(list, l, off)
    BY <1>1, <1>2
  <2>2. l \in Layouts' /\ Laid(list, l, off)'
    BY <2>1, SameLaid DEF Written
  <2> QED BY <2>1, <2>2 DEF Written, IsEvent
<1>5. HasRead(list, l, off, i2, k2, current, value)'
  <2>1. HasRead(list, l, off, i2, k2, current', value')
    BY <1>2
  <2> QED BY <2>1 DEF HasRead, Stands, FixedLen, PointOff
<1>6. CellsTell(list, result, i2, k2, st2)'
  BY <1>2 DEF CellsTell
<1> QED BY <1>2, <1>3, <1>4, <1>5, <1>6 DEF DecodedTo

\* A turn of the loop: what the decoder hands out is in the cells.
LEMMA DecodedParse ==
  ASSUME Word = 4, NEW list, IsList(list), NEW l, NEW off, NEW i \in 0..Len(list), NEW k \in Nat,
         NEW st, fetched = list, layout = l, DecodedTo(off, i, k, st), Parse, pc' = "parse"
  PROVE  \E i2 \in 0..Len(list) : \E k2 \in Nat : \E st2 : DecodedTo(off, i2, k2, st2)'
<1> HIDE DEF Bytes
<1> DEFINE e == list[i + 1]
<1>1. /\ Written(list, l, off) /\ HasRead(list, l, off, i, k, current, value)
      /\ CellsTell(list, result, i, k, st)
  BY DEF DecodedTo
<1>2. /\ Len(list) \in Nat /\ \A j \in 1..Len(list) : IsEvent(list[j])
      /\ \A j \in 1..Len(list) : ProperEvent(list[j]) /\ (NewCell(list[j]) => list[j].n = 1)
      /\ i \in Nat
  BY DEF IsList, ProperList
<1>3. /\ Extract /\ UNCHANGED <<data, weVersion, layout, fetched>>
      /\ IF ret' > 0 THEN Token(iwe') ELSE result' = result
  BY DEF Parse, historyVars, Extract, EndOfStream, InvalidEvent, UnknownEvent,
         TruncatedEvent, PointEvent, ValueEvent, Return
<1>4. \/ AtEnd(list, i, k)
      \/ PassesEvent(list, l, off, i, k)
      \/ ReadsPayload(list, l, off, i, k)
      \/ ReadsValue(list, l, off, i, k)
  BY <1>1, <1>2, <1>3, Arrives
<1>a. ASSUME NEW i2 \in 0..Len(list), NEW k2 \in Nat, NEW st2,
             HasRead(list, l, off, i2, k2, current', value'),
             CellsTell(list, result', i2, k2, st2),
             ret' \in {0, 1, 2}, ret' = 0 => i2 = Len(list) /\ k2 = 0
      PROVE  DecodedTo(off, i2, k2, st2)'
  BY <1>3, <1>a, StillDecoded
<1>5. CASE AtEnd(list, i, k)
  <2>1. ret' = 0 /\ i = Len(list) /\ k = 0 /\ current' = current /\ value' = value /\ result' = result
    BY <1>3, <1>5 DEF AtEnd
  <2>2. DecodedTo(off, i, k, st)'
    BY <1>1, <1>a, <2>1
  <2> QED BY <2>2
<1>6. ASSUME ret' \in {1, 2}, i < Len(list), iwe'.cmd = e.cmd,
             NEW i2, NEW k2, LastValue(list, i, k, i2, k2),
             HasRead(list, l, off, i2, k2, current', value'),
             HeaderType(e.cmd) # "NULL" => Source(iwe') = SourceOf(list, i + 1),
             e.cmd = <<"GIW", "RATE">> => SpeedAt(iwe'.at) = Speed(e, k + 1)
      PROVE  \E m \in 0..Len(list) : \E q \in Nat : \E st2 : DecodedTo(off, m, q, st2)'
  <2>1. i2 \in 0..Len(list) /\ k2 \in Nat
    BY <1>2, <1>6 DEF LastValue
  <2>2. Token(iwe')
    BY <1>3, <1>6
  <2>3. i + 1 \in 1..Len(list) /\ IsEvent(e)
    BY <1>2, <1>6
  <2>4. PICK st2 : CellsTell(list, result', i2, k2, st2)
    <3>1. CASE NewCell(iwe')
      <4>1. result' = Append(result, [NoCell EXCEPT !.ap = Source(iwe')])
        BY <2>2, <3>1 DEF Token, Finish
      <4>2. NewCell(e) /\ e.cmd = <<"GIW", "AP">>
        BY <1>6, <3>1 DEF NewCell
      <4>3. HeaderType(e.cmd) = "ADDR"
        BY <4>2, CmdTypes
      <4>4. Source(iwe') = i + 1
        BY <1>6, <4>3 DEF SourceOf
      <4>5. k = 0
        BY <1>1, <4>2 DEF CellsTell
      <4>6. i2 = i + 1 /\ k2 = 0
        <5>1. e.n = 1
          BY <1>2, <2>3, <4>2
        <5> QED BY <1>6, <4>5, <5>1 DEF LastValue
      <4>7. \E st2 : CellsTell(list, Append(result, [NoCell EXCEPT !.ap = i + 1]), i + 1, 0, st2)
        BY <1>1, <1>2, <4>2, <4>5, CellAdded
      <4> QED BY <4>1, <4>4, <4>6, <4>7
    <3>2. CASE ~NewCell(iwe')
      <4>1. /\ result # << >>
            /\ result' = [result EXCEPT ![Len(result)] = Stored(@, iwe')]
        BY <2>2, <3>2 DEF Token, Finish
      <4>2. ~NewCell(e)
        BY <1>6, <3>2 DEF NewCell
      <4>3. PICK event : event = iwe'
        OBVIOUS
      <4>4. CellsTell(list, [result EXCEPT ![Len(result)] = Stored(@, event)], i2, k2, st)
        BY <1>1, <1>2, <1>6, <4>1, <4>2, <4>3, CellGrows
      <4> QED BY <4>1, <4>3, <4>4
    <3> QED BY <3>1, <3>2
  <2>5. DecodedTo(off, i2, k2, st2)'
    BY <1>6, <1>a, <2>1, <2>4
  <2> QED BY <2>1, <2>5
<1>7. CASE PassesEvent(list, l, off, i, k)
  <2>1. /\ i < Len(list) /\ HeaderType(e.cmd) = "NULL" /\ k = 0
        /\ ret' = 2 /\ iwe'.cmd = e.cmd
        /\ HasRead(list, l, off, i + 1, 0, current', value')
    BY <1>7 DEF PassesEvent
  <2>2. LastValue(list, i, k, i + 1, 0)
    BY <2>1 DEF LastValue
  <2>3. e.cmd # <<"GIW", "RATE">>
    BY <2>1, CmdTypes
  <2> QED BY <1>6, <2>1, <2>2, <2>3
<1>8. CASE ReadsPayload(list, l, off, i, k)
  <2>1. /\ i < Len(list) /\ HeaderType(e.cmd) = "POINT" /\ k = 0
        /\ ret' = 1 /\ iwe'.cmd = e.cmd /\ iwe'.length = e.n
        /\ PayloadKept(e) => iwe'.at # 0 /\ ByteAt(iwe'.at) = <<"payload", i + 1, e.n>>
        /\ ~PayloadKept(e) => iwe'.at = 0 \/ e.n = 0
        /\ HasRead(list, l, off, i + 1, 0, current', value')
    BY <1>8 DEF ReadsPayload
  <2>2. LastValue(list, i, k, i + 1, 0)
    BY <2>1 DEF LastValue
  <2>3. e.cmd # <<"GIW", "RATE">>
    BY <2>1, CmdTypes
  <2>4. Source(iwe') = SourceOf(list, i + 1)
    <3>1. CASE PayloadKept(e)
      <4>1. e.n # 0 /\ ByteAt(iwe'.at)[2] = i + 1
        BY <1>2, <2>1, <3>1 DEF PayloadKept
      <4> QED BY <2>1, <3>1, <4>1 DEF Source, SourceOf
    <3>2. CASE ~PayloadKept(e)
      BY <2>1, <3>2 DEF Source, SourceOf
    <3> QED BY <3>1, <3>2
  <2> QED BY <1>6, <2>1, <2>2, <2>3, <2>4
<1>9. CASE ReadsValue(list, l, off, i, k)
  <2>1. /\ i < Len(list) /\ HeaderType(e.cmd) \notin {"POINT", "NULL"} /\ k < e.n
        /\ ret' = 1 /\ iwe'.cmd = e.cmd
        /\ ByteAt(iwe'.at) = <<"value", i + 1, k + 1>>
        /\ IF k + 1 < e.n THEN HasRead(list, l, off, i, k + 1, current', value')
                          ELSE HasRead(list, l, off, i + 1, 0, current', value')
    BY <1>9 DEF ReadsValue
  <2>2. Source(iwe') = SourceOf(list, i + 1)
    BY <2>1 DEF Source, SourceOf
  <2>3. SpeedAt(iwe'.at) = Speed(e, k + 1)
    BY <2>1 DEF SpeedAt
  <2>4. CASE k + 1 < e.n
    <3>1. LastValue(list, i, k, i, k + 1)
      BY <2>4 DEF LastValue
    <3> QED BY <1>6, <2>1, <2>2, <2>3, <2>4, <3>1
  <2>5. CASE ~(k + 1 < e.n)
    <3>1. LastValue(list, i, k, i + 1, 0)
      <4>1. e.n \in Nat
        BY <1>2, <2>1 DEF IsEvent
      <4>2. e.n = k + 1
        BY <2>1, <2>5, <4>1
      <4> QED BY <4>2 DEF LastValue
    <3> QED BY <1>6, <2>1, <2>2, <2>3, <2>5, <3>1
  <2> QED BY <2>4, <2>5
<1> QED BY <1>4, <1>5, <1>7, <1>8, <1>9

\* What is in the cells changes with the stream and the cells only.
LEMMA SameDecoded ==
  ASSUME UNCHANGED <<data, weVersion, layout, fetched, current, value, result, ret, pc>>, Decoded
  PROVE  Decoded'
<1>1. CASE pc = "parse"
  <2>1. PICK off, st : \E i \in 0..Len(fetched) : \E k \in Nat : DecodedTo(off, i, k, st)
    BY <1>1 DEF Decoded
  <2>2. PICK i \in 0..Len(fetched), k \in Nat : DecodedTo(off, i, k, st)
    BY <2>1
  <2>3. HasRead(fetched, layout, off, i, k, current', value') /\ CellsTell(fetched, result', i, k, st)
        /\ ret' \in {0, 1, 2} /\ (ret' = 0 => i = Len(fetched) /\ k = 0)
    BY <2>2 DEF DecodedTo
  <2>4. DecodedTo(off, i, k, st)'
    BY <2>2, <2>3, StillDecoded
  <2>5. i \in 0..Len(fetched)' /\ k \in Nat
    OBVIOUS
  <2> QED BY <1>1, <2>4, <2>5 DEF Decoded
<1>2. CASE pc # "parse"
  BY <1>2 DEF Decoded, Typed, FieldTypes
<1> QED BY <1>1, <1>2

\* When the loop over the stream ends, the cells hold values of the list.
LEMMA DoneTyped ==
  ASSUME pc = "parse", Decoded, UNCHANGED <<result, fetched>>
  PROVE  Typed'
<1>1. Typed
  BY CellsTyped DEF Decoded
<1> QED BY <1>1 DEF Typed, FieldTypes

\* Decoded is kept.
LEMMA DecodedNext ==
  ASSUME Word = 4, ProperLists, Course, Ranges, Holding, Decoded, [Next]_vars
  PROVE  Decoded'
<1> USE Errors
<1>0. weVersion' = weVersion /\ layout' = layout
  BY SameBuild
<1>a. ASSUME pc \notin {"parse", "done", "crashed"}, pc' # "parse", UNCHANGED <<result, fetched>>
      PROVE  Decoded'
  <2>1. result = << >>
    BY <1>a DEF Holding
  <2>2. DOMAIN << >> = {}
    OBVIOUS
  <2> QED BY <1>a, <2>1, <2>2 DEF Decoded, Typed
<1>b. ASSUME pc = "parse", pc' \in {"done", "crashed"}, UNCHANGED <<result, fetched>>
      PROVE  Decoded'
  BY <1>b, DoneTyped DEF Decoded
<1>1. CASE Expire
  BY <1>1, <1>a DEF Expire, Finish, historyVars
<1>2. CASE Initiate
  BY <1>2, <1>a DEF Initiate, Finish
<1>3. CASE Sleep
  BY <1>3, <1>a DEF Sleep, callerVars, historyVars
<1>4. CASE Proceed
  BY <1>4, <1>a DEF Proceed, historyVars
<1>5. CASE Realloc
  BY <1>5, <1>a DEF Realloc, Finish, historyVars
<1>6. CASE FetchLater
  BY <1>6, <1>a DEF FetchLater, callerVars
<1>7. CASE FetchError
  BY <1>7, <1>a DEF FetchError, Finish, historyVars
<1>8. CASE FetchTooBig
  BY <1>8, <1>a DEF FetchTooBig, Finish, historyVars
<1>9. CASE Fetch
  <2>1. /\ pc = "fetch" /\ pc' = "parse" /\ fetched' = events /\ data' = Results
        /\ ret' = (IF Results = << >> THEN 0 ELSE 1)
        /\ UNCHANGED <<current, value, result>>
    BY <1>9 DEF Fetch, callerVars
  <2>2. current = 0 /\ value = 0 /\ result = << >>
    BY <2>1 DEF Holding
  <2>3. data' = Encode(fetched, layout)'
    BY <1>0, <2>1, SameEncode DEF Results
  <2>4. layout' \in Layouts' /\ weVersion' \in Nat
    BY <1>0, SameBuild DEF Ranges
  <2>5. events \in Lists
    BY DEF Ranges
  <2>6. JustRead'
    BY <2>1, <2>2, <2>3, <2>4, <2>5 DEF JustRead
  <2> QED BY <2>1, <2>6, DecodedFirstNext DEF Decoded
<1>10. CASE Parse
  <2>1. /\ pc = "parse" /\ fetched \in Lists /\ UNCHANGED fetched
        /\ \/ pc' = "parse"
           \/ pc' = "done" /\ result' = result
           \/ pc' = "crashed" /\ result' = << >>
    BY <1>10, ParseTells DEF Holding
  <2>2. CASE pc' = "parse"
    <3>1. PICK off, st : \E i \in 0..Len(fetched) : \E k \in Nat : DecodedTo(off, i, k, st)
      BY <2>1 DEF Decoded
    <3>2. PICK i \in 0..Len(fetched), k \in Nat : DecodedTo(off, i, k, st)
      BY <3>1
    <3>3. PICK list, l : fetched = list /\ layout = l
      OBVIOUS
    <3>4. IsList(list)
      BY <2>1, <3>3, ReadList
    <3>5. i \in 0..Len(list)
      BY <3>3
    <3>6. \E i2 \in 0..Len(list) : \E k2 \in Nat : \E st2 : DecodedTo(off, i2, k2, st2)'
      BY <1>10, <2>2, <3>2, <3>3, <3>4, <3>5, DecodedParse
    <3>7. Len(list) = Len(fetched)'
      BY <2>1, <3>3
    <3> QED BY <2>2, <3>6, <3>7 DEF Decoded
  <2>3. CASE pc' = "done"
    BY <1>b, <2>1, <2>3
  <2>4. CASE pc' = "crashed"
    <3>1. result' = << >> /\ DOMAIN << >> = {}
      BY <2>1, <2>4
    <3> QED BY <2>4, <3>1 DEF Decoded, Typed
  <2> QED BY <2>1, <2>2, <2>3, <2>4
<1>11. CASE ParseEnds
  BY <1>11, <1>b DEF ParseEnds, Finish, historyVars
<1>12. CASE DriverChanges
  <2>1. UNCHANGED <<data, weVersion, layout, fetched, current, value, result, ret, pc>>
    BY <1>0, <1>12 DEF DriverChanges, streamVars, callerVars, historyVars
  <2> QED BY <2>1, SameDecoded
<1>13. CASE UNCHANGED vars
  <2>1. UNCHANGED <<data, weVersion, layout, fetched, current, value, result, ret, pc>>
    BY <1>0, <1>13 DEF vars, streamVars, callerVars, historyVars
  <2> QED BY <2>1, SameDecoded
<1> QED BY <1>1, <1>2, <1>3, <1>4, <1>5, <1>6, <1>7, <1>8, <1>9, <1>10, <1>11, <1>12, <1>13
        DEF Next, Caller

\* The cells that are handed over are those of the list.
LEMMA CellsHanded ==
  ASSUME ProperLists, Decoded, HandOver
  PROVE  Promise!Deliver
<1>1. pc = "parse" /\ ret <= 0 /\ fetched \in Lists
      /\ pc' = "done" /\ UNCHANGED <<events, fetched, asked, result>>
  BY DEF HandOver
<1>2. errno' = ""
  BY Zenon DEF HandOver, NoError
<1>3. fetched # NotFetched /\ NotFetched' = NotFetched
  BY <1>1, ListType DEF NotFetched, NoEvent
<1>4. result = Cells(fetched)
  <2>1. PICK off, st : \E i \in 0..Len(fetched) : \E k \in Nat : DecodedTo(off, i, k, st)
    BY <1>1 DEF Decoded
  <2>2. PICK i \in 0..Len(fetched), k \in Nat : DecodedTo(off, i, k, st)
    BY <2>1
  <2>3. CellsTell(fetched, result, Len(fetched), 0, st)
    BY <1>1, <2>2 DEF DecodedTo
  <2>4. IsList(fetched)
    BY <1>1, ReadList
  <2> QED BY <2>3, <2>4, CellsTold
<1>5. <<fetched>>[1] = fetched
  OBVIOUS
<1> HIDE DEF NotFetched
<1> QED BY <1>1, <1>2, <1>3, <1>4, <1>5, Zenon DEF Promise!Deliver

\* The invariant of a scan.
Scanning == Course /\ Ranges /\ Holding /\ Caused /\ Decoded

\* A scan that has not begun.
LEMMA ScanningInit == Init => Scanning
<1> SUFFICES ASSUME Init PROVE Scanning
  OBVIOUS
<1>1. pc = "process"
  BY DEF Init
<1> QED BY <1>1, CourseInit, HoldingInit DEF Scanning, Decoded

\* With drivers that write proper lists and a program whose pointers take 4 bytes, a
\* scan ends with all and only what one list says of its cells, in its order, or with
\* an error, or it crashes and hands over nothing: it implements Scan (iwlib.c:3033-3215).
THEOREM ImplementsScanCorrect ==
  ASSUME Word = 4, ProperLists
  PROVE  Spec => ImplementsScan
<1>1. Init => Scanning /\ Promise!Init
  BY ScanningInit, PromiseInit
<1>2. Scanning /\ [Next]_vars => Scanning' /\ [Promise!Next]_(Promise!vars)
  <2> SUFFICES ASSUME Scanning, [Next]_vars
               PROVE  Scanning' /\ [Promise!Next]_(Promise!vars)
    OBVIOUS
  <2>1. Scanning'
    BY CourseNext, HoldingNext, DecodedNext DEF Scanning
  <2>2. PromisedStep
    BY PromiseNext DEF Scanning
  <2>3. HandOver => Promise!Deliver
    BY CellsHanded DEF Scanning
  <2> QED BY <2>1, <2>2, <2>3 DEF PromisedStep, Promise!Next
<1> QED BY <1>1, <1>2, PTL DEF Spec, ImplementsScan, Promise!Spec

\* Under the same conditions every variable has a value of its type, and every field of
\* a cell an event of the list that was read (iwlib.c:2917-3030).
THEOREM ScanTypeCorrect ==
  ASSUME Word = 4, ProperLists
  PROVE  Spec => []TypeOK
<1>1. Init => Scanning
  BY ScanningInit
<1>2. Scanning /\ [Next]_vars => Scanning'
  BY CourseNext, HoldingNext, DecodedNext DEF Scanning
<1>3. Scanning => TypeOK
  <2> SUFFICES ASSUME Scanning PROVE TypeOK
    OBVIOUS
  <2>1. Typed
    <3>1. CASE pc = "parse"
      BY <3>1, CellsTyped DEF Scanning, Decoded
    <3>2. CASE pc \in {"done", "crashed"}
      BY <3>2 DEF Scanning, Decoded
    <3>3. CASE pc \notin {"parse", "done", "crashed"}
      <4>1. result = << >> /\ DOMAIN << >> = {}
        BY <3>3 DEF Scanning, Holding
      <4> QED BY <4>1 DEF Typed
    <3> QED BY <3>1, <3>2, <3>3
  <2> QED BY <2>1, Zenon DEF Scanning, Course, Ranges, Typed, TypeOK, NoError
<1> QED BY <1>1, <1>2, <1>3, PTL DEF Spec
=============================================================================
