--------------------------------- MODULE IwScan --------------------------------
(***************************************************************************)
(* A wireless scan: iw_scan, iw_process_scan and iw_process_scanning_token  *)
(* of iwlib.c, beside a driver that takes its time, finds other cells while  *)
(* the caller waits and may refuse any call.  One action per call that       *)
(* leaves the library (ioctl, realloc, usleep) and one per event decoded.    *)
(***************************************************************************)
EXTENDS IwStream, FiniteSets

CONSTANTS
  Lists,        \* the lists of events a driver may hold
  MaxRetry,     \* 150 in the code
  MinBuffer,    \* IW_SCAN_MAX_DATA, 4096 in the code
  LengthMod,    \* 2^16: the length of a request is a 16-bit number
  MemoryLimit,  \* the longest buffer that can be allocated
  MaxChanges,   \* bound on the changes of the driver's list
  MaxFaults     \* bound on refused calls and cells that are not allocated

ASSUME ListsAssumption == Lists \subseteq Seq([cmd : STRING \X STRING, n : Nat, num : Nat])

ASSUME ScanAssumption ==
  /\ MaxRetry \in Nat \ {0} /\ MaxChanges \in Nat /\ MaxFaults \in Nat
  /\ MinBuffer \in Nat \ {0} /\ MinBuffer < LengthMod
  /\ MemoryLimit \in Nat /\ LengthMod \in Nat

VARIABLES
  pc,        \* "process", "alloc", "fetch", "parse", "sleep", "done" or "crashed"
  retry,     \* context->retry
  result,    \* context->result, the list of cells; wscan is its last one
  buflen,
  errno,     \* how the scan ended: "" is success
  layout,    \* the driver: how its kernel lays a stream out
  busy,      \* the driver: still scanning
  events,    \* the driver: the list it holds
  changes, faults,
  asked,     \* SIOCSIWSCAN requests so far, for the properties
  waited,    \* milliseconds slept so far, for the properties
  fetched    \* the list the buffer was filled from, for the properties

callerVars == <<retry, result, buflen, errno>>
driverVars == <<layout, busy, events, changes, faults>>
historyVars == <<asked, waited, fetched>>
vars == <<streamVars, pc, callerVars, driverVars, historyVars>>

NotFetched == <<NoEvent>>

\* iw_scan cleans the context up.
Init ==
  /\ weVersion \in WeVersions /\ layout \in Layouts
  /\ InitStream(<<>>)
  /\ pc = "process" /\ retry = 0 /\ result = <<>> /\ buflen = MinBuffer /\ errno = ""
  /\ busy \in BOOLEAN /\ events \in Lists /\ changes = 0 /\ faults = 0
  /\ asked = 0 /\ waited = 0 /\ fetched = NotFetched

-----------------------------------------------------------------------------
(* The driver *)

\* A scan ends, or another process starts one; cells come and go.
DriverChanges ==
  /\ changes < MaxChanges
  /\ changes' = changes + 1
  /\ busy' \in BOOLEAN
  /\ events' \in Lists
  /\ UNCHANGED <<streamVars, pc, callerVars, layout, faults, historyVars>>

Fault == faults < MaxFaults /\ faults' = faults + 1

\* The length a driver without room left may announce, in 16 bits.
Hints(needed, length) == {length, needed % LengthMod}
-----------------------------------------------------------------------------
(* The caller *)

Finish(error) ==
  /\ pc' = "done"
  /\ errno' = error

\* The buffer and the stream are local to one call.
Discard ==
  /\ data' = <<>> /\ current' = 0 /\ value' = 0 /\ iwe' = NoEvent /\ ret' = 1
  /\ UNCHANGED weVersion

MUT_Expired(n) == n > MaxRetry + 1
Expired(n) == n > MaxRetry

Expire ==
  /\ pc = "process" /\ Expired(retry + 1)
  /\ retry' = retry + 1
  /\ Finish("ETIME")
  /\ UNCHANGED <<streamVars, result, buflen, driverVars, historyVars>>

\* Without the right to scan, the results of others will do.
MUT_Granted(answer) == answer = "ok"
Granted(answer) == answer \in {"ok", "EPERM"}

First(n) == n = 1

Initiate ==
  /\ pc = "process" /\ First(retry + 1) /\ ~Expired(retry + 1)
  /\ retry' = retry + 1
  /\ asked' = asked + 1
  /\ \E answer \in {"ok", "EPERM", "error"} :
       /\ busy' = (busy \/ answer = "ok")
       /\ IF Granted(answer)
          THEN /\ pc' = "sleep" /\ waited' = waited + 250
               /\ UNCHANGED <<errno, faults>>
          ELSE /\ Finish(answer) /\ UNCHANGED waited
               /\ IF answer = "error" THEN Fault ELSE UNCHANGED faults
  /\ UNCHANGED <<streamVars, result, buflen, layout, events, changes, fetched>>

Sleep ==
  /\ pc = "sleep"
  /\ pc' = "process"
  /\ UNCHANGED <<streamVars, callerVars, driverVars, historyVars>>

Proceed ==
  /\ pc = "process" /\ ~First(retry + 1) /\ ~Expired(retry + 1)
  /\ retry' = retry + 1
  /\ buflen' = MinBuffer
  /\ pc' = "alloc"
  /\ UNCHANGED <<streamVars, result, errno, driverVars, historyVars>>

Realloc ==
  /\ pc = "alloc"
  /\ IF buflen <= MemoryLimit
     THEN pc' = "fetch" /\ UNCHANGED errno
     ELSE Finish("ENOMEM")
  /\ UNCHANGED <<streamVars, retry, result, buflen, driverVars, historyVars>>

\* wrq.u.data.length = buflen
RequestLength == buflen % LengthMod

MUT_Grown(hint) == hint
Grown(hint) == IF hint > buflen THEN hint ELSE 2 * buflen

FetchLater ==
  /\ pc = "fetch" /\ busy
  /\ pc' = "sleep"
  /\ waited' = waited + 100
  /\ UNCHANGED <<streamVars, callerVars, driverVars, asked, fetched>>

FetchError ==
  /\ pc = "fetch"
  /\ Fault
  /\ Finish("error")
  /\ UNCHANGED <<streamVars, retry, result, buflen, layout, busy, events, changes, historyVars>>

Results == Encode(events, layout)

FetchTooBig ==
  /\ pc = "fetch" /\ ~busy
  /\ Len(Results) > RequestLength
  /\ IF weVersion > 16
     THEN \E hint \in Hints(Len(Results), RequestLength) :
            buflen' = Grown(hint) /\ pc' = "alloc" /\ UNCHANGED errno
     ELSE Finish("E2BIG") /\ UNCHANGED buflen
  /\ UNCHANGED <<streamVars, retry, result, driverVars, historyVars>>

\* Without a byte of results there is nothing to decode.
Fetch ==
  /\ pc = "fetch" /\ ~busy
  /\ Len(Results) <= RequestLength
  /\ data' = Results
  /\ ret' = IF Results = <<>> THEN 0 ELSE 1
  /\ pc' = "parse"
  /\ fetched' = events
  /\ UNCHANGED <<current, value, iwe, weVersion, callerVars, driverVars, asked, waited>>

-----------------------------------------------------------------------------
(* iw_process_scanning_token *)

\* A cell: 0 is a has_ field that is not set, -1 a name without characters or a
\* key without bytes, any other number the event the value was copied from.
NoCell == [ap |-> 0, nwid |-> 0, freq |-> 0, mode |-> 0, essid |-> 0, key |-> 0,
           qual |-> 0, rate |-> 0]
MaxMode == 7

FieldOf(cmd) ==
  CASE cmd = <<"GIW", "NWID">>   -> "nwid"
    [] cmd = <<"GIW", "FREQ">>   -> "freq"
    [] cmd = <<"GIW", "ESSID">>  -> "essid"
    [] cmd = <<"GIW", "ENCODE">> -> "key"
    [] cmd = <<"IWEV", "QUAL">>  -> "qual"
    [] OTHER -> ""

MUT_Source(event) == ByteAt(event.at)[2]
\* What the event points to: the driver's event it comes from.
Source(event) ==
  IF /\ HeaderType(event.cmd) = "POINT"
     /\ event.at = 0 \/ event.length = 0
  THEN -1 ELSE ByteAt(event.at)[2]

\* The bitrate of the k-th value of an event: none of the orders is the rule.
Speed(e, k) == ((e.num * k) % 5) + 1
SpeedAt(p)  == Speed(fetched[ByteAt(p)[2]], ByteAt(p)[3])

MUT_Stored(cell, event) ==
  CASE FieldOf(event.cmd) # "" -> [cell EXCEPT ![FieldOf(event.cmd)] = Source(event)]
    [] event.cmd = <<"GIW", "MODE">> -> [cell EXCEPT !.mode = Source(event)]
    [] event.cmd = <<"GIW", "RATE">> -> [cell EXCEPT !.rate = SpeedAt(event.at)]
    [] OTHER -> cell

Stored(cell, event) ==
  CASE FieldOf(event.cmd) # "" -> [cell EXCEPT ![FieldOf(event.cmd)] = Source(event)]
    [] /\ event.cmd = <<"GIW", "MODE">>
       /\ cell.mode # 0 \/ fetched[Source(event)].num < MaxMode ->
         [cell EXCEPT !.mode = Source(event)]
    [] event.cmd = <<"GIW", "RATE">> /\ SpeedAt(event.at) > cell.rate ->
         [cell EXCEPT !.rate = SpeedAt(event.at)]
    [] OTHER -> cell

NewCell(event) == event.cmd = <<"GIW", "AP">>

\* What is stored in a cell; the other events are passed over.
InCell(event) ==
  FieldOf(event.cmd) # "" \/ event.cmd \in {<<"GIW", "MODE">>, <<"GIW", "RATE">>}

\* The first thing of the list must be a cell; what follows goes to the last.  Before
\* the first cell wscan is NULL: what would be stored in it ends the program, and
\* anything else is taken for a cell that could not be allocated.
Token(event) ==
  \/ /\ NewCell(event)
     /\ result' = Append(result, [NoCell EXCEPT !.ap = Source(event)])
     /\ pc' = "parse"
     /\ UNCHANGED <<errno, faults>>
  \/ /\ NewCell(event)
     /\ Fault
     /\ Finish("ENOMEM")
     /\ UNCHANGED result
  \/ /\ ~NewCell(event) /\ result # <<>>
     /\ result' = [result EXCEPT ![Len(result)] = Stored(@, event)]
     /\ pc' = "parse"
     /\ UNCHANGED <<errno, faults>>
  \/ /\ ~NewCell(event) /\ result = <<>> /\ ~InCell(event)
     /\ Finish("ENOMEM")
     /\ UNCHANGED <<result, faults>>
  \/ /\ ~NewCell(event) /\ result = <<>> /\ InCell(event)
     /\ pc' = "crashed"
     /\ UNCHANGED <<errno, result, faults>>

Parse ==
  /\ pc = "parse" /\ ret > 0
  /\ Extract
  /\ IF ret' > 0
     THEN Token(iwe')
     ELSE pc' = "parse" /\ UNCHANGED <<result, errno, faults>>
  /\ UNCHANGED <<retry, buflen, layout, busy, events, changes, historyVars>>

\* The end of the stream and an event that cannot be decoded end the loop alike.
ParseEnds ==
  /\ pc = "parse" /\ ret <= 0
  /\ Finish("")
  /\ Discard
  /\ UNCHANGED <<retry, result, buflen, driverVars, historyVars>>

Caller == \/ Expire \/ Initiate \/ Sleep \/ Proceed \/ Realloc
          \/ FetchLater \/ FetchError \/ FetchTooBig \/ Fetch \/ Parse \/ ParseEnds

Next == Caller \/ DriverChanges

\* The caller runs whenever it is not asleep, and sleeps end; nothing is asked of
\* the driver.
Spec == Init /\ [][Next]_vars /\ WF_vars(Caller)
-----------------------------------------------------------------------------
(* What a list says, told without a stream *)

CellStarts(list) == {i \in DOMAIN list : NewCell(list[i])}
CellEnd(list, s) ==
  CHOOSE e \in s..Len(list) :
    /\ \A i \in (s + 1)..e : ~NewCell(list[i])
    /\ e = Len(list) \/ NewCell(list[e + 1])

\* The last event of the cell with the command, of those that pass the test.
Latest(list, s, cmd, Test(_)) ==
  LET found == {i \in s..CellEnd(list, s) : list[i].cmd = cmd /\ Test(list[i])}
  IN IF found = {} THEN 0 ELSE CHOOSE i \in found : \A j \in found : j <= i

Always(e) == TRUE
ValidMode(e) == e.num < MaxMode

\* A driver announces a cell once, and no invalid mode after a valid one of its cell: the
\* cell would take it over (iwlib.c:2979-2983).
ProperList(list) ==
  \A i \in DOMAIN list :
    /\ ProperEvent(list[i])
    /\ NewCell(list[i]) => list[i].n = 1
    /\ list[i].cmd = <<"GIW", "MODE">> /\ ~ValidMode(list[i]) =>
         \A j \in 1..(i - 1) :
           list[j].cmd = <<"GIW", "MODE">> /\ ValidMode(list[j]) =>
             \E k \in j..i : NewCell(list[k])

LatestPayload(list, s, cmd) ==
  LET i == Latest(list, s, cmd, Always)
  IN IF i # 0 /\ ~PayloadKept(list[i]) THEN -1 ELSE i

Speeds(list, s) ==
  UNION {{Speed(list[i], k) : k \in 1..list[i].n} :
           i \in {j \in s..CellEnd(list, s) : list[j].cmd = <<"GIW", "RATE">>}}
Fastest(list, s) ==
  LET speeds == Speeds(list, s) \cup {0} IN CHOOSE v \in speeds : \A w \in speeds : w <= v

CellAt(list, s) ==
  [ap    |-> s,
   nwid  |-> Latest(list, s, <<"GIW", "NWID">>, Always),
   freq  |-> Latest(list, s, <<"GIW", "FREQ">>, Always),
   mode  |-> Latest(list, s, <<"GIW", "MODE">>, ValidMode),
   essid |-> LatestPayload(list, s, <<"GIW", "ESSID">>),
   key   |-> LatestPayload(list, s, <<"GIW", "ENCODE">>),
   qual  |-> Latest(list, s, <<"IWEV", "QUAL">>, Always),
   rate  |-> Fastest(list, s)]

Cells(list) ==
  LET starts == CellStarts(list)
      Nth(n) == CHOOSE s \in starts : Cardinality({r \in starts : r <= s}) = n
  IN [n \in 1..Cardinality(starts) |-> CellAt(list, Nth(n))]

-----------------------------------------------------------------------------
(* Properties *)

FieldTypes == {-1} \cup 0..Len(fetched)

TypeOK ==
  /\ pc \in {"process", "alloc", "fetch", "parse", "sleep", "done", "crashed"}
  /\ retry \in 0..(MaxRetry + 1) /\ asked \in 0..1 /\ waited \in Nat
  /\ buflen \in Nat /\ buflen >= MinBuffer
  /\ errno \in {"", "ETIME", "ENOMEM", "E2BIG", "error"}
  /\ \A n \in DOMAIN result : \A f \in DOMAIN NoCell \ {"rate"} : result[n][f] \in FieldTypes
  /\ busy \in BOOLEAN /\ events \in Lists
  /\ changes \in 0..MaxChanges /\ faults \in 0..MaxFaults

\* The caller never sleeps longer than 250 ms and then 100 ms for every retry
\* left, asks the driver to scan once, and gives up only after all of that
\* (iwlib.c:3043-3064, 3106-3112).
Patience ==
  LET longest == 250 + (MaxRetry - 1) * 100
  IN /\ asked <= 1
     /\ waited <= longest
     /\ errno = "ETIME" => waited = longest

\* Only a fault, the memory or a list that does not start with a cell ends a scan
\* without the cells; a refused request to scan does not when it was refused for
\* lack of rights.  A list whose first event belongs in a cell is not refused with an
\* error, and it alone ends the program (iwlib.c:2970-3013, 3058-3061, 3083-3117, 3150).
FailsForCause ==
  /\ errno \notin {"", "ETIME"} =>
       \/ faults > 0
       \/ errno = "ENOMEM" /\ buflen > MemoryLimit
       \/ /\ errno = "ENOMEM" /\ fetched # NotFetched
          /\ ~NewCell(fetched[1]) /\ ~InCell(fetched[1])
       \/ errno = "E2BIG" /\ weVersion <= 16 /\ buflen = MinBuffer
  /\ pc = "crashed" => fetched # NotFetched /\ InCell(fetched[1])

\* The comment at iwlib.c:3091-3092 says of the buffer that it grows "to satisfy
\* everybody": results whose length a request can express, and memory for a
\* buffer of that length, make a scan that succeeds.
EverybodySatisfied ==
  (errno = "ENOMEM" /\ faults = 0 /\ fetched = NotFetched) =>
    \E list \in Lists : Len(Encode(list, layout)) >= LengthMod \/ MemoryLimit < LengthMod

\* A scan comes to an end, or takes the program with it, however long the driver takes:
\* the retries and the growth of the buffer are both bounded (iwlib.c:3044-3049,
\* 3066-3104, 3200).
Termination == <>(pc \in {"done", "crashed"})

\* The scan keeps the promise of Scan: cells in the order of one list the driver
\* held at one instant after it was asked, each with all and only what that list
\* says of it, or an error; one that crashes hands over nothing (iwlib.c:3033-3215).
Promise == INSTANCE Scan WITH
  results <- events,
  phase   <- IF pc = "done" THEN "done" ELSE IF fetched # NotFetched THEN "read"
             ELSE IF asked > 0 THEN "asked" ELSE "idle",
  list    <- IF fetched = NotFetched THEN <<>> ELSE <<fetched>>,
  outcome <- IF pc # "done" THEN <<>> ELSE IF errno = "" THEN result ELSE <<NoCell>>,
  NoList  <- <<>>,
  Failed  <- <<NoCell>>,
  Cells   <- Cells
ImplementsScan == Promise!Spec
==============================================================================
