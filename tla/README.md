# A verification project for ifshow

`ifshow` prints, for each network interface, what the kernel and the PCI bus
say of it.  The repository holds two programs of that name: the Rust program in
`src/`, and the C++ program it replaces in `legacy/`.  Both are sequential
and keep nothing on disk.  What makes them hard to test is the world they look
at: a block of output is put together from a dozen kernel calls about one
*name*, each of which may fail by itself, and between any two of them the
interface behind that name may change, go, or become another.

The specifications here model both programs beside such a kernel, and the
wireless library the C++ program is built on beside drivers; they state what a
reader of their output, or a caller of the library, may rely on, check it with
TLC on small instances, and prove most of it with TLAPS: for every kernel beside
either program, for every stream, driver and table beside the library.

## 1. The system

| component | source | state it keeps | operations |
|---|---|---|---|
| main loop | `src/main.rs` | PCI table, list of names, position, `drv_info`, the block under way | enumerate, list, three filters, one block of up to eleven lines |
| accessors | `src/ifr.rs`, `src/proc.rs` | one socket per interface | one query of the kernel each: flags, driver, link, MAC, inet, inet6, MTU, metric, counters |
| PCI table and lookup | `src/pci_utils.rs` | a map from `bus:device.function` to a device | enumerate with a class filter, parse a bus name, look in two places of sysfs |
| command line | `src/main.rs:11-29` | the options | parsed by clap |
| macOS backend | `src/macos.rs`, parts of `src/ifr.rs` | the output of `ioreg` and `netstat`, read once | the same accessors from text |
| legacy program | `legacy/src/ifshow.cpp`, `ifr.hpp`, `macro.h` | list of names, one PCI filter, a count of blocks, one socket | the same walk, with exceptions |
| legacy readers of /proc | `legacy/src/proc/` | - | list, counters of an irq, wireless status |
| legacy helpers | `legacy/lib/*.hpp` | one string stream per thread | splitting, trimming and converting texts; formatting |
| wireless library: events and scans | `legacy/lib/iwlib.[ch]`, `wireless.h` | position in a stream; retries, buffer, list of cells | decode an event, scan |
| wireless library: configuration and probing | the same | a socket, a growing array, one flag that silences warnings, a `wireless_config` | list and ask devices, get the range, get private requests, get and set the configuration |

**How they interact.**  `main` calls; the accessors ask the kernel (`ioctl`,
`getifaddrs`, `/proc`, `/sys`) and hand the answer back; nothing calls back,
and there are no threads.  Everything shared is outside the program: the kernel,
which changes at any moment.  In the Rust program a failed call becomes a
default value (`unwrap_or`) or a missing line.  In the C++ program it is an
exception, which ends the *line* it is thrown in (`pretty_print`), or the
*block* when it is thrown between lines.  The wireless library asks drivers through
`ioctl`s on a socket of its caller; its functions share no state with one another but
the flag `iw_ignore_version`.

**What is hard, and what makes each part correct.**

* *Main loop.*  Stale names, a filter and a line that ask the same question at
  two times, early `continue`s, defaults in the middle of a block.  Correct:
  one turn for each listed name, in order; each turn's outcome has a reason
  that was true during that turn; each line was true during that turn; the
  lines of the driver are from *one* answer, the one `--driver` let through;
  an interface that keeps still gets exactly its block; `main` returns.
* *Accessors.*  A flag word cut to 16 bits, a metric counted from one, zero
  counters taken for none; lists with several entries for a name, netmasks,
  lines of /proc/net/dev that are not as they should be.  Correct: the block of a
  quiet interface says what the interface says, each address stands once under its
  own name, no counter is another interface's or another column's.
* *PCI table.*  Keys without a domain, two places in sysfs read one after
  the other.  Correct: a device that is shown is a network device at the
  `bus:device.function` the driver, or sysfs, gave during that turn.
* *Legacy program.*  Exceptions, one PCI filter kept through all turns,
  one socket that fails for good, counters narrower than the kernel's, null
  addresses.  Correct: exceptions
  cut lines or blocks and never the walk; a foreign PCI device is not shown; an
  interface that keeps still gets the turn it gets from its successor, and the lines that
  both have agree within limits that can be named (the word for the link, the flags behind
  a sign, cards of other domains or classes, counters beyond 32 bits).
* *Helpers.*  Separators, escapes and the end of a text in a loop that looks one
  character ahead; a stream reused after a failure.  Correct: a text is split into
  the words it was made of, and each is converted as if it were the only one.
* *Events and scans.*  Streams that a 64-bit kernel pads for a 32-bit caller, guessed
  from lengths; drivers that lie about lengths; a scan that takes its time, results
  that outgrow the buffer, calls that are refused.  Correct: what was put in a
  stream comes out of it and nothing from outside an event does; a scan
  returns all of one list the driver held, or an error, in bounded time.
* *Configuration and probing.*  Devices that change between the list and the
  questions, structs of two generations, an array grown by hints, settings that
  undo one another.  Correct: each device is reported once and as what it is; each
  member arrives in its place; nothing is left open or allocated; the values that were
  read can be written back.

`PROJECT.json` lists the hazards with their lines and the properties that
watch them.

## 2. The modules

```
Kernel            data: interfaces, PCI bus, flag words, command-line patterns
 |- PciUtils      pci_utils.rs          table, keys, lookup
 |- Ifr           ifr.rs, proc.rs       what each accessor makes of an interface
 |    `- Ifshow   main.rs               the program and the kernel beside it
 |         |- IfshowInv                 its inductive invariants
 |         |    `- IfshowProofs         theorems
 |         `- (INSTANCE) Report
 |- Report        the abstract specification: what ifshow promises
 |- LegacyIfr     legacy/src/ifr.hpp, proc/
 |    `- Legacy   legacy/src/ifshow.cpp  (INSTANCE Report for its vocabulary)
 |         `- LegacyInv                 its inductive invariants
 |              `- LegacyProofs         theorems
 `- MCKernel      small kernels for TLC, used by MCIfshow and MCLegacy

IfAddrs           proc.rs, ifr.rs       the lists that main walks, read anew for each use
 `- IfAddrsProofs                      theorems
MoreText          string-utils.hpp      getline, split, join, trim
LexicalCast       lexical_cast.hpp      a conversion through the reused stream
 `- Labels        interrupt.cpp         both, as the reader of /proc/interrupts uses them
     `- LabelsProofs                     theorems
IwStream          iwlib.c               the event tables and iw_extract_event_stream
 |- IwStreamProofs                      lemmas: where the encoding lays each event
 |- IwDecode                            a caller that decodes a whole stream
 |    `- IwDecodeProofs                 theorems
 `- IwScan        iwlib.c               iw_scan and what it calls  (INSTANCE Scan)
      `- IwScanProofs                   theorems
Scan              the abstract specification of a scan
IwLayout          iwlib.c, wireless.h   the two layouts of struct iw_range
IwProbe, IwRange, IwPriv, IwConfig      iwlib.c, one function (or pair) each
 `- MCIwCalls     a behaviour is one of the four: they are INSTANCEs in it
      `- IwCallsProofs                  theorems
```

**Kernel.**  An interface is a record of everything the calls report of it
(`IfaceType`); a name maps to such a record or to `Absent`.  A bus name is a
slot, some other text, or the empty one; a slot has a domain and a
`bus:device.function` triple that is one value.  MAC addresses, addresses and
drivers are opaque.  `Contains` stands for the substring test of `--driver`.
The kernel is not in the repository; it is modelled from the questions put
to it.

**Ifr, PciUtils.**  Operators only: accessor of the code = operator of the same
name, applied to the state its kernel call finds.  A call that fails finds
`Absent`: every accessor of `ifr.rs` treats the two alike.

**Ifshow.**  One variable per variable of `main` (`table` is `pci_devices`, `todo`
the rest of `all_interfaces`, `info` is `drv_info`, `opts` is `cli`), `pc` for the
place in the loop, `block` for the lines printed so far.  Each action is the
code from one kernel call to the next, with every branch it can take:

| action | code |
|---|---|
| `Enumerate`, `ListInterfaces`, `ListFails` | main.rs:37-43 |
| `NextName`, `Excluded`, `OpenSocket`, `SocketFails` | :46-55 |
| `CheckUp`, `SkipDown` | :58-61 |
| `GetDrvinfo`, `SkipDriver` | :64-77 |
| `PrintHeader`, `PrintMac`, `PrintInet`, `PrintInet6` | :80-121 |
| `PrintDriver`, `ReadUevent`, `ReadDevlink` | :124-182, pci_utils.rs:182-244 |
| `PrintFlags`, `PrintMtu`, `PrintMetric`, `PrintStats` | :185-207 |
| `Finish` | :209 |

`KernelChanges(n, e)` puts another interface, or none, behind a name, at any
moment; `Fault` makes a call fail that could have succeeded.  Two variables are
history and guard nothing: `listed`, and `window`, the states a question about
the current name may have found since its turn began.

**Report** says the same with one step per turn: a turn *begins*, its window
grows, and it ends with *any* admissible record.  `Admissible` is the promise
in full: what may be shown, or left out, after which window.  It does
not mention program points, accessors or the table.

**Legacy, LegacyIfr** follow `show_interfaces` in the same way.  `None` stands for
an exception; an action that prints a line has the branch in which the rest of
the line is lost; `FlagsThrow` and `InetThrows` leave the block as the
`catch(...)` around it does; `crashed` is the process killed by an invalid
dereference.  `filter` is the `pci_filter` that lives through all turns.
`ListForWidth` is the first of two reads of the list.  `sock` is the static socket of
class `ifr`, opened by the first call on it (`SocketCalls`): once that fails, each of
them throws (`SocketThrows`).

**IfAddrs** is the part of `main` that Kernel's records leave out: the list of
`getifaddrs` as entries with names, families, addresses and netmasks, and
/proc/net/dev as lines of parts.  `ListNames` puts the names through a set and sorts
them (proc.rs:8-14, main.rs:42-44); `InetAddrs` and `Inet6Addr` walk a list read anew
(main.rs:112, :116); `GetStats` looks for a line (proc.rs:41-61, main.rs:196-204).  A
part of a line is a counter, `<<name>>` for a name by itself, or `<<name, counter>>`
for a name that its first counter is glued to.  A label of an address is a name of
its own, as it is for the program.

**MoreText, LexicalCast, Labels.**  `MoreText` has one action per turn of `getline`'s
loops; `Escaped` and `Join` make its texts, so that the words a text was made of are
known.  `LexicalCast` has one action for each step of the condition that writes,
reads and tests the stream.  `Labels` alternates them as `get_interrupt_counter` does.
The rest of a line, which it ignores, counts as a separator there.

**IwStream, IwDecode.**  A byte of a stream is a tuple that says which event it belongs
to and what it is of it; `Encode` lays a list of events out as a kernel does, packed or
padded.  `Extract` is `iw_extract_event_stream`, a disjunct per way out of it.
`Lead` is what the first two bytes of a payload are when they are read as a length, which is
what the decoder does when it looks for padding (`PointEvent`).
The descriptor tables (iwlib.c:2392-2687) are sets of names.

**IwScan, Scan.**  One action per `ioctl`, `realloc` and sleep of `iw_scan`, one per event
decoded.  The driver may be busy, hold another list at the next request, refuse a
request, or answer with the length it needs, with another one, or none.  `crashed` is the
process killed where a value comes before the first cell (`InCell`).  `Scan` is the
promise: ask once, read one list at one instant, deliver all of it or fail.  The
refinement's `Cells` says what a list means without decoding any stream.

**IwProbe, IwRange, IwPriv, IwConfig.**  Each is a function, or a pair, of the library with
the kernel or driver it asks.  They share nothing, so `MCIwCalls` checks them as a sum:
`fn` tells which one a behaviour is, and the others' variables are idle.  The assumptions on
their constants stand in `MCIwCalls`.  In `IwRange` a byte of a struct knows the member
it was written as; the layouts are computed from the members as a compiler
lays them out (`IwLayout`).  `IwConfig`'s driver forgets its frequency when its mode is set
and looks for a network when its name is set, which is what the order of the
requests (iwlib.c:741-753) is for.  `Argument` is what a request carries: a network id always
with `fixed` set, and a frequency with whatever flags the request before left there.

## 3. What is checked

Each run is a cfg; every property of a passing run has a mutant in
`PROJECT.json` (operators `MUT_*` beside what they replace) that the run
refutes.

| run | instance | what it shows |
|---|---|---|
| `race` | 2 names, a card and a WLAN, aliased PCI bus, 5 command lines, 1 change, 1 fault, weak fairness | type; `TurnsAdmissible`, `QuietTurnIsExact`, `OneTurnEach`, and the inductive `Provenance` in every reachable state; `main` returns; a steady interface that is asked for is shown |
| `swaps` | 1 name, 6 kinds of interface, 2 buses, 2 changes, 1 fault | every step of Ifshow is a step of Report, or a stutter (`ImplementsReport`) |
| `addresses` | all lists of up to 3 of 7 entries, each netmask of 4 bits, 4 tables, 1 change, 1 fault | every address once, in order, under its own name; prefixes are those of contiguous masks; no counter is another's |
| `legacy_race` | 2 names, 2 cards in different slots, 1 change, 1 fault, weak fairness | exceptions never end the walk, blank lines stand right, lines break off only behind the call that threw, no card of another slot for an interface in a slot; the program ends; a steady interface is shown |
| `legacy_sundry` | 1 name, 6 kinds of interface, 2 changes, 1 fault | type; the inductive `Provenance` in every reachable state; a quiet interface gets the turn that `Report` says of the Rust program, and the lines of both agree within the limits that `QuietTurnsAgree` names |
| `labels` | texts of up to 3 words, all separators, with and without escapes | words come back, both trims agree, each label converts as if alone |
| `stream` | lists of up to 3 of all types of events, some without their value, with a false count of tokens or of no known type, both layouts, extensions 18 and 22 | values and payloads of proper streams arrive, nothing from outside an event (for extension 18, of proper streams), every call moves on |
| `scan` | 7 lists, one with a value before its first cell, both layouts, extensions 16 and 22 | bounded patience, errors have causes and so has a crash, it ends, `ImplementsScan` |
| `calls` | see `MCIwCalls` | devices reported once, all closed; members in place, first driver's warnings only; private requests read whole; values of settings restored, network joined last; the calls end |
| `legacy_pci_info`, `stream64`, `scan_crowd` | 1 command line; a 64-bit build; a list of 96 bytes | findings |

**Bounds.**  `MaxChanges` and `MaxFaults` bound what the environment does in one
run of the program, and `Names` its length.  The properties are about one turn,
or two turns and their order.  For one turn, two changes are what it takes to
have three different states answer in it (the shortest way for two lines of one
answer to be torn apart *and* for the original state to be back): `swaps` and
`legacy_sundry` have them; one fault is independent of those.  Two names are the fewest
that have an order, and that can inherit something from one another, as through the legacy
filter; `race` and `legacy_race` have these, with one change.  The
six interfaces of `MCKernel` are chosen so that every branch is taken: with and
without driver, slot from the driver, from `uevent`, from the device link, none
at all, counters zero or not, flag bits above the sixteenth, link unknown.  On the
bus `Aliased` two network devices differ in the domain only.  Where section 4 has a theorem
for a property, it makes the bounds immaterial.  In the legacy runs, `UIntMax` is 7 and an
irq wraps at `IrqRange` = 4: the counters 9 and irqs 6 lie beyond; only comparisons
with the two limits matter.  Of the interfaces of `legacy_sundry`, one has counters beyond
the limit, and one neither an answer about its link nor traffic: there the limits of
`QuietTurnsAgree` begin.

In `addresses` a netmask has 4 bits instead of 32 or 128: all sixteen are there, and a
bit more adds no new kind of mask.  Three entries are two of one name and one of
another, in any order.  In `scan` and `scan_crowd`, 32 bytes stand for the 4096 a
buffer starts with and 256, or 128, for the 65536 that a 16-bit length cannot express;
both are powers of two above the first buffer, as in the code.  Three retries stand for
150: the first one, one in between, and the last.  In `stream`, names of 0, 1, 4, 33 and 34
bytes are the limits of the decoder: 4 is the size of the padding it looks for, 33 is
the longest name.  `Lead` is 1 in the runs of the decoder: a name of nine bytes that claims
another number, and begins with 1, fits a second reading as a padded event.  In the scans it
is 0, a payload of zeros.  In `calls`, the range has the real structs byte by byte and
drivers of every generation, the private requests have the sizes of the code
(16, 1000) and tables at each boundary, the probe has two devices and room for one
in the list that a kernel gives without /proc, and `iw_float2freq` keeps 2 of 4
digits instead of 6 of 8.  In `labels`, words of two characters are the shortest in
which one can be escaped and one not, and three are the fewest with one in between.

**Fairness.**  `FairSpec` is weak fairness of `Program`, the disjunction of all
steps of the process.  It says that the scheduler runs a process that can run, and
that no system call it makes blocks for ever: the calls are `ioctl`s, reads of
/proc and /sys, `getifaddrs`; none waits for another process.  `IwScan`, `IwProbe` and
`IwPriv` have weak fairness of their caller alone, for the same reason; a sleep is a `select`
with a time limit.  Nothing is assumed of the driver: it may be busy for ever, and the
scan ends because its retries do.  No
fairness is assumed of single branches, of the kernel's changes or of failures.

**Deadlock** is checked for the two programs, where `Exited` is the only step left after the
process is gone.  The other modules end where their function returns or their
text ends, so their cfgs say `CHECK_DEADLOCK FALSE`; where a loop could fail to end,
`Termination`, or `Advances` for the decoder, says that it does.

## 4. What is proved

Everything here holds for every value of the constants that their named assumptions
admit, and for any number of changes, faults and calls; TLC evaluates each of those
assumptions on its instance.  Most give the constants types, keep `None`, `Absent`, `NoBus`
and the like apart from the values that they stand beside, and say that sets of names and
devices are finite and where members are in two structs.  Some narrow what a theorem is about:

* `SettingsAssumption`: the frequencies are those that `iw_float2freq` gives back, the
  network names have no NUL in them, no key is a null pointer, the current key is one of
  the device's, and all states of a device have the same number of keys;
* `TextAssumption`: which words a text can be split into (below);
* `IfAddrsAssumption`: one line for a device in /proc/net/dev;
* `RangeAssumption`: versions of drivers from 10 to 255, where 10 stands for every driver that
  is too old to tell its version;
* `ScanAssumption`: the first buffer of a scan is below what a request can express.

Conditions that only some theorems need are not assumptions but hypotheses, and stand in the
tables below: `Word = 4`, `SingleNumbers`, `ProperLists`.

**The Rust program** (`IfshowProofs`):

| theorem | says |
|---|---|
| `TypeCorrect` | `Spec => []TypeOK` |
| `ProvenanceCorrect` | `Spec => []Provenance` |
| `TurnsAdmissibleCorrect` | `Spec => []TurnsAdmissible` |
| `QuietTurnIsExactCorrect` | `Spec => []QuietTurnIsExact` |
| `ProgressCorrect`, `OneTurnEachCorrect` | `Spec => []Progress`, `Spec => []OneTurnEach` |
| `Implementation` | `Spec => ImplementsReport`: Ifshow refines Report |

`TurnsAdmissible` speaks of finished turns and is not inductive: the
step that ends a turn needs to know where the lines printed before came from.
`Provenance` is that knowledge, by program point: the table is one that
enumeration of this bus may build (`TableRight`); the tests already passed were
true of something in the window (`TestsPassed`); the lines printed so far go
back to something in the window (`EarlyLinesHold`, `BusLinesHold`,
`LateLinesHold`).  It is inductive because the window only grows within a turn.
`PrintDriver`, `ReadUevent` and `ReadDevlink` need the lemma
`LookupIdentifies`: an entry of the table is a network device at that address,
in some domain.  `EndTurn` turns `Provenance` at the last point into `Admissible`
of the record.  With one state in the window, admissible means exact
(`OneStateIsExact`).  `Progress` puts the names in three parts (taken,
under way, to come) and says that they are in order; `LeastName` (every non-empty
set of names has a least element) is what `NextName` needs.  For the
refinement each action is mapped by name: calls are `Unanswered` steps or stutters, the five
ways to end a turn are `EndOfTurn`.

**The C++ program** (`LegacyProofs`, invariants in `LegacyInv`):

| theorem | says |
|---|---|
| `TypeCorrect` | `Spec => []TypeOK` |
| `ProgressCorrect`, `WalkGoesOnCorrect` | `Spec => []Progress`, `Spec => []WalkGoesOn` |
| `ProvenanceCorrect` | `Spec => []Provenance` |
| `TurnsAdmissibleCorrect` | `Spec => []TurnsAdmissible` |
| `QuietTurnsAgreeCorrect` | `Spec => []QuietTurnsAgree` |

`QuietTurnsAgree` compares each line that both programs have.  MAC, addresses, MTU, metric,
driver and bus are the same.  `LinkAgrees`: without settings of the interface, or without an
answer about its link, only the Rust program has a word for it.  `FlagsAgree`: the flags below
bit 16 are the same; those above are all shown, or none, as the sign of the word is set
(ifr.hpp:106).  `CardAgrees`: a card is compared where the Rust program, which has no domains,
knows that one at the address and no other.  `CountersAgree`: counters that fit 32 bits.
Of cards of other domains or classes and of larger counters it says nothing.

The argument is that of the Rust program, and has to carry more.  A line may be cut short, so
`Provenance` explains each line, the lost ones included, by something in the window, and
says which lines are not tried yet (`HeaderFound`, `TopLinesFound`, `VerboseLinesFound`,
`NotYetPrinted`); the filter that outlives a turn may be any slot, and only an interface
in a slot overrides it (`CardFound`); `Framing` says which
variables are in use at which point; `Progress` links the counter of blocks to the
turns whose block has begun, the ones cut short included, which is where blank lines come
from.  The types of `AccessorTypes` need lemmas about the recursive functions that cut
counters to 32 bits and number the CPUs' events: each is shown to exist and to have its values
by a least counterexample (`LeastNumber`).

**Decoding events** (`IwStreamProofs`, `IwDecodeProofs`):

| theorem | says |
|---|---|
| `BetweenCorrect` | `Spec => []Between` |
| `TypeCorrect`, `AdvancesCorrect` | `Spec => []TypeOK`, `Spec => Advances` |
| `PayloadCorrect` | in a 32-bit program, `Spec => []PayloadInEvent` |
| `EventsArriveCorrect` | the same for `[]EventsArrive`, if `SingleNumbers` |

`IwStreamProofs` finds the offsets at which `Encode` lays each event, whatever their
number (`EncodeLaid`), and what stands at them (`EventAt`, `PointAt`, `ValueAt`).  `Between`
says that the decoder always stands at one of these offsets, or at a whole value
within an event; `InOrder` adds that it has handed out what lies before.  The first three
theorems are about faulty streams as well.  The last two have conditions because the
statements are false without them: where `Word` is 8, payloads are lost, which is
finding 2.  `PayloadInEvent` is about every stream where the extension is above 18, and
about proper ones where it is not: there a false count may be handed out (section 5).
`SingleNumbers` excludes several 4-byte values in one event, which a 32-bit
program takes for one padded value (iwlib.c:2877-2885).
The streams of `PayloadInEvent` have no event without its value (`Filled`): the code
tests that a value fits before it skips the 4 bytes of padding, and behind
a padded event that lacks its value it hands out bytes past the stream's end.

**Scanning** (`IwScanProofs`):

| theorem | says |
|---|---|
| `CourseCorrect`, `PatienceCorrect` | `Spec => []Course`, `Spec => []Patience` |
| `FailsForCauseCorrect` | `Spec => []FailsForCause` |
| `KeepsPromise` | `Spec => Promise!Init /\ [][PromisedStep]_vars` |
| `ImplementsScanCorrect` | in a 32-bit program, if `ProperLists`, `Spec => ImplementsScan`: IwScan refines Scan |
| `ScanTypeCorrect` | under the same conditions, `Spec => []TypeOK` |

`FailsForCause` is about all lists: it says what makes a scan fail, and that only a list
whose first event is a value of a cell makes it crash.

`Course` links the retries left to the time slept at each phase of the scan; `Patience`
follows.  `Holding` says that the stream being decoded is a list that the driver held, `Caused`
what each error goes back to.  `KeepsPromise` is the refinement for all lists that the
assumptions admit, up to one conjunct: asking, reading one list at one instant, failing for
good, and delivering only after reading are those of `Scan`.

The last conjunct is that the cells delivered are `Cells` of the list read. `Decoded` is
what it takes: the decoder stands where `IwStreamProofs` says that the encoding laid the
next event, and the cells made so far are those of the events before it. One more event is
one more step of both, which the lemmas show for each kind of event that
`iw_process_scanning_token` knows. The conditions say what a driver does: every event has
what it announces, numbers and qualities alone in theirs (`ProperEvent`), a cell is
announced by one address, and no mode out of range follows one in range in the same cell
(`ProperList`). They are not for the proof's convenience: the code takes an address for a
cell of its own whenever it meets one, and lets a bad mode replace a good one
(iwlib.c:2979-2983), where `Cells` has one cell and the good mode. TLC evaluates them for
the lists of `scan` (`ScansAssumption` in `MCIwScan`). `Word = 4` is there for finding 2.

**The other calls** (`IwCallsProofs`), as theorems of `MCIwCalls!Spec`:

| theorem | says |
|---|---|
| `BalancedCorrect`, `OneReportEachCorrect` | the probe: `[]Balanced`, `[]OneReportEach` |
| `FieldsArriveCorrect`, `OneComplaintCorrect` | the range: `[]FieldsArrive`, `[]OneComplaint` |
| `SatisfiedCorrect` | the private requests: `[]Satisfied` |
| `RestoredCorrect`, `JoinsLastCorrect` | the configuration: `[]Restored`, `[]JoinsLast` |
| `TypeCorrect` | all four: `[]TypeOK` |

`Sockets` says what is open at each point of the probe; `Walk` puts its devices in those
told of and those to come, in both lists. `Growth` follows the array: while no table was
lost on the way, the largest size that doubling reaches below the limit from the array at
hand (`LastTried`) is the one it reaches from the first. `Configured` gives the written
settings their types and order; `Kept` relates what was read to what the driver held
(`Matches`), and each setting written so far to what it now holds (`Placed`), whatever the
driver forgets or refuses in between. `Restored` is about values: whether a network id or a
frequency was fixed or automatic is not brought back by the code (section 5), and not
promised. `Complaint` says whose versions the warnings are
about; that the versions of either struct arrive whole (`VersionsArrive`) follows from where
the compiler puts them (`LayoutAssumption`). `FieldsArrive` needs the place of every member
in both structs. `IwLayout` computes them with a fold, which the provers cannot do;
`PlacesAssumption` writes them down and TLC compares. From there it is proved: each copy
moves whole members by one distance (`Copy1` to `Copy8`), no two copies meet (`Brought`),
what none touches is zero (`LeftClear`), and a driver writes whole members (`WholeMembers`).
Since `MCIwCalls` is a sum, each invariant is one of its part, and a lemma per part
(`ProbeRuns` and so on) says that the sum's steps are steps of the part.

**Lists of addresses** (`IfAddrsProofs`):

| theorem | says |
|---|---|
| `TypeCorrect` | `Spec => []TypeOK` |
| `EveryAddressOnceCorrect` | `Spec => []EveryAddressOnce` |
| `StatsOfInterfaceCorrect` | `Spec => []StatsOfInterface` |
| `PrefixesAgreeCorrect` | `Spec => []PrefixesAgree` |

`Walk` puts the names listed into those done, the one at hand and those ahead, which
ascend and lie above the others (`SetsSort`: every finite set of numbers can be sorted).
`Ordered` says, while nothing has changed or failed, that there is an `order`: line *i* is that of
entry `order[i]` of the list, the lines keep the order promised, and every entry whose
turn has come has a line; a step that prints prolongs it (`NextAddresses`).  At the end it is
a bijection, and the lines are counted.  `Counts` says of each counter printed that it is that
of its interface and place, and that the devices done with a full line have
theirs once.  The netmasks are a calculation for every `Width`, by least counterexample
(`LeastNumber`): the ones of a contiguous netmask (`OnesOfHalf`), and when a shift to the left
leaves nothing of it (`Divides`, `MaskCounts`).

**Texts and labels** (`LabelsProofs`):

| theorem | says |
|---|---|
| `TokensAreWordsCorrect` | `Spec => []TokensAreWords` |
| `TrimsAgreeCorrect` | `Spec => []TrimsAgree` |
| `LabelsConvertedCorrect` | `Spec => []LabelsConverted` |

`Following` lays the text out as its words and the separators between them, and says where
in it the reader stands: inside a word, before an escaped pair, between the backslash and
what it protects, or behind a word (`WordRead`), or at the end (`AllRead`); the tokens are
the words before that. That a text has such a layout at all is shown for what makes it
(`Escaped`, `Join`): the function within `FlattenSeq` exists and lays its parts end to end
(`JoinExists`, `FlattenPlaces`), by least counterexample. The two trims agree on *every*
sequence of characters (`TrimCopyAgrees`). `Converting` says that nothing is left in the one
stream when a conversion begins, and no error when it writes, so that what it answers is
what a fresh stream would (`CastOutcome`). `TextAssumption` says of the words what
`TokensAreWords` would be false without: only the first may be empty, none holds the byte
255, and without escapes none holds a separator.

**Only model-checked**, and why: liveness (`Termination`, `SteadyInterfaceShown`, the ends of the
four calls and of a scan), which is out of this prover's reach.  Every invariant and action property
of the passing runs, and both refinements, are theorems; those about decoding and scanning
under the conditions named above.

## 5. Findings

Three places where the code and a comment in it disagree, each a run that TLC
refutes; `PROJECT.json` quotes the comments.

1. `legacy_pci_info` (ifshow.cpp:369-371): an interface whose driver names no bus
   is shown with the PCI device of an interface before it, or the first on the bus,
   because the empty bus name parses and leaves the shared filter alone.
2. `stream64` (wireless.h:1137): in a 64-bit build the packed size of a payload's header is
   built from the padded one, and payloads of decoded events are lost.
3. `scan_crowd` (iwlib.c:3091-3100): the doubling buffer passes the 16-bit length of
   a request, and results of 32769 to 65535 bytes are never read without a hint.

Seen while modelling, and part of the models as the code has them, without a run of
their own:

* main.rs:57-59 and ifshow.cpp:144-146: names given on the command line are shown although
  down, without `-a`.  Probably intended; the comments do not say so.
* ifshow.cpp:328-334: a CPU without events shifts the labels of those after it.
* ifr.hpp:106: the flag word is a signed short, so its top bit, DYNAMIC, shows all flags
  above it as well.
* pci_utils.rs:150: the keys of the table have no domain; of two devices at one address the
  last one enumerated stays.
* iwlib.c:2838-2851, which is to "discard bogus events which advertise more tokens than what
  they carry": of the extensions up to 18, an event with a false count whose payload begins like
  a length passes for a padded one.  It is tested with that length and handed out with the
  false count, because the second reading of its header is written behind the place of the
  pointer, whatever the version.  TLC refutes `PayloadInEvent` without its condition on the
  version in `stream`, in one step: a name of nine bytes that claims ten and begins with 1.
* iwlib.c:2970-3013: an event that is stored in a cell, before any cell, is stored through a
  null pointer.
* iwlib.c:826 sets `nwid.fixed` whatever was read; iwlib.c:695 reads the flags of the frequency,
  and 770-774 send those that an earlier request left in `wrq.u`.
* ifr.hpp:343-356: a counter beyond 32 bits is cut and the counters after it show
  uninitialised memory.
* ifr.hpp:209: the null `ifa_addr` of an interface without hardware address is dereferenced.
* ifr.hpp:223-229 says that it counts the consecutive ones of a netmask from the left; it
  counts all bits down to the last one, and differs from the Rust program's count of ones
  on every netmask that is not contiguous (`PrefixesAgree`).
* proc.rs:47-48: a line of /proc/net/dev with a name glued to its first counter, as older
  kernels wrote them, is not found, and the interface has no counters.
* string-utils.hpp:63: the byte 255, as a signed char, ends a text.
* string-utils.hpp:199: `left_trim_copy` keeps a text of nothing but white space, which
  `left_trim` empties.

## 6. Not modelled

* Wording: the names of device classes, flags and scopes, colours, columns, option parsing.
  The characters of a PCI address (`pci_utils.rs:190-212`).  The text of sysfs, if_inet6 and
  /proc/net/wireless; of /proc/interrupts more than its labels.
* macOS (`macos.rs`, `main.rs:137-145`, the other half of `ifr.rs`): it takes the text
  of `ioreg` and `netstat` apart, of which the repository has no sample.  What those
  programs may print would be a guess.
* In IfAddrs: an alias label that reads like a name glued to a counter (`eth0:1`); two
  lines of one name in /proc/net/dev, which the kernel does not write.
* In Legacy: the several wireless `ioctl`s of one block are one call; the twelve
  counters of the kernel stand as two, which is enough to tell a counter from those
  after it; the garbage width a Release build uses when the first list is empty
  (a Debug build aborts: both outcomes of `ListForWidth` are there).  The PCI
  library is external: its filter is modelled by what it does to the
  fields a bus name gives.
* In `LexicalCast`: more than one thread; each has a stream of its own.  Numbers too large
  for their type.
* Of the wireless library: statistics, the comparison of protocols, and the printing and parsing of
  bitrates, powers, retries, keys, addresses and channels, which are conversions of one
  value without state.  Its debugging code.  The lists that the runs give `IwScan` are proper
  streams, but for a value that may come before the first cell: faulty ones are `IwDecode`'s,
  and end its loop as they would end a scan, with the cells so far.
* Of the helpers: letter case, replacement, colours and padding.

## 7. State

Every module of section 2 has its runs, and every safety property of a passing run its
theorem.  What would come next is in section 6: a sample of what `ioreg` and `netstat`
print would make a model of the macOS backend possible.
