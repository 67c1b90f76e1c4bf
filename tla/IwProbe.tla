-------------------------------- MODULE IwProbe --------------------------------
(***************************************************************************)
(* iw_print_version_info of iwlib.c: find a socket, read the version of the *)
(* kernel, list the devices and ask each of them for its version, while     *)
(* devices come, go and change their drivers between any two calls.         *)
(***************************************************************************)
EXTENDS Integers, Sequences, FiniteSets

CONSTANTS
  Devices,      \* names of devices
  Room,         \* ifreqs in the 1024 bytes given to SIOCGIFCONF, 25 in the code
  Headers,      \* the header lines that /proc/net/wireless may have
  MaxChanges    \* bound on the changes of the devices

Families == <<"INET", "IPX", "AX25", "APPLETALK">>

\* How a driver answers SIOCGIWNAME and SIOCGIWRANGE: not at all, with a name
\* only, with a range of less than 300 bytes, or with one that has its version.
Kinds == {"none", "norange", "old", "versioned"}

NoDevice == "no device"

VARIABLES
  kind,        \* the kernel: the devices there are, and their drivers
  configured,  \* the kernel: the devices that have an address
  supported,   \* the kernel: its socket families
  header,      \* the kernel: /proc/net/wireless, <<>> if it cannot be opened
  procDev,     \* the kernel: whether /proc/net/dev can be opened
  changes,
  pc,          \* "socket", "version", "list", "walk", "name", "range", "close", "done"
  i,           \* the family to try
  skfd,        \* the family of the open socket, "" if there is none
  fh,          \* whether the list of devices is open
  lines,       \* the lines, or ifreqs, that are left
  ifname,
  said,        \* the facts printed
  ret,
  owed         \* the devices that must be reported, for the properties

kernelVars == <<configured, supported, header, procDev>>
vars == <<kind, kernelVars, changes, pc, i, skfd, fh, lines, ifname, said, ret, owed>>

Present == DOMAIN kind

Init ==
  /\ \E there \in SUBSET Devices : kind \in [there -> Kinds]
  /\ configured \in SUBSET Devices
  /\ supported \in {{}, {"INET"}, {"APPLETALK"}}
  /\ header \in Headers
  /\ procDev \in BOOLEAN
  /\ changes = 0
  /\ pc = "socket" /\ i = 1 /\ skfd = "" /\ fh = FALSE
  /\ lines = <<>> /\ ifname = NoDevice /\ said = <<>> /\ ret = 0 /\ owed = {}

\* A device is unplugged, plugged in, or comes back with another driver.
DeviceChanges ==
  /\ changes < MaxChanges
  /\ changes' = changes + 1
  /\ \E d \in Devices :
       /\ kind' \in {[e \in Present \ {d} |-> kind[e]]}
                    \cup {[e \in Present \cup {d} |-> IF e = d THEN k ELSE kind[e]] : k \in Kinds}
       /\ kind' # kind
       /\ owed' = owed \ {d}
  /\ UNCHANGED <<kernelVars, pc, i, skfd, fh, lines, ifname, said, ret>>

-----------------------------------------------------------------------------

\* iw_sockets_open returns the first family that has a socket, or -1.
OpenSocket ==
  /\ pc = "socket"
  /\ IF Families[i] \in supported
     THEN skfd' = Families[i] /\ pc' = "version" /\ UNCHANGED <<i, ret>>
     ELSE /\ UNCHANGED skfd
          /\ IF i < Len(Families) THEN i' = i + 1 /\ UNCHANGED <<pc, ret>>
                                  ELSE ret' = -1 /\ pc' = "done" /\ UNCHANGED i
  /\ UNCHANGED <<kind, kernelVars, changes, fh, lines, ifname, said, owed>>

\* iw_get_kernel_we_version: explicit since version 16, guessed before.  A header
\* is the title its first line has, and <<the number>> that ends its second one.
KernelWeVersion(h) ==
  IF h = <<>> THEN -1
  ELSE IF h[1] # "WE" THEN IF h[1] = "Missed" THEN 15 ELSE 11
  ELSE IF h[2] # <<>> THEN h[2][1] ELSE -1

\* Only what is not guessed is printed.
KernelVersion ==
  /\ pc = "version"
  /\ said' = IF KernelWeVersion(header) > 15
             THEN <<<<"kernel", KernelWeVersion(header)>>>> ELSE <<>>
  /\ pc' = "list"
  /\ UNCHANGED <<kind, kernelVars, changes, i, skfd, fh, lines, ifname, ret, owed>>

\* The orders in which the kernel may list the devices of S.
Listings(S) == {s \in [1 .. Cardinality(S) -> S] : \A x, y \in DOMAIN s : x # y => s[x] # s[y]}

\* Lines that are no device: nearly empty, or without a name that fits.
Junk == {"blank", "unnamed"}

\* /proc/net/dev, after its two lines of header; the kernel may put a line that
\* is no device anywhere.
OpenList ==
  /\ pc = "list" /\ procDev
  /\ fh' = TRUE
  /\ \E s \in Listings(Present), junk \in Junk \cup {""}, at \in 0 .. Cardinality(Present) :
       lines' = IF junk = "" THEN s
                ELSE SubSeq(s, 1, at) \o <<junk>> \o SubSeq(s, at + 1, Len(s))
  /\ owed' = Present
  /\ pc' = "walk"
  /\ UNCHANGED <<kind, kernelVars, changes, i, skfd, ifname, said, ret>>

\* Without it, SIOCGIFCONF: the configured devices, as many as there is room for.
ConfiguredList ==
  /\ pc = "list" /\ ~procDev
  /\ LET here == configured \cap Present IN
       /\ \E s \in Listings(here) :
            lines' = SubSeq(s, 1, IF Room < Len(s) THEN Room ELSE Len(s))
       /\ owed' = IF Cardinality(here) <= Room THEN here ELSE {}
  /\ pc' = "walk"
  /\ UNCHANGED <<kind, kernelVars, changes, i, skfd, fh, ifname, said, ret>>

\* SIOCGIFCONF fails: there is nothing to list.
ListFails ==
  /\ pc = "list" /\ ~procDev
  /\ pc' = "close"
  /\ UNCHANGED <<kind, kernelVars, changes, i, skfd, fh, lines, ifname, said, ret, owed>>

\* iw_enum_devices: junk is skipped, with a complaint or without; any other
\* line is a name, as iw_get_ifname finds it.
NextLine ==
  /\ pc = "walk" /\ lines # <<>>
  /\ lines' = Tail(lines)
  /\ IF Head(lines) \in Junk
     THEN /\ said' = IF Head(lines) = "blank" THEN said ELSE Append(said, <<"cannot parse">>)
          /\ UNCHANGED <<pc, ifname>>
     ELSE ifname' = Head(lines) /\ pc' = "name" /\ UNCHANGED said
  /\ UNCHANGED <<kind, kernelVars, changes, i, skfd, fh, ret, owed>>

MUT_CloseList ==
  /\ pc = "walk" /\ lines = <<>>
  /\ pc' = "close"
  /\ UNCHANGED <<kind, kernelVars, changes, i, skfd, fh, lines, ifname, said, ret, owed>>

\* The end of the list; a list that was not opened was not a file.
CloseList ==
  /\ pc = "walk" /\ lines = <<>>
  /\ fh' = FALSE
  /\ pc' = "close"
  /\ UNCHANGED <<kind, kernelVars, changes, i, skfd, lines, ifname, said, ret, owed>>

\* SIOCGIWNAME of iw_get_ext: a device without wireless extensions, or gone,
\* has nothing to say; the walk ignores the handler's -1.
HasWireless(d) == d \in Present /\ kind[d] # "none"

MUT_AskName ==
  /\ pc = "name"
  /\ pc' = IF HasWireless(ifname) THEN "range" ELSE "walk"
  /\ lines' = IF HasWireless(ifname) THEN lines ELSE <<>>
  /\ UNCHANGED <<kind, kernelVars, changes, i, skfd, fh, ifname, said, ret, owed>>

AskName ==
  /\ pc = "name"
  /\ pc' = IF HasWireless(ifname) THEN "range" ELSE "walk"
  /\ UNCHANGED <<kind, kernelVars, changes, i, skfd, fh, lines, ifname, said, ret, owed>>

\* SIOCGIWRANGE, by now of another driver maybe, or of none.
AskRange ==
  /\ pc = "range"
  /\ said' = Append(said, <<ifname, IF HasWireless(ifname) THEN kind[ifname] ELSE "norange">>)
  /\ pc' = "walk"
  /\ UNCHANGED <<kind, kernelVars, changes, i, skfd, fh, lines, ifname, ret, owed>>

CloseSocket ==
  /\ pc = "close"
  /\ skfd' = ""
  /\ ret' = 0
  /\ pc' = "done"
  /\ UNCHANGED <<kind, kernelVars, changes, i, fh, lines, ifname, said, owed>>

Probe ==
  \/ OpenSocket \/ KernelVersion
  \/ OpenList \/ ConfiguredList \/ ListFails \/ NextLine \/ CloseList
  \/ AskName \/ AskRange \/ CloseSocket

Next == DeviceChanges \/ Probe

\* The program runs on, whatever the devices do.
Spec == Init /\ [][Next]_vars /\ WF_vars(Probe)

-----------------------------------------------------------------------------
(* Properties *)

\* Every variable stays in its range.
TypeOK ==
  /\ Present \subseteq Devices /\ \A d \in Present : kind[d] \in Kinds
  /\ pc \in {"socket", "version", "list", "walk", "name", "range", "close", "done"}
  /\ i \in 1 .. Len(Families) /\ skfd \in supported \cup {""}
  /\ lines \in Seq(Devices \cup Junk) /\ ifname \in Devices \cup {NoDevice}
  /\ \A k \in DOMAIN said : said[k][1] \in Devices \cup {"kernel", "cannot parse"}
  /\ ret \in {-1, 0} /\ owed \subseteq Present

\* Where a device is reported.
ReportsOf(d) == {k \in DOMAIN said : said[k][1] = d}

\* A device that stayed as it was since the list was read is reported once, as
\* what it is, whatever the other devices did meanwhile; nobody is reported
\* twice, and a device without wireless extensions not at all (iwlib.c:385-423).
OneReportEach ==
  /\ \A d \in Devices : \A j, k \in ReportsOf(d) : j = k
  /\ pc = "done" => \A d \in owed :
       {said[k] : k \in ReportsOf(d)} = IF kind[d] = "none" THEN {} ELSE {<<d, kind[d]>>}

\* Every way out of the probe closes what the way in opened, and no device is
\* asked through a socket that is not there (iwlib.c:437-459).
Balanced ==
  /\ pc \in {"name", "range"} => skfd # ""
  /\ pc = "done" => skfd = "" /\ ~fh /\ (ret = -1) = (supported = {})

\* The probe ends, however many lines cannot be parsed (iwlib.c:257-283).
Termination == <>(pc = "done")
==============================================================================
