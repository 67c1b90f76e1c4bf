-------------------------------- MODULE MCIwCalls ------------------------------
(***************************************************************************)
(* Small instances of four functions of the wireless library that share     *)
(* nothing: the version probe, the range, the private requests and the      *)
(* basic configuration.  A behaviour is one of them, fn; the variables of   *)
(* the others are idle.                                                     *)
(***************************************************************************)
EXTENDS IwLayout, FiniteSets

CONSTANTS
  Devices, Room, Headers,                       \* of IwProbe
  Drivers, MaxCalls,                            \* of IwRange
  Sizes, Start, Limit,                          \* of IwPriv
  Settings, Supports, Top, Keep, MaxFaults, MaxMeddling,  \* of IwConfig
  MaxChanges                                    \* of IwProbe and IwPriv

\* No device has the name of a line that is none, or of what is said of none.
ASSUME ProbeAssumption ==
  /\ Room \in Nat /\ MaxChanges \in Nat
  /\ IsFiniteSet(Devices)
  /\ Devices \cap {"blank", "unnamed", "kernel", "cannot parse", "no device"} = {}

ASSUME RangeAssumption ==
  /\ MaxCalls \in Nat
  /\ \A d \in Drivers : d.compiled \in 10 .. 255 /\ d.source \in 0 .. 255

\* Where the compiler puts the members of the two structs that the versions depend on:
\* no member overlaps another, and the versions have the same place in both.
ASSUME LayoutAssumption ==
  /\ \A L \in {OldLayout, NewLayout} : \A f, g \in DOMAIN L :
       /\ L[f] \in Nat \X Nat
       /\ f # g => L[f][1] + L[f][2] <= L[g][1] \/ L[g][1] + L[g][2] <= L[f][1]
  /\ DOMAIN OldLayout \subseteq DOMAIN NewLayout
  /\ \A L \in {OldLayout, NewLayout} :
       /\ {"we_version_compiled", "we_version_source", "txpower", "avg_qual"} \subseteq DOMAIN L
       /\ L["we_version_compiled"] = <<280, 1>> /\ L["we_version_source"] = <<281, 1>>
       /\ L["txpower"][1] = 248
  /\ OldLayout["avg_qual"] = <<304, 4>> /\ NewLayout["avg_qual"] = <<48, 4>>
  /\ NewLayout["enc_capa"][1] = 564 /\ NewLayout["min_pms"][1] = 568
  /\ NewLayout["bitrate_capa"] = <<584, 4>>

\* Where the other members are: the bytes that iw_get_range_info moves.
ASSUME PlacesAssumption ==
  /\ OldLayout =
       [throughput |-> <<0, 4>>, min_nwid |-> <<4, 4>>, max_nwid |-> <<8, 4>>,
        num_channels |-> <<12, 2>>, num_frequency |-> <<14, 1>>, freq |-> <<16, 128>>,
        sensitivity |-> <<144, 4>>, max_qual |-> <<148, 4>>,
        num_bitrates |-> <<152, 1>>, bitrate |-> <<156, 32>>,
        min_rts |-> <<188, 4>>, max_rts |-> <<192, 4>>, min_frag |-> <<196, 4>>,
        max_frag |-> <<200, 4>>, min_pmp |-> <<204, 4>>, max_pmp |-> <<208, 4>>,
        min_pmt |-> <<212, 4>>, max_pmt |-> <<216, 4>>, pmp_flags |-> <<220, 2>>,
        pmt_flags |-> <<222, 2>>, pm_capa |-> <<224, 2>>, encoding_size |-> <<226, 16>>,
        num_encoding_sizes |-> <<242, 1>>, max_encoding_tokens |-> <<243, 1>>,
        txpower_capa |-> <<244, 2>>, num_txpower |-> <<246, 1>>, txpower |-> <<248, 32>>,
        we_version_compiled |-> <<280, 1>>, we_version_source |-> <<281, 1>>,
        retry_capa |-> <<282, 2>>, retry_flags |-> <<284, 2>>, r_time_flags |-> <<286, 2>>,
        min_retry |-> <<288, 4>>, max_retry |-> <<292, 4>>, min_r_time |-> <<296, 4>>,
        max_r_time |-> <<300, 4>>, avg_qual |-> <<304, 4>>]
  /\ NewLayout =
       [throughput |-> <<0, 4>>, min_nwid |-> <<4, 4>>, max_nwid |-> <<8, 4>>,
        old_num_channels |-> <<12, 2>>, old_num_frequency |-> <<14, 1>>,
        event_capa |-> <<16, 24>>, sensitivity |-> <<40, 4>>, max_qual |-> <<44, 4>>,
        avg_qual |-> <<48, 4>>, num_bitrates |-> <<52, 1>>, bitrate |-> <<56, 128>>,
        min_rts |-> <<184, 4>>, max_rts |-> <<188, 4>>, min_frag |-> <<192, 4>>,
        max_frag |-> <<196, 4>>, min_pmp |-> <<200, 4>>, max_pmp |-> <<204, 4>>,
        min_pmt |-> <<208, 4>>, max_pmt |-> <<212, 4>>, pmp_flags |-> <<216, 2>>,
        pmt_flags |-> <<218, 2>>, pm_capa |-> <<220, 2>>, encoding_size |-> <<222, 16>>,
        num_encoding_sizes |-> <<238, 1>>, max_encoding_tokens |-> <<239, 1>>,
        encoding_login_index |-> <<240, 1>>, txpower_capa |-> <<242, 2>>,
        num_txpower |-> <<244, 1>>, txpower |-> <<248, 32>>,
        we_version_compiled |-> <<280, 1>>, we_version_source |-> <<281, 1>>,
        retry_capa |-> <<282, 2>>, retry_flags |-> <<284, 2>>, r_time_flags |-> <<286, 2>>,
        min_retry |-> <<288, 4>>, max_retry |-> <<292, 4>>, min_r_time |-> <<296, 4>>,
        max_r_time |-> <<300, 4>>, num_channels |-> <<304, 2>>, num_frequency |-> <<306, 1>>,
        freq |-> <<308, 256>>, enc_capa |-> <<564, 4>>, min_pms |-> <<568, 4>>,
        max_pms |-> <<572, 4>>, pms_flags |-> <<576, 2>>, modul_capa |-> <<580, 4>>,
        bitrate_capa |-> <<584, 4>>]

ASSUME PrivAssumption ==
  Sizes \subseteq Nat /\ Start \in Nat \ {0} /\ Limit \in Nat /\ Start < Limit

ASSUME ConfigAssumption ==
  Top \in 1 .. 8 /\ Keep \in 0 .. Top /\ MaxFaults \in Nat /\ MaxMeddling \in Nat

VARIABLES
  fn,                       \* "probe", "range", "priv" or "config"
  pc, ret, changes, said,   \* each of two functions or three
  kind, configured, supported, header, procDev, i, skfd, fh, lines, ifname, owed,
  range, iwIgnoreVersion, got, first, calls,
  size, hint, maxpriv, priv, ppriv, lost,
  drv, joined, supports, weVersion, readable, info, step, refused, saved, before, meddled

Probe  == INSTANCE IwProbe
Ranges == INSTANCE IwRange WITH Old <- OldLayout, New <- NewLayout
Priv   == INSTANCE IwPriv
Config == INSTANCE IwConfig

\* The states of a device: records of its settings, of the same keys.  The name of a
\* network has no NUL in it, no key is a pointer to nothing, and the frequencies are those
\* that the floating point of iw_freq2float and iw_float2freq can tell from others.
ASSUME SettingsAssumption ==
  \A d \in Settings :
    /\ d \in [mode : Nat, freq : Nat \X Nat, fixedFreq : BOOLEAN, keys : Seq(STRING),
              index : Nat \ {0}, enabled : BOOLEAN, hidden : BOOLEAN, nwid : Nat,
              fixedNwid : BOOLEAN, essid : Seq(STRING \ {"NUL"}), on : Nat, tells : BOOLEAN]
    /\ d.index \in DOMAIN d.keys /\ \A e \in Settings : DOMAIN e.keys = DOMAIN d.keys
    /\ \A k \in DOMAIN d.keys : d.keys[k] # "NULL"
    /\ LET x == Config!Freq2Float(d.freq) IN
         x \in Nat /\ Config!Freq2Float(Config!Float2Freq(x)) = x

probeOnly  == <<kind, configured, supported, header, procDev, i, skfd, fh, lines, ifname, owed>>
rangeOnly  == <<range, iwIgnoreVersion, got, first, calls>>
privOnly   == <<size, hint, maxpriv, priv, ppriv, lost>>
configOnly == <<drv, joined, supports, weVersion, readable, info, step, refused, saved,
                before, meddled>>
vars == <<fn, pc, ret, changes, said, probeOnly, rangeOnly, privOnly, configOnly>>

ProbeIdle ==
  /\ kind = "idle" /\ configured = "idle" /\ supported = "idle" /\ header = "idle"
  /\ procDev = "idle" /\ i = "idle" /\ skfd = "idle" /\ fh = "idle" /\ lines = "idle"
  /\ ifname = "idle" /\ owed = "idle"

RangeIdle ==
  /\ range = "idle" /\ iwIgnoreVersion = "idle" /\ got = "idle" /\ first = "idle"
  /\ calls = "idle"

PrivIdle ==
  /\ size = "idle" /\ hint = "idle" /\ maxpriv = "idle" /\ priv = "idle" /\ ppriv = "idle"
  /\ lost = "idle"

ConfigIdle ==
  /\ drv = "idle" /\ joined = "idle" /\ supports = "idle" /\ weVersion = "idle"
  /\ readable = "idle" /\ info = "idle" /\ step = "idle" /\ refused = "idle"
  /\ saved = "idle" /\ before = "idle" /\ meddled = "idle"

Init ==
  \/ fn = "probe" /\ Probe!Init /\ RangeIdle /\ PrivIdle /\ ConfigIdle
  \/ fn = "range" /\ Ranges!Init /\ ProbeIdle /\ PrivIdle /\ ConfigIdle
     /\ pc = "idle" /\ ret = "idle" /\ changes = "idle"
  \/ fn = "priv" /\ Priv!Init /\ ProbeIdle /\ RangeIdle /\ ConfigIdle /\ said = "idle"
  \/ fn = "config" /\ Config!Init /\ ProbeIdle /\ RangeIdle /\ PrivIdle
     /\ changes = "idle" /\ said = "idle"

\* What the functions do not touch.
ProbeAlone  == fn = "probe" /\ UNCHANGED <<fn, rangeOnly, privOnly, configOnly>>
RangeAlone  == fn = "range" /\ UNCHANGED <<fn, pc, ret, changes, probeOnly, privOnly, configOnly>>
PrivAlone   == fn = "priv" /\ UNCHANGED <<fn, said, probeOnly, rangeOnly, configOnly>>
ConfigAlone == fn = "config" /\ UNCHANGED <<fn, changes, said, probeOnly, rangeOnly, privOnly>>

Next ==
  \/ ProbeAlone /\ Probe!Next
  \/ RangeAlone /\ Ranges!Next
  \/ PrivAlone /\ Priv!Next
  \/ ConfigAlone /\ Config!Next

\* The fairness of IwProbe and of IwPriv.
Running == (ProbeAlone /\ Probe!Probe) \/ (PrivAlone /\ Priv!Caller)

Spec == Init /\ [][Next]_vars /\ WF_vars(Running)

-----------------------------------------------------------------------------
(* The properties of the four modules, each of its own behaviours *)

\* Every variable of the function that runs stays in its range: the lines of the
\* probe, the bytes of the range, the array of the requests, the configuration's mode.
TypeOK ==
  CASE fn = "probe"  -> Probe!TypeOK
    [] fn = "range"  -> Ranges!TypeOK
    [] fn = "priv"   -> Priv!TypeOK
    [] fn = "config" -> Config!TypeOK

\* IwProbe: a device that stays as it was is reported once, as what it is, whatever
\* the others do (iwlib.c:385-423).
OneReportEach == fn = "probe" => Probe!OneReportEach

\* IwProbe: every way out closes the socket and the list (iwlib.c:437-459).
Balanced == fn = "probe" => Probe!Balanced

\* IwRange: each member a driver fills arrives in the member of the same name, whole,
\* whatever the driver's version (iwlib.c:497-541).
FieldsArrive == fn = "range" => Ranges!FieldsArrive

\* IwRange: all that is ever said is said of the first driver (iwlib.c:546-581).
OneComplaint == fn = "range" => Ranges!OneComplaint

\* IwPriv: the array grows until the table fits, or nothing is left behind
\* (iwlib.c:603-654).
Satisfied == fn = "priv" => Priv!Satisfied

\* IwConfig: what was read can be written back, however many other settings are
\* refused (iwlib.c:741-859).
Restored == fn = "config" => Config!Restored

\* IwConfig: the network is looked for with all the settings in place (iwlib.c:835-839).
JoinsLast == fn = "config" => Config!JoinsLast

\* The probe and the reading of private requests end, whatever devices and drivers do
\* meanwhile (iwlib.c:257-283, 608-646).
Termination == fn \in {"probe", "priv"} => <>(pc = "done")

-----------------------------------------------------------------------------
(* The instances *)

\* The probe: no file, WE-11 and WE-22.
SomeHeaders == {<<>>, <<"", <<>>>>, <<"WE", <<22>>>>}

\* The range: drivers of every generation of the structs.
Driver(compiled, source) == [compiled |-> compiled, source |-> source]

Generations ==
  {Driver(10, 0), Driver(11, 11), Driver(15, 10), Driver(15, 16), Driver(16, 16),
   Driver(18, 18), Driver(21, 22), Driver(22, 22), Driver(23, 20),
   Driver(23, 24)}

\* The private requests: tables at the boundaries of the array's sizes.
Boundaries == {0, 1, 16, 17, 32, 33, 512, 513, 999, 1000, 1024, 2000}

\* The configuration: five states of a device with two keys.  The numbers of
\* iw_float2freq are scaled to 4 and 2: five digits and more lose all but three.
\* fixed says of the frequency and of the network id whether they are.
Device(mode, freq, keys, index, enabled, hidden, nwid, essid, on, tells, fixed) ==
  [mode |-> mode, freq |-> freq, keys |-> keys, index |-> index, enabled |-> enabled,
   hidden |-> hidden, nwid |-> nwid, essid |-> essid, on |-> on, tells |-> tells,
   fixedFreq |-> fixed[1], fixedNwid |-> fixed[2]]

\* Managed on a channel of 1000 * 10^3; ad-hoc on one of 241 * 10^4, its keys hidden;
\* a mode this program does not know, on channel 6, with a key it does not have;
\* two drivers that do not tell the current key, on the largest channel without an
\* exponent and on none.
SomeSettings ==
  {Device(2, <<1000, 3>>, <<"k1", "k2">>, 1, TRUE, FALSE, 7, <<"a", "b">>, 1, TRUE,
          <<TRUE, TRUE>>),
   Device(1, <<241, 4>>, <<"k3", "k4">>, 2, TRUE, TRUE, 0, <<>>, 0, TRUE,
          <<FALSE, FALSE>>),
   Device(9, <<6, 0>>, <<"k5", "">>, 2, FALSE, FALSE, 5, <<"a">>, 1, TRUE,
          <<FALSE, TRUE>>),
   Device(0, <<99999, 0>>, <<"", "k6">>, 2, FALSE, FALSE, 5, <<"c">>, 2, FALSE,
          <<TRUE, FALSE>>),
   Device(3, <<0, 0>>, <<"", "">>, 1, FALSE, FALSE, 0, <<"c">>, 0, FALSE,
          <<FALSE, FALSE>>)}

AllRequests == {"NWID", "FREQ", "ENCODE", "ESSID", "MODE"}
SomeSupports == {AllRequests, AllRequests \ {"NWID"}, {"FREQ", "MODE"}, {}}
=============================================================================
