-------------------------------- MODULE IwConfig -------------------------------
(***************************************************************************)
(* iw_get_basic_config and iw_set_basic_config of iwlib.c: the settings of  *)
(* a wireless device are read, one request after the other, and written     *)
(* back later, with a driver that may refuse any request, keeps several     *)
(* keys and forgets its frequency when its mode is set.                     *)
(***************************************************************************)
EXTENDS Integers, Sequences, FiniteSets, SequencesExt

CONSTANTS
  Settings,    \* the states a driver may be in
  Supports,    \* the sets of requests a driver may support
  Top, Keep,   \* iw_float2freq: 8 and 6 in the code
  MaxFaults,   \* bound on the refused requests
  MaxMeddling  \* bound on what other processes do meanwhile

\* The modes of this program are 0 .. 6; 7 is its name for any other.
IW_NUM_OPER_MODE == 7

VARIABLES
  drv,        \* the driver: its settings
  joined,     \* the driver: <<the settings>> with which it looked for a network
  supports,   \* the driver: the requests it answers
  weVersion,  \* the kernel: its wireless extensions
  readable,   \* the kernel: whether /proc/net/wireless can be read
  info,       \* the wireless_config
  pc,         \* "get", "between", "set" or "done"
  step,       \* the next request of that phase, 0 for SIOCGIWNAME
  ret,
  refused,    \* the requests to set something that failed
  saved,      \* the settings at the end of the get, for the properties
  before,     \* the settings at the start of the set, for the properties
  meddled     \* changes by other processes

kernelVars == <<supports, weVersion, readable>>
historyVars == <<saved, before, meddled>>
vars == <<drv, joined, kernelVars, info, pc, step, ret, refused, historyVars>>

\* memset of the wireless_config; "has" is the set of its has_ flags.
Unset == [has |-> {}, nwid |-> 0, fixedNwid |-> FALSE, freq |-> 0, fixedFreq |-> FALSE,
          key |-> "", index |-> 0, enabled |-> FALSE, nokey |-> FALSE, essid |-> <<>>, on |-> 0,
          mode |-> 0]

Init ==
  /\ drv \in Settings /\ joined = <<>> /\ supports \in Supports
  /\ weVersion \in {18, 22} /\ readable \in BOOLEAN
  /\ info = Unset /\ pc = "get" /\ step = 0 /\ ret = 0 /\ refused = {}
  /\ saved = drv /\ before = drv /\ meddled = 0

-----------------------------------------------------------------------------
(* The driver: records [mode, freq, fixedFreq, keys, index, enabled, hidden, *)
(* nwid, fixedNwid, essid, on, tells].  freq is <<mantissa, exponent>>, nwid *)
(* all of the network id but whether it is fixed; it and the frequency are   *)
(* fixed or left to the driver.  keys has the keys of all indices, which the *)
(* driver may hide from who asks; it may not tell which index is current.    *)

\* Kernels before version 21 take the last byte of a name for its NUL; later
\* ones drop a NUL that is there.
NameGiven(s) ==
  IF s # <<>> /\ (weVersion < 21 \/ Last(s) = "NUL") THEN Front(s) ELSE s

\* What a request to set something, with argument a, makes of the settings d.
Written(d, request, a) ==
  CASE request = "MODE"   -> [d EXCEPT !.mode = a, !.freq = <<0, 0>>]
    [] request = "FREQ"   -> [d EXCEPT !.freq = a.freq, !.fixedFreq = a.fixed]
    [] request = "INDEX"  -> [d EXCEPT !.index = a]
    [] request = "ENCODE" -> [d EXCEPT !.keys[d.index] = IF a.pointer = "NULL" THEN @ ELSE a.pointer,
                                       !.enabled = a.enabled]
    [] request = "NWID"   -> [d EXCEPT !.nwid = a.nwid, !.fixedNwid = a.fixed]
    [] request = "ESSID"  -> [d EXCEPT !.essid = NameGiven(a.essid), !.on = a.on]

\* Another process configures the device.
Meddle ==
  /\ meddled < MaxMeddling /\ pc \in {"get", "set"}
  /\ drv' \in Settings \ {drv}
  /\ meddled' = meddled + 1
  /\ UNCHANGED <<joined, kernelVars, info, pc, step, ret, refused, saved, before>>

-----------------------------------------------------------------------------
(* Frequencies: iw_freq2float and iw_float2freq *)

Freq2Float(f) == f[1] * 10^f[2]

\* floor(log10(x)); of 0 it is minus infinity, which the build casts to 0.
FloorLog10(x) == IF x = 0 THEN 0 ELSE CHOOSE e \in 0 .. 9 : 10^e <= x /\ x \div 10^e < 10

Float2Freq(x) ==
  LET e == FloorLog10(x)
  IN  IF e > Top THEN <<(x \div 10^(e - Keep)) * 10^(Top - Keep), e - Top>> ELSE <<x, 0>>

-----------------------------------------------------------------------------
(* iw_get_basic_config *)

GetOrder == <<"NWID", "FREQ", "ENCODE", "ESSID", "MODE">>

MUT_ModeGot(m) == m

ModeGot(m) == IF m < IW_NUM_OPER_MODE THEN m ELSE IW_NUM_OPER_MODE

\* What the answer to a request puts into the wireless_config.
Got(request) ==
  CASE request = "NWID"   -> [info EXCEPT !.nwid = drv.nwid, !.fixedNwid = drv.fixedNwid]
    [] request = "FREQ"   -> [info EXCEPT !.freq = Freq2Float(drv.freq),
                                          !.fixedFreq = drv.fixedFreq]
    [] request = "ENCODE" ->
         [info EXCEPT !.key = IF drv.hidden THEN "" ELSE drv.keys[drv.index],
                      !.index = IF drv.tells THEN drv.index ELSE 0, !.enabled = drv.enabled,
                      !.nokey = drv.hidden \/ drv.keys[drv.index] = ""]
    [] request = "ESSID"  -> [info EXCEPT !.essid = drv.essid, !.on = drv.on]
    [] request = "MODE"   -> [info EXCEPT !.mode = ModeGot(drv.mode)]

\* A device without a name, or that is gone, has no wireless extensions.
NoName(error) ==
  /\ step = 0
  /\ pc' = "done" /\ ret' = error
  /\ UNCHANGED <<drv, joined, kernelVars, info, step, refused, historyVars>>

Name ==
  /\ step = 0
  /\ step' = 1
  /\ UNCHANGED <<drv, joined, kernelVars, info, pc, ret, refused, historyVars>>

\* A request that is not supported leaves its part of the structure unset.
Get ==
  /\ pc = "get" /\ step \in DOMAIN GetOrder
  /\ LET request == GetOrder[step] IN
       info' = IF request \in supports THEN [Got(request) EXCEPT !.has = @ \cup {request}] ELSE info
  /\ step' = step + 1
  /\ UNCHANGED <<drv, joined, kernelVars, pc, ret, refused, historyVars>>

GetEnds ==
  /\ pc = "get" /\ step > Len(GetOrder)
  /\ pc' = "between" /\ step' = 0
  /\ saved' = drv
  /\ UNCHANGED <<drv, joined, kernelVars, info, ret, refused, before, meddled>>

\* The card is reset, or used for something else, before the caller has its
\* settings written back.
Reset ==
  /\ pc = "between"
  /\ drv' \in Settings
  /\ before' = drv' /\ joined' = <<>>
  /\ pc' = "set"
  /\ UNCHANGED <<kernelVars, info, step, ret, refused, saved, meddled>>

-----------------------------------------------------------------------------
(* iw_set_basic_config *)

MUT_SetOrder == <<"FREQ", "MODE", "INDEX", "ENCODE", "NWID", "ESSID">>
MUT_SetOrder_Essid == <<"MODE", "FREQ", "ESSID", "INDEX", "ENCODE", "NWID">>

\* "Mode need to be first", "ESSID need to be last".
SetOrder == <<"MODE", "FREQ", "INDEX", "ENCODE", "NWID", "ESSID">>

Wanted(request) ==
  IF request = "INDEX" THEN "ENCODE" \in info.has /\ info.index > 0 ELSE request \in info.has

\* strlen of the name, and one more for kernels before version 21, or whose version
\* cannot be read.
NameSent ==
  LET n == SelectInSeq(info.essid, LAMBDA c : c = "NUL")
      name == IF n = 0 THEN info.essid ELSE SubSeq(info.essid, 1, n - 1)
  IN  IF readable /\ weVersion >= 21 THEN name ELSE Append(name, "NUL")

\* The arguments.  A frequency is given by mantissa and exponent alone: its flags are
\* whatever the requests before left in that byte of wrq, and those of info are not
\* looked at.  A network id is always fixed ("When in Rome...").  A key goes without its
\* index, and not at all if it was not seen.
Argument(request, left) ==
  CASE request = "MODE"   -> info.mode
    [] request = "FREQ"   -> [freq |-> Float2Freq(info.freq), fixed |-> left]
    [] request = "INDEX"  -> info.index
    [] request = "ENCODE" -> [pointer |-> IF info.nokey THEN "NULL" ELSE info.key,
                              enabled |-> info.enabled]
    [] request = "NWID"   -> [nwid |-> info.nwid, fixed |-> TRUE]
    [] request = "ESSID"  -> [essid |-> NameSent, on |-> info.on]

Skip ==
  /\ pc = "set" /\ step \in DOMAIN SetOrder /\ ~Wanted(SetOrder[step])
  /\ step' = step + 1
  /\ UNCHANGED <<drv, joined, kernelVars, info, pc, ret, refused, historyVars>>

Set ==
  /\ pc = "set" /\ step \in DOMAIN SetOrder /\ Wanted(SetOrder[step])
  /\ \E left \in BOOLEAN : drv' = Written(drv, SetOrder[step], Argument(SetOrder[step], left))
  /\ joined' = IF SetOrder[step] = "ESSID" THEN <<drv'>> ELSE joined
  /\ step' = step + 1
  /\ UNCHANGED <<kernelVars, info, pc, ret, refused, historyVars>>

\* A refusal is remembered, and the other settings are written all the same.
Refuse ==
  /\ pc = "set" /\ step \in DOMAIN SetOrder /\ Wanted(SetOrder[step])
  /\ Cardinality(refused) < MaxFaults
  /\ refused' = refused \cup {SetOrder[step]}
  /\ ret' = -1
  /\ step' = step + 1
  /\ UNCHANGED <<drv, joined, kernelVars, info, pc, historyVars>>

SetEnds ==
  /\ pc = "set" /\ step > Len(SetOrder)
  /\ pc' = "done"
  /\ UNCHANGED <<drv, joined, kernelVars, info, step, ret, refused, historyVars>>

Next ==
  \/ Meddle \/ Reset
  \/ pc \in {"get", "set"} /\ Name
  \/ pc = "get" /\ NoName(-1)
  \/ pc = "set" /\ NoName(-2)
  \/ Get \/ GetEnds
  \/ Skip \/ Set \/ Refuse \/ SetEnds

Spec == Init /\ [][Next]_vars

-----------------------------------------------------------------------------
(* Properties *)

\* The mode is one that iw_operation_mode has a name for, and no more is said to be
\* there than the driver supports.
TypeOK ==
  /\ info.mode \in 0 .. IW_NUM_OPER_MODE /\ info.has \subseteq supports
  /\ info.freq \in Nat /\ info.index \in {0} \cup DOMAIN drv.keys
  /\ ret \in {-2, -1, 0} /\ refused \subseteq {SetOrder[k] : k \in DOMAIN SetOrder}
  /\ step \in 0 .. 7

SetDone == pc = "done" /\ step > Len(SetOrder)

\* Setting "request" brought back what was saved; of the keys that is the current one,
\* and the others stay as they were.  A network id is fixed from then on, even if it was
\* not, and whether a frequency is fixed is not brought back.
Same(request) ==
  LET current == IF saved.tells THEN saved.index ELSE before.index IN
  CASE request = "MODE"   -> drv.mode = ModeGot(saved.mode)
    [] request = "FREQ"   -> Freq2Float(drv.freq) = Freq2Float(saved.freq)
    [] request = "ENCODE" ->
         /\ drv.index = current /\ drv.enabled = saved.enabled
         /\ \A k \in DOMAIN drv.keys :
              drv.keys[k] = IF k = current /\ ~saved.hidden /\ saved.keys[saved.index] # ""
                            THEN saved.keys[saved.index] ELSE before.keys[k]
    [] request = "NWID"   -> drv.nwid = saved.nwid /\ drv.fixedNwid
    [] request = "ESSID"  -> drv.essid = saved.essid /\ drv.on = saved.on

\* What was read can be written back: unless another process meddled, each setting whose
\* requests were accepted has the value it had when it was read, however many others
\* failed, and a failure is reported (iwlib.c:741-859).  A refused index takes the key
\* with it.  Only the value comes back: not what says of a frequency and a network id
\* whether they are fixed or the driver's choice.
Restored ==
  SetDone =>
    /\ ret = IF refused = {} THEN 0 ELSE -1
    /\ meddled = 0 =>
         \A request \in info.has :
           refused \cap (IF request = "ENCODE" THEN {"INDEX", "ENCODE"} ELSE {request}) = {}
             => Same(request)

\* "ESSID need to be last": the driver looks for a network with all the settings in
\* place, not with some of the old ones (iwlib.c:835-839).
JoinsLast == SetDone /\ meddled = 0 /\ joined # <<>> => joined[1] = drv
==============================================================================
