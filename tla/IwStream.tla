-------------------------------- MODULE IwStream -------------------------------
(***************************************************************************)
(* The decoder of wireless event streams (iwlib.c, "event subroutines").   *)
(*                                                                         *)
(* A stream is a sequence of bytes.  A byte that starts a field is a triple *)
(* that says which field it is; the bytes after it are Rest.  An offset p   *)
(* of the code is the number of bytes before it, so the byte it points at   *)
(* is data[p + 1].  The offset 0 is the NULL of stream->value: no value     *)
(* lies at the start of a stream.                                           *)
(***************************************************************************)
EXTENDS Integers, Sequences

CONSTANTS
  Word,       \* the bytes of a pointer in the build of the program
  WeVersions, \* the versions of the wireless extensions there may be
  Lead        \* the number that the first two bytes of a payload make

ASSUME WordAssumption == Word \in {4, 8}
ASSUME LeadAssumption == Lead \in 0 .. 65535
ASSUME VersionAssumption == WeVersions \subseteq Nat

VARIABLES
  data,     \* the bytes of the stream, up to stream->end
  current,  \* stream->current
  value,    \* stream->value
  iwe,      \* the last event extracted
  ret,      \* what iw_extract_event_stream returned, 1 before its first call
  weVersion \* we_version, which the caller passes

streamVars == <<data, current, value, iwe, ret, weVersion>>

Rest == <<"rest", 0, 0>>
Pad  == <<"pad", 0, 0>>
Outside == <<"outside", 0, 0>>
ByteAt(p) == IF p < Len(data) THEN data[p + 1] ELSE Outside

\* A 16-bit number read at p: a length, or what a payload happens to begin with.
U16At(p) ==
  CASE ByteAt(p)[1] = "point"   -> ByteAt(p)[2]
    [] ByteAt(p)[1] = "payload" -> Lead
    [] OTHER -> 0

-----------------------------------------------------------------------------
(* The descriptors *)

\* Every command is a pair: what it does and its name.
AddrNames  == {<<"SIW", "AP">>, <<"GIW", "AP">>, <<"IWEV", "TXDROP">>,
               <<"IWEV", "REGISTERED">>, <<"IWEV", "EXPIRED">>}
ParamNames == {"NWID", "SENS", "RATE", "RTS", "FRAG", "TXPOW", "RETRY", "POWER",
               "MODUL", "AUTH"}

\* The number of tokens of the commands with a payload, <<size, min, max>>;
\* a max of 0 stands for IW_DESCR_FLAG_NOMAX.
RequestTokens(cmd) ==
  CASE cmd[2] \in {"ESSID", "NICKN"} -> <<1, 0, 33>>
    [] cmd[2] = "ENCODE"      -> <<1, 0, 64>>
    [] cmd[2] = "GENIE"       -> <<1, 0, 1024>>
    [] cmd[2] = "ENCODEEXT"   -> <<1, 40, 104>>
    [] cmd[2] = "THRSPY"      -> <<28, 1, 1>>
    [] cmd = <<"SIW", "SPY">> -> <<16, 0, 8>>
    [] cmd = <<"GIW", "SPY">> -> <<20, 0, 8>>
    [] cmd = <<"GIW", "RANGE">>  -> <<1, 0, 588>>
    [] cmd = <<"GIW", "APLIST">> -> <<20, 0, 0>>
    [] cmd = <<"GIW", "SCAN">>   -> <<1, 0, 0>>
    [] cmd = <<"SIW", "SCAN">>   -> <<1, 0, 316>>
    [] cmd = <<"SIW", "MLME">>   -> <<1, 20, 20>>
    [] cmd = <<"SIW", "PMKSA">>  -> <<1, 36, 36>>
    [] OTHER -> <<0, 0, 0>>

EventTokens(cmd) ==
  CASE cmd[2] = "CUSTOM" -> <<1, 0, 256>>
    [] cmd[2] \in {"GENIE", "ASSOCREQIE", "ASSOCRESPIE"} -> <<1, 0, 1024>>
    [] cmd[2] = "MICHAELMICFAILURE" -> <<1, 0, 28>>
    [] cmd[2] = "PMKIDCAND" -> <<1, 0, 24>>
    [] OTHER -> <<0, 0, 0>>

Tokens(cmd) == IF cmd[1] = "IWEV" THEN EventTokens(cmd) ELSE RequestTokens(cmd)
TokenLen(cmd, n) == n * Tokens(cmd)[1]
TooMany(cmd, n)  == Tokens(cmd)[3] # 0 /\ n > Tokens(cmd)[3]
TooFew(cmd, n)   == n < Tokens(cmd)[2]

\* A command no table knows has the type NULL, as the requests without data.
HeaderType(cmd) ==
  CASE Tokens(cmd)[1] > 0  -> "POINT"
    [] cmd \in AddrNames   -> "ADDR"
    [] cmd[1] # "IWEV" /\ cmd[2] \in ParamNames -> "PARAM"
    [] cmd[1] # "IWEV" /\ cmd[2] = "FREQ" -> "FREQ"
    [] cmd[1] # "IWEV" /\ cmd[2] = "MODE" -> "UINT"
    [] cmd = <<"GIW", "NAME">>  -> "CHAR"
    [] cmd = <<"IWEV", "QUAL">> -> "QUAL"
    [] OTHER -> "NULL"

IW_EV_LCP_PK_LEN == 4
IW_EV_LCP_LEN    == Word

\* The sizes of the types of wireless.h, which suppress those of iwlib.h.
TypeSize == [NULL  |-> IW_EV_LCP_PK_LEN,     CHAR  |-> IW_EV_LCP_PK_LEN + 16,
             UINT  |-> IW_EV_LCP_PK_LEN + 4, FREQ  |-> IW_EV_LCP_PK_LEN + 8,
             ADDR  |-> IW_EV_LCP_PK_LEN + 16, PARAM |-> IW_EV_LCP_PK_LEN + 8,
             QUAL  |-> IW_EV_LCP_PK_LEN + 4, POINT |-> IW_EV_LCP_LEN + 4]

\* Before version 19 the pointer is in the stream.
PointOff == IF weVersion <= 18 THEN Word ELSE 0

\* event_len, without the header
FixedLen(cmd) ==
  TypeSize[HeaderType(cmd)] - IW_EV_LCP_PK_LEN
    + (IF HeaderType(cmd) = "POINT" THEN PointOff ELSE 0)
-----------------------------------------------------------------------------
(* How drivers write a stream: an event has a command, the number n of its  *)
(* values, of the tokens of its payload or, when no table knows it, of its  *)
(* bytes, and num: the number of tokens its payload claims to have, or the  *)
(* number in its value.  A 64-bit kernel pads the header and the length to  *)
(* 8 bytes.                                                                 *)

Field(first, n) == [k \in 1..n |-> IF k = 1 THEN first ELSE Rest]
Padding(layout) == IF layout = "padded" THEN Field(Pad, 4) ELSE <<>>

\* The builds of the program that meet a layout: a 64-bit program has a 64-bit
\* kernel, and the padding came after the pointer had left the stream.
Layouts == {l \in {"packed", "padded"} : IF l = "packed" THEN Word = 4 ELSE weVersion > 18}

\* The values of event i, one after another.
Values(i, n, size) ==
  [b \in 1..(n * size) |-> IF (b - 1) % size = 0
                            THEN <<"value", i, ((b - 1) \div size) + 1>> ELSE Rest]

Body(i, e, layout) ==
  CASE HeaderType(e.cmd) = "POINT" ->
         Field(Rest, PointOff) \o Field(<<"point", e.num, i>>, 4) \o Padding(layout)
           \o Field(<<"payload", i, e.n>>, TokenLen(e.cmd, e.n))
    [] HeaderType(e.cmd) = "NULL" -> Field(Rest, e.n)
    [] OTHER -> Values(i, e.n, FixedLen(e.cmd))

EventBytes(i, e, layout) ==
  LET body == Padding(layout) \o Body(i, e, layout)
  IN Field(<<"header", IW_EV_LCP_PK_LEN + Len(body), e.cmd>>, IW_EV_LCP_PK_LEN) \o body

Encode(list, layout) ==
  LET upTo[i \in 0..Len(list)] ==
        IF i = 0 THEN <<>> ELSE upTo[i - 1] \o EventBytes(i, list[i], layout)
  IN upTo[Len(list)]

\* A payload a caller has room for.
PayloadKept(e) == e.n > 0 /\ ~TooMany(e.cmd, e.n) /\ ~TooFew(e.cmd, e.n)

\* An event with the values or the tokens it announces.  Drivers put a number of 4 bytes
\* and a quality alone in their event: the decoder takes two of them for one that is
\* padded (iwlib.c:2877-2885).
ProperEvent(e) ==
  /\ HeaderType(e.cmd) = "POINT" => e.num = e.n
  /\ HeaderType(e.cmd) # "POINT" => e.n > 0
  /\ HeaderType(e.cmd) \in {"UINT", "QUAL"} => e.n <= 1

-----------------------------------------------------------------------------
(* iw_extract_event_stream *)

NoEvent == [cmd |-> <<"", "">>, at |-> 0, length |-> 0]

\* iw_init_event_stream
InitStream(bytes) ==
  /\ data = bytes
  /\ current = 0
  /\ value = 0
  /\ iwe = NoEvent
  /\ ret = 1

Header  == ByteAt(current)
EvLen   == Header[2]
Cmd     == Header[3]
Pointer == IF value # 0 THEN value ELSE current + IW_EV_LCP_PK_LEN
HasHeader == current + IW_EV_LCP_PK_LEN <= Len(data)
KnownEvent == HasHeader /\ EvLen > IW_EV_LCP_PK_LEN /\ FixedLen(Cmd) > 0
ValueFits == Pointer + FixedLen(Cmd) <= Len(data)

Return(r) == ret' = r /\ UNCHANGED <<data, weVersion>>

EndOfStream ==
  /\ ~HasHeader
  /\ Return(0)
  /\ UNCHANGED <<current, value, iwe>>

\* The header is copied to the event even when it is refused.
InvalidEvent ==
  /\ HasHeader /\ EvLen <= IW_EV_LCP_PK_LEN
  /\ iwe' = [iwe EXCEPT !.cmd = Cmd]
  /\ Return(-1)
  /\ UNCHANGED <<current, value>>

MUT_UnknownEvent ==
  /\ HasHeader /\ EvLen > IW_EV_LCP_PK_LEN /\ FixedLen(Cmd) = 0
  /\ iwe' = [iwe EXCEPT !.cmd = Cmd]
  /\ Return(2)
  /\ UNCHANGED <<current, value>>

UnknownEvent ==
  /\ HasHeader /\ EvLen > IW_EV_LCP_PK_LEN /\ FixedLen(Cmd) = 0
  /\ iwe' = [iwe EXCEPT !.cmd = Cmd]
  /\ current' = current + EvLen
  /\ Return(2)
  /\ UNCHANGED value

TruncatedEvent ==
  /\ KnownEvent /\ ~ValueFits
  /\ iwe' = [iwe EXCEPT !.cmd = Cmd]
  /\ current' = current + EvLen
  /\ Return(-2)
  /\ UNCHANGED value

MUT_PointPadded_Eager(extra) == extra >= 4

\* A payload: the length and flags are read after the header, or 4 bytes later
\* when only that reading agrees with the length of the event.
PointPadded(extra) ==
  /\ TokenLen(Cmd, U16At(Pointer + PointOff)) # extra
  /\ extra >= 4
  /\ TokenLen(Cmd, U16At(Pointer + FixedLen(Cmd))) + 8 = extra

MUT_Discarded(n, tokenLen, extra) == TooMany(Cmd, n) \/ TooFew(Cmd, n)

\* extra_len is unsigned: of an event shorter than its fixed part it is longer than any
\* payload.
Discarded(n, tokenLen, extra) ==
  (extra >= 0 /\ tokenLen > extra) \/ TooMany(Cmd, n) \/ TooFew(Cmd, n)

PointEvent ==
  LET fixed  == FixedLen(Cmd)
      extra  == EvLen - (fixed + IW_EV_LCP_PK_LEN)
      padded == extra # 0 /\ PointPadded(extra)
      from   == IF padded THEN Pointer + 4 ELSE Pointer
      \* the second reading takes its first bytes for the length, whatever the version
      n      == U16At(IF padded THEN from ELSE from + PointOff)
      \* token_len of the second reading comes from where the first one ended
      tokenLen == TokenLen(Cmd, IF padded THEN U16At(Pointer + fixed) ELSE n)
      payload  == IF padded THEN from + fixed + 4 ELSE from + fixed
  IN /\ KnownEvent /\ ValueFits /\ HeaderType(Cmd) = "POINT"
     /\ iwe' = [cmd |-> Cmd, length |-> n,
                at |-> IF extra = 0 \/ Discarded(n, tokenLen, extra)
                       THEN 0 ELSE payload]
     /\ current' = current + EvLen
     /\ Return(1)
     /\ UNCHANGED value

\* Values: the first one may be 4 bytes further on.
MUT_ValuePadded ==
  value = 0 /\ (EvLen - IW_EV_LCP_PK_LEN) % FixedLen(Cmd) = 4
ValuePadded ==
  /\ value = 0
  /\ \/ (EvLen - IW_EV_LCP_PK_LEN) % FixedLen(Cmd) = 4
     \/ EvLen = 12 /\ HeaderType(Cmd) \in {"UINT", "QUAL"}

MoreValues(next) == next + FixedLen(Cmd) <= current + EvLen

ValueEvent ==
  LET from == IF ValuePadded THEN Pointer + 4 ELSE Pointer
      next == from + FixedLen(Cmd)
  IN /\ KnownEvent /\ ValueFits /\ HeaderType(Cmd) # "POINT"
     /\ iwe' = [cmd |-> Cmd, at |-> from, length |-> 0]
     /\ IF MoreValues(next)
        THEN value' = next /\ UNCHANGED current
        ELSE value' = 0 /\ current' = current + EvLen
     /\ Return(1)

Extract == \/ EndOfStream \/ InvalidEvent \/ UnknownEvent \/ TruncatedEvent
           \/ PointEvent \/ ValueEvent
==============================================================================
