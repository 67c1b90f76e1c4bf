-------------------------------- MODULE IwRange --------------------------------
(***************************************************************************)
(* iw_get_range_info of iwlib.c: the range of a driver, in the layout of    *)
(* the wireless extensions up to 15 or of the later ones, brought into one  *)
(* struct iw_range, and what is said of its version.                        *)
(***************************************************************************)
EXTENDS Integers, Sequences

CONSTANTS
  Old, New,   \* the layouts of iw15_range and iw_range: members to <<offset, size>>
  Drivers,    \* records [compiled, source]: what a driver was built for
  MaxCalls    \* bound on the calls

WeMaxVersion == 22

\* sizeof of the two structs.
Size15 == Old["avg_qual"][1] + Old["avg_qual"][2]
SizeOf == New["bitrate_capa"][1] + New["bitrate_capa"][2]

iwr15_off(f) == Old[f][1]
iwr_off(f)   == New[f][1]

-----------------------------------------------------------------------------
(* The drivers: a byte is <<member, its place in it>>, of a version member   *)
(* <<member, the version>>; Zero is a byte that nobody wrote.                *)

Zero == <<"", 0>>

\* The layout a driver uses, and how many bytes of it: versions up to 10 had no
\* version, 11 no average quality, 17 no encryption, 21 no power saving.
Layout(d) == IF d.compiled <= 15 THEN Old ELSE New

Length(d) ==
  CASE d.compiled <= 10 -> Old["we_version_compiled"][1]
    [] d.compiled = 11 -> Old["avg_qual"][1]
    [] d.compiled \in 12 .. 15 -> Size15
    [] d.compiled \in 16 .. 17 -> New["enc_capa"][1]
    [] d.compiled \in 18 .. 21 -> New["min_pms"][1]
    [] d.compiled \in 22 .. 255 -> SizeOf

Written(d, f, j) ==
  CASE f = "we_version_compiled" -> <<f, d.compiled>>
    [] f = "we_version_source" -> <<f, d.source>>
    [] OTHER -> <<f, j>>

\* The buffer, cleared, after the driver wrote to it.
ByteOf(d, at) ==
  LET here == {f \in DOMAIN Layout(d) : Layout(d)[f][1] <= at /\ at < Layout(d)[f][1] + Layout(d)[f][2]}
  IN  IF at >= Length(d) \/ here = {} THEN Zero
      ELSE LET f == CHOOSE f \in here : TRUE IN Written(d, f, at - Layout(d)[f][1])

-----------------------------------------------------------------------------
(* iw_get_range_info *)

VARIABLES
  range,            \* the caller's struct: its bytes
  iwIgnoreVersion,  \* iw_ignore_version
  said,             \* the warnings printed so far, <<driver, warning>>
  got,              \* <<the driver>> that range is from, for the properties
  first,            \* <<the driver>> of the first call that succeeded, for the properties
  calls

vars == <<range, iwIgnoreVersion, said, got, first, calls>>

Init ==
  /\ range = [at \in 0 .. SizeOf - 1 |-> Zero]
  /\ iwIgnoreVersion = FALSE
  /\ said = <<>> /\ got = <<>> /\ first = <<>> /\ calls = 0

\* Less than 300 bytes have no version: a guess is put where the later layout has it.
Guessed(d, at) ==
  IF Length(d) < 300 /\ at = iwr_off("we_version_compiled")
  THEN <<"we_version_compiled", 9>> ELSE ByteOf(d, at)

\* The copies of the old layout: <<first member, first member of the next copy>>.
Blocks == <<<<"num_channels", "sensitivity">>, <<"sensitivity", "num_bitrates">>,
            <<"num_bitrates", "min_rts">>, <<"min_rts", "txpower_capa">>,
            <<"txpower_capa", "txpower">>, <<"txpower", "avg_qual">>>>

MUT_Copies ==
  <<<<0, 0, iwr15_off("num_channels")>>>>
  \o [k \in DOMAIN Blocks |-> <<iwr_off(Blocks[k][1]), iwr15_off(Blocks[k][1]),
                                 iwr15_off(Blocks[k][2]) - iwr15_off(Blocks[k][1])>>]

\* Every memcpy as <<to, from, length>>.
Copies ==
  <<<<0, 0, iwr15_off("num_channels")>>>>
  \o [k \in DOMAIN Blocks |-> <<iwr_off(Blocks[k][1]), iwr15_off(Blocks[k][1]),
                                 iwr15_off(Blocks[k][2]) - iwr15_off(Blocks[k][1])>>]
  \o <<<<iwr_off("avg_qual"), iwr15_off("avg_qual"), 4>>>>

Covers(copy, at) == copy[1] <= at /\ at < copy[1] + copy[3]

\* The native layout is copied as a whole, the old one member by member.
Converted(d) ==
  IF Guessed(d, iwr_off("we_version_compiled"))[2] > 15
  THEN [at \in 0 .. SizeOf - 1 |-> Guessed(d, at)]
  ELSE LET copies == Copies IN
       [at \in 0 .. SizeOf - 1 |->
          LET covering == {k \in DOMAIN copies : Covers(copies[k], at)}
              last == CHOOSE k \in covering : \A l \in covering : l <= k
          IN  IF covering = {} THEN Zero ELSE Guessed(d, copies[last][2] + at - copies[last][1])]

Version(r, f) == IF r[iwr_off(f)][1] = f THEN r[iwr_off(f)][2] ELSE 0

Warnings(r) ==
  LET compiled == Version(r, "we_version_compiled")
      source == Version(r, "we_version_source")
  IN  (IF compiled <= 10 THEN <<"ancient">> ELSE <<>>)
      \o (IF compiled > WeMaxVersion THEN <<"future">> ELSE <<>>)
      \o (IF compiled > 10 /\ compiled < source THEN <<"recommends">> ELSE <<>>)

MUT_GetRangeInfo(d) ==
  /\ range' = Converted(d)
  /\ said' = said \o IF iwIgnoreVersion THEN <<>>
                     ELSE [k \in DOMAIN Warnings(range') |-> <<d, Warnings(range')[k]>>]
  /\ iwIgnoreVersion' = (Warnings(range') = <<>>)
  /\ got' = <<d>>
  /\ first' = IF first = <<>> THEN <<d>> ELSE first

GetRangeInfo(d) ==
  /\ range' = Converted(d)
  /\ said' = said \o IF iwIgnoreVersion THEN <<>>
                     ELSE [k \in DOMAIN Warnings(range') |-> <<d, Warnings(range')[k]>>]
  /\ iwIgnoreVersion' = TRUE
  /\ got' = <<d>>
  /\ first' = IF first = <<>> THEN <<d>> ELSE first

\* A driver that refuses leaves the caller's struct and the flag as they were.
Refused == UNCHANGED <<range, iwIgnoreVersion, said, got, first>>

Next ==
  /\ calls < MaxCalls
  /\ calls' = calls + 1
  /\ \/ \E d \in Drivers : GetRangeInfo(d)
     \/ Refused

Spec == Init /\ [][Next]_vars

-----------------------------------------------------------------------------
(* Properties *)

\* The struct is filled from end to end, with bytes of members.
TypeOK ==
  /\ DOMAIN range = 0 .. SizeOf - 1
  /\ \A at \in DOMAIN range : range[at][1] \in DOMAIN New \cup {""}
  /\ iwIgnoreVersion \in BOOLEAN /\ got \in {<<>>} \cup {<<d>> : d \in Drivers}

\* How many bytes of member f the driver wrote.
Known(d, f) ==
  IF f \notin DOMAIN Layout(d) \/ Layout(d)[f][1] >= Length(d) THEN 0 ELSE Layout(d)[f][2]

\* Whatever the driver's version, each of its members arrives, whole, in the
\* member of the same name, and members it does not have are zero; only the
\* version of a driver that has none is guessed (iwlib.c:497-541).
FieldsArrive ==
  \A d \in {got[k] : k \in DOMAIN got}, f \in DOMAIN New : \A j \in 0 .. New[f][2] - 1 :
    range[iwr_off(f) + j] =
      CASE f = "we_version_compiled" /\ d.compiled <= 10 -> <<f, 9>>
        [] j < Known(d, f) -> Written(d, f, j)
        [] OTHER -> Zero

\* "Don't complain twice": all that is ever said is said of the first driver that
\* answers, and a version this program cannot cope with does not go unnoticed
\* there (iwlib.c:546-581).
OneComplaint ==
  /\ \A j, k \in DOMAIN said : said[j][1] = first[1] /\ (said[j] = said[k] => j = k)
  /\ \A d \in {first[k] : k \in DOMAIN first} :
       (said # <<>>) <=> (d.compiled \notin 11 .. WeMaxVersion \/ d.source > d.compiled)
==============================================================================
