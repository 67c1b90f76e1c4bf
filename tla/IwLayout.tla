-------------------------------- MODULE IwLayout -------------------------------
(***************************************************************************)
(* The two layouts of a driver's range, that of the wireless extensions up  *)
(* to 15 and the later one: structs as sequences of members <<name,         *)
(* alignment, size>>, and where a compiler puts the members.                *)
(***************************************************************************)
EXTENDS Integers, Sequences, SequencesExt

Words(names)  == [k \in DOMAIN names |-> <<names[k], 4, 4>>]
Halves(names) == [k \in DOMAIN names |-> <<names[k], 2, 2>>]
Bytes(names)  == [k \in DOMAIN names |-> <<names[k], 1, 1>>]
Quality(name) == <<<<name, 1, 4>>>>
Array(name, width, n)  == <<<<name, width, width * n>>>>
Frequencies(n) == <<<<"freq", 4, 8 * n>>>>

Nwid  == Words(<<"throughput", "min_nwid", "max_nwid">>)
Power == Words(<<"min_rts", "max_rts", "min_frag", "max_frag", "min_pmp", "max_pmp",
                 "min_pmt", "max_pmt">>)
         \o Halves(<<"pmp_flags", "pmt_flags", "pm_capa">>)
         \o Array("encoding_size", 2, 8)
         \o Bytes(<<"num_encoding_sizes", "max_encoding_tokens">>)
TxPower == Halves(<<"txpower_capa">>) \o Bytes(<<"num_txpower">>) \o Array("txpower", 4, 8)
Retry == Bytes(<<"we_version_compiled", "we_version_source">>)
         \o Halves(<<"retry_capa", "retry_flags", "r_time_flags">>)
         \o Words(<<"min_retry", "max_retry", "min_r_time", "max_r_time">>)
Channels(n) == Halves(<<"num_channels">>) \o Bytes(<<"num_frequency">>) \o Frequencies(n)

iw15_range ==
  Nwid \o Channels(16) \o Words(<<"sensitivity">>) \o Quality("max_qual")
  \o Bytes(<<"num_bitrates">>) \o Array("bitrate", 4, 8)
  \o Power \o TxPower \o Retry \o Quality("avg_qual")

iw_range ==
  Nwid \o Halves(<<"old_num_channels">>) \o Bytes(<<"old_num_frequency">>)
  \o Array("event_capa", 4, 6) \o Words(<<"sensitivity">>)
  \o Quality("max_qual") \o Quality("avg_qual")
  \o Bytes(<<"num_bitrates">>) \o Array("bitrate", 4, 32)
  \o Power \o Bytes(<<"encoding_login_index">>) \o TxPower \o Retry \o Channels(32)
  \o Words(<<"enc_capa", "min_pms", "max_pms">>) \o Halves(<<"pms_flags">>)
  \o Words(<<"modul_capa", "bitrate_capa">>)

\* Where the members of a struct are, as the compiler lays them out: a function
\* from their names to <<offset, size>>.
Aligned(at, a) == ((at + a - 1) \div a) * a

Place(acc, m) ==
  LET at == Aligned(acc.at, m[2])
  IN  [at |-> at + m[3], of |-> [n \in DOMAIN acc.of \cup {m[1]} |->
                                   IF n = m[1] THEN <<at, m[3]>> ELSE acc.of[n]]]

LayoutOf(struct) == FoldLeft(Place, [at |-> 0, of |-> [n \in {} |-> <<0, 0>>]], struct).of

OldLayout == LayoutOf(iw15_range)
NewLayout == LayoutOf(iw_range)
==============================================================================
