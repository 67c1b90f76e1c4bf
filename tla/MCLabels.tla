-------------------------------- MODULE MCLabels -------------------------------
(***************************************************************************)
(* Texts of up to three words, of up to two characters each; only the first *)
(* may be empty.                                                            *)
(***************************************************************************)
EXTENDS Labels

WordsOf(alphabet, n) == UNION {[1 .. k -> alphabet] : k \in 1 .. n}

TextsOf(alphabet) ==
  {<<>>} \cup UNION {[1 .. k -> WordsOf(alphabet, 2)] : k \in 1 .. 2}
  \cup {<<v, w>> : v \in {<<>>}, w \in WordsOf(alphabet, 2)}
  \cup [1 .. 3 -> WordsOf(alphabet, 1)]

SomeTexts(escaped) == TextsOf({"1", "\\", " "} \cup IF escaped THEN {":"} ELSE {})
SomeSeps == {<<":">>, <<":", ";">>, <<";", ":", ":">>}
==============================================================================
