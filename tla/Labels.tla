---------------------------------- MODULE Labels -------------------------------
(***************************************************************************)
(* The reader of numbered lines that the legacy program is built on         *)
(* (get_interrupt_counter): tokens are split off a text, and each is made a *)
(* number or, when that throws, passed over.  The rest of a line, which     *)
(* ignore_line drops, counts as separators here.                            *)
(***************************************************************************)
EXTENDS MoreText, LexicalCast

VARIABLE numbers   \* the outcomes of the tokens' conversions

vars == <<textVars, castVars, numbers>>

Init == InitText /\ InitCast /\ numbers = <<>>

\* Each token is converted before the next is read.
Pending == Len(numbers) < Len(tokens)

NextToken ==
  /\ ~Pending /\ Getline
  /\ UNCHANGED <<castVars, numbers>>

CastToken ==
  /\ Pending /\ Call(Last(tokens))
  /\ UNCHANGED <<textVars, numbers>>

GoOn ==
  /\ Pending /\ Convert
  /\ numbers' = IF pc' = "call" THEN Append(numbers, outcome') ELSE numbers
  /\ UNCHANGED textVars

Next == NextToken \/ CastToken \/ GoOn

Spec == Init /\ [][Next]_vars

-----------------------------------------------------------------------------
(* Properties *)

\* "split a string into a container": the tokens of a text are the words it was joined
\* from, whatever separators stand between and after them, and escaped separators
\* and backslashes in them (string-utils.hpp:47-160).
TokensAreWords == loop = "done" => tokens = words

\* Trimming a copy and trimming in place leave the same text, but for a text of
\* nothing but white space, which a copy trimmed at its left side keeps
\* (string-utils.hpp:188-246).
TrimsAgree ==
  \A k \in DOMAIN tokens, lr \in Sides :
    trimmed[k][lr] = IF lr = "left" /\ RightTrim(tokens[k]) = <<>>
                     THEN tokens[k] ELSE TrimInPlace(tokens[k], lr)

\* What a stream that was never used would make of a text: a number of digits alone,
\* with white space around it at most.
Fresh(a) ==
  LET word == Reverse(Stripped(Reverse(Stripped(a))))
  IN  IF word # <<>> /\ \A k \in DOMAIN word : word[k] \in Digits
      THEN <<"returned", word>> ELSE <<"thrown", <<>>>>

\* A label is converted as if it were the only one: what the labels before it left in
\* the stream, the ones that are no numbers above all, does not reach it, and no label
\* is taken twice or passed over (lexical_cast.hpp:53-64, interrupt.cpp:39-57).
LabelsConverted ==
  /\ numbers = [k \in DOMAIN numbers |-> Fresh(tokens[k])]
  /\ loop = "done" => numbers = [k \in DOMAIN words |-> Fresh(words[k])]
==============================================================================
