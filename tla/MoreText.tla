--------------------------------- MODULE MoreText ------------------------------
(***************************************************************************)
(* more::getline with several separators and escapes, the split, join and   *)
(* token readers built on it, and the trimming of what they read, which is  *)
(* how the legacy program takes names and numbers out of /proc.  One action *)
(* per turn of getline's loops.                                             *)
(***************************************************************************)
EXTENDS Integers, Sequences, SequencesExt, FiniteSets

CONSTANTS
  Texts(_),   \* the lists of words that texts are made of, with or without escapes
  Seps,       \* the separators put between them, sequences of Delims
  Delims,     \* __delim
  Space       \* the white space, white_space::value

\* The byte that Traits::eof() is as a char.
Byte255 == "255"

\* A text can only be split into words that are all there to be found: just the first of
\* several may be empty, and without escapes none holds a separator.
ASSUME TextAssumption ==
  /\ Seps \subseteq Seq(Delims) \ {<<>>} /\ Delims \cap {"\\", Byte255} = {}
  /\ \A e \in BOOLEAN : \A ws \in Texts(e) :
       /\ ws \in Seq(Seq(STRING))
       /\ \A k \in DOMAIN ws :
            /\ ws[k] = <<>> => k = 1 /\ Len(ws) > 1
            /\ \A i \in DOMAIN ws[k] : ws[k][i] # Byte255 /\ (e \/ ws[k][i] \notin Delims)

VARIABLES
  words,      \* what the text is made of, for the properties
  escapes,    \* do_escape
  rest,       \* __in: what is left to read
  str,        \* __str
  esc,
  extracted,
  loop,       \* "token", "delims" or "done"
  tokens,     \* the tokens split has put out
  trimmed     \* what each becomes by a trim of either side, or of both

textVars == <<words, escapes, rest, str, esc, extracted, loop, tokens, trimmed>>

-----------------------------------------------------------------------------
(* The texts *)

\* more::join.
Join(ws, sep) ==
  FlattenSeq([k \in DOMAIN ws |-> IF k < Len(ws) THEN ws[k] \o sep ELSE ws[k]])

\* A word as the writer of an escaped text puts it: separators and backslashes have a
\* backslash before them, which may be left out where no escape could be meant.
Escaped(w, loose) ==
  FlattenSeq([k \in DOMAIN w |->
    IF w[k] \in Delims
       \/ (w[k] = "\\" /\ ~(loose /\ k < Len(w) /\ w[k + 1] \notin Delims \cup {"\\"}))
    THEN <<"\\", w[k]>> ELSE <<w[k]>>])

Sides == {"left", "right", "both"}

InitText ==
  /\ escapes \in BOOLEAN /\ words \in Texts(escapes)
  /\ \E sep \in Seps, tail \in Seps \cup {<<>>}, loose \in BOOLEAN :
       rest = Join([k \in DOMAIN words |-> IF escapes THEN Escaped(words[k], loose) ELSE words[k]], sep)
              \o (IF words = <<>> THEN <<>> ELSE tail)
  /\ str = <<>> /\ esc = FALSE /\ extracted = 0 /\ loop = "token"
  /\ tokens = <<>> /\ trimmed = <<>>

-----------------------------------------------------------------------------
(* more::getline, called by split until it fails *)

\* c, a char, compares equal to eof() at the end, and if it is the byte 255.
AtEnd == IF rest = <<>> THEN TRUE ELSE Head(rest) = Byte255

AtDelim == IF AtEnd THEN FALSE ELSE Head(rest) \in Delims

\* An escape, when it was not one.
Backslash ==
  /\ loop = "token" /\ ~AtEnd /\ escapes /\ ~esc /\ Head(rest) = "\\"
  /\ esc' = TRUE /\ rest' = Tail(rest)
  /\ UNCHANGED <<words, escapes, str, extracted, loop, tokens, trimmed>>

\* A backslash before another character is no escape.
Kept(c) == IF esc /\ c \notin Delims \cup {"\\"} THEN <<"\\", c>> ELSE <<c>>

Character ==
  /\ loop = "token" /\ ~AtEnd /\ (~AtDelim \/ esc)
  /\ ~(escapes /\ ~esc /\ Head(rest) = "\\")
  /\ str' = str \o Kept(Head(rest)) /\ extracted' = extracted + Len(Kept(Head(rest)))
  /\ esc' = FALSE /\ rest' = Tail(rest)
  /\ UNCHANGED <<words, escapes, loop, tokens, trimmed>>

TokenEnds ==
  /\ loop = "token" /\ (AtEnd \/ (AtDelim /\ ~esc))
  /\ loop' = "delims"
  /\ UNCHANGED <<words, escapes, rest, str, esc, extracted, tokens, trimmed>>

\* Separators in a row are one.
Separator ==
  /\ loop = "delims" /\ AtDelim
  /\ extracted' = extracted + 1 /\ rest' = Tail(rest)
  /\ UNCHANGED <<words, escapes, str, esc, loop, tokens, trimmed>>

MUT_TrimCopy(s, lr) ==
  LET IsText(c) == c # Space
      b == IF lr = "right" \/ SelectInSeq(s, IsText) = 0 THEN 1 ELSE SelectInSeq(s, IsText)
      e == IF lr = "left" THEN Len(s) ELSE SelectLastInSeq(s, IsText)
  IN  SubSeq(s, b, e - 1)

\* trim_copy: npos is 0 at the left, and one more than npos is 0 at the right.
TrimCopy(s, lr) ==
  LET IsText(c) == c # Space
      b == IF lr = "right" \/ SelectInSeq(s, IsText) = 0 THEN 1 ELSE SelectInSeq(s, IsText)
      e == IF lr = "left" THEN Len(s) ELSE SelectLastInSeq(s, IsText)
  IN  SubSeq(s, b, e)

\* left_trim, right_trim and trim, in place.
LeftTrim(s) ==
  LET b == SelectInSeq(s, LAMBDA c : c # Space)
  IN  IF b = 0 THEN <<>> ELSE SubSeq(s, b, Len(s))

RightTrim(s) == SubSeq(s, 1, SelectLastInSeq(s, LAMBDA c : c # Space))

TrimInPlace(s, lr) ==
  CASE lr = "left" -> LeftTrim(s) [] lr = "right" -> RightTrim(s) [] lr = "both" -> LeftTrim(RightTrim(s))

Trimmed(s) == trimmed' = Append(trimmed, [lr \in Sides |-> TrimCopy(s, lr)])

MUT_Return ==
  /\ loop = "delims" /\ ~AtDelim
  /\ IF str # <<>>
     THEN /\ tokens' = Append(tokens, str) /\ Trimmed(str)
          /\ str' = <<>> /\ esc' = FALSE /\ extracted' = 0 /\ loop' = "token"
     ELSE loop' = "done" /\ UNCHANGED <<tokens, trimmed, str, esc, extracted>>
  /\ UNCHANGED <<words, escapes, rest>>

\* A call that extracts nothing fails, which ends the loop of split.
Return ==
  /\ loop = "delims" /\ ~AtDelim
  /\ IF extracted > 0
     THEN /\ tokens' = Append(tokens, str) /\ Trimmed(str)
          /\ str' = <<>> /\ esc' = FALSE /\ extracted' = 0 /\ loop' = "token"
     ELSE loop' = "done" /\ UNCHANGED <<tokens, trimmed, str, esc, extracted>>
  /\ UNCHANGED <<words, escapes, rest>>

Getline == Backslash \/ Character \/ TokenEnds \/ Separator \/ Return
==============================================================================
