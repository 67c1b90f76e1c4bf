------------------------------- MODULE LexicalCast -----------------------------
(***************************************************************************)
(* more::lexical_cast: a text is written to a stream and read back as a     *)
(* number.  A thread makes its stream once and uses it for all of its       *)
(* conversions, the ones that throw included.                               *)
(***************************************************************************)
EXTENDS Sequences, SequencesExt

CONSTANTS
  Digits,   \* the characters of a number
  Blank     \* the white space

ASSUME CastAssumption == Blank \notin Digits

VARIABLES
  pc,       \* "call", "write", "read" or "check"
  arg,
  unread,   \* the stream: the characters between its two positions
  good,     \* the stream: neither eofbit nor failbit
  ret,      \* what was read
  outcome   \* <<"returned", number>> or <<"thrown", <<>>>>

castVars == <<pc, arg, unread, good, ret, outcome>>

InitCast ==
  /\ pc = "call" /\ arg = <<>> /\ unread = <<>> /\ good = TRUE
  /\ ret = <<>> /\ outcome = <<"none", <<>>>>

\* The characters of s from the first that is no white space, and how many of them
\* operator>> takes for a number.
Stripped(s) ==
  LET k == SelectInSeq(s, LAMBDA c : c # Blank)
  IN  IF k = 0 THEN <<>> ELSE SubSeq(s, k, Len(s))

Taken(s) ==
  LET k == SelectInSeq(s, LAMBDA c : c \notin Digits)
  IN  IF k = 0 THEN Len(s) ELSE k - 1

MUT_Call(a) ==
  /\ pc = "call"
  /\ arg' = a /\ pc' = "write"
  /\ UNCHANGED <<unread, good, ret, outcome>>

\* clear() takes back what the last conversion left in the stream's state.
Call(a) ==
  /\ pc = "call"
  /\ arg' = a /\ good' = TRUE /\ pc' = "write"
  /\ UNCHANGED <<unread, ret, outcome>>

\* The failure of any of the three steps: the text is dropped, and the cast throws.
Throw ==
  /\ unread' = <<>>
  /\ outcome' = <<"thrown", <<>>>>
  /\ pc' = "call"

\* operator<< writes to a good stream only.
Write ==
  /\ pc = "write"
  /\ IF good THEN unread' = unread \o arg /\ pc' = "read" /\ UNCHANGED outcome ELSE Throw
  /\ UNCHANGED <<arg, good, ret>>

\* operator>> skips white space and stops at the first character that it cannot take.
Read ==
  /\ pc = "read"
  /\ LET s == Stripped(unread)
         n == Taken(s)
     IN  IF n > 0
         THEN /\ unread' = SubSeq(s, n + 1, Len(s))
              /\ ret' = SubSeq(s, 1, n)
              /\ good' = (n < Len(s))
              /\ pc' = "check"
              /\ UNCHANGED outcome
         ELSE good' = FALSE /\ Throw /\ UNCHANGED ret
  /\ UNCHANGED arg

\* Nothing but white space may be left.
Check ==
  /\ pc = "check"
  /\ IF Stripped(unread) = <<>>
     THEN unread' = <<>> /\ good' = FALSE /\ outcome' = <<"returned", ret>> /\ pc' = "call"
     ELSE Throw /\ UNCHANGED good
  /\ UNCHANGED <<arg, ret>>

Convert == Write \/ Read \/ Check
==============================================================================
