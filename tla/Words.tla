------------------------------- MODULE Words --------------------------------
(***************************************************************************)
(* What the code asks of the strings it is given.  Strings are names, ""   *)
(* the empty one; the instance says what trimming, upper case, containment *)
(* and so on make of them.                                                 *)
(***************************************************************************)
EXTENDS Integers

CONSTANTS
  Word,          \* the strings of the instance
  Trim(_),       \* strings.TrimSpace
  Upper(_),      \* strings.ToUpper
  Within(_, _),  \* strings.Contains(second, first), both in one case
  Country(_),    \* the fifth and sixth letter of a BIC in upper case
  Day(_),        \* the number of a day written YYYY-MM-DD
  NoDay,         \* of what is no such day
  IsTime(_)      \* whether parseTime reads it: RFC 3339, or a local date and time

ASSUME WordsAssumption ==
  /\ "" \in Word
  /\ \A w \in Word : Trim(w) \in Word /\ Trim(Trim(w)) = Trim(w) /\ Upper(Upper(w)) = Upper(w)

IsBlank(w) == Trim(w) = ""
EqualFold(v, w) == Upper(v) = Upper(w)

=============================================================================
