------------------------------ MODULE JsonInteger ------------------------------
(***************************************************************************)
(* JsonIntegerField (src/webhook_receiver.cpp): the time claims of a token *)
(* are read from the text of its claims, digit by digit, so that an        *)
(* std::int64_t keeps its precision.  The text is scanned for the quoted   *)
(* name, then for a colon, then for spaces, a sign and digits.             *)
(*                                                                         *)
(* A text is a sequence of symbols: "name" is the whole quoted name,       *)
(* "other" any character of no interest.  MaxInteger is the largest value  *)
(* of the type; exact is a history variable, the number as it is written.  *)
(***************************************************************************)
EXTENDS Integers, Sequences

CONSTANTS MaxInteger, Digits, DigitValue, Texts

ASSUME IntegerAssumption == MaxInteger \in Nat /\ MaxInteger >= 9
ASSUME DigitAssumption ==
  /\ Digits \cap {"name", ":", " ", "-", "other"} = {}
  /\ DigitValue \in [Digits -> 0 .. 9]

Symbols == {"name", ":", " ", "-", "other"} \cup Digits

ASSUME TextAssumption == Texts \subseteq Seq(Symbols)

VARIABLES text, phase, position, negative, value, exact

vars == <<text, phase, position, negative, value, exact>>

Ended == {"absent", "invalid", "too_large", "done"}

Init == /\ text \in Texts
        /\ phase = "name" /\ position = 1
        /\ negative = FALSE /\ value = 0 /\ exact = 0

-------------------------------------------------------------------------------
More == position <= Len(text)
At(symbol) == More /\ text[position] = symbol
Here == {i \in position .. Len(text) : text[i] = IF phase = "name" THEN "name" ELSE ":"}

\* json.find of the name, then of a colon after it.
Find(from, to, missing) ==
  /\ phase = from
  /\ IF Here = {} THEN phase' = missing /\ UNCHANGED position
     ELSE /\ phase' = to
          /\ \E i \in Here : (\A j \in Here : i <= j) /\ position' = i + 1
  /\ UNCHANGED <<text, negative, value, exact>>

FindName == Find("name", "colon", "absent")
\* Mutant: the colon is searched from the start of the text.
FindColonFromStart ==
  /\ phase = "colon"
  /\ \E i \in 1 .. Len(text) + 1 :
       /\ \A j \in 1 .. i - 1 : text[j] # ":"
       /\ IF i > Len(text) THEN phase' = "invalid" /\ UNCHANGED position
          ELSE text[i] = ":" /\ phase' = "space" /\ position' = i + 1
  /\ UNCHANGED <<text, negative, value, exact>>

FindColon == Find("colon", "space", "invalid")

SkipSpace ==
  /\ phase = "space"
  /\ IF At(" ") THEN position' = position + 1 /\ UNCHANGED phase
     ELSE phase' = "sign" /\ UNCHANGED position
  /\ UNCHANGED <<text, negative, value, exact>>

Sign ==
  /\ phase = "sign"
  /\ negative' = At("-")
  /\ position' = IF At("-") THEN position + 1 ELSE position
  /\ phase' = "first"
  /\ UNCHANGED <<text, value, exact>>

AtDigit == More /\ text[position] \in Digits

\* There must be a digit.
FirstDigit ==
  /\ phase = "first"
  /\ phase' = IF AtDigit THEN "digits" ELSE "invalid"
  /\ UNCHANGED <<text, position, negative, value, exact>>

\* Another digit would take the value beyond the type.
\* Mutant: the largest value itself is taken for too large.
TooLargeAtMax(digit) == value >= (MaxInteger - digit) \div 10

TooLarge(digit) == value > (MaxInteger - digit) \div 10

ReadDigit ==
  /\ phase = "digits" /\ AtDigit
  /\ LET digit == DigitValue[text[position]]
     IN /\ exact' = exact * 10 + digit
        /\ IF TooLarge(digit) THEN phase' = "too_large" /\ UNCHANGED value
           ELSE value' = value * 10 + digit /\ UNCHANGED phase
  /\ position' = position + 1
  /\ UNCHANGED <<text, negative>>

LastDigit ==
  /\ phase = "digits" /\ ~AtDigit
  /\ phase' = "done"
  /\ UNCHANGED <<text, position, negative, value, exact>>

Returned == phase \in Ended /\ UNCHANGED vars

Scan == \/ FindName \/ FindColon \/ SkipSpace \/ Sign \/ FirstDigit \/ ReadDigit \/ LastDigit

Next == Scan \/ Returned

Spec == Init /\ [][Next]_vars

-------------------------------------------------------------------------------
Result == IF negative THEN -value ELSE value

TypeOK == /\ text \in Seq(Symbols)
          /\ phase \in {"name", "colon", "space", "sign", "first", "digits"} \cup Ended
          /\ position \in 1 .. Len(text) + 1
          /\ negative \in BOOLEAN
          /\ value \in 0 .. MaxInteger
          /\ exact \in Nat

\* What is returned is the number as it is written, and what is refused as too
\* large is beyond the type: no digit overflows, and none is refused that fits.
ExactOrTooLarge == /\ phase \in {"digits", "done"} => value = exact
                   /\ phase = "too_large" => exact > MaxInteger

\* The number the symbols from a to b write.
Number(a, b) ==
  LET upTo[i \in (a - 1) .. b] == IF i < a THEN 0 ELSE upTo[i - 1] * 10 + DigitValue[text[i]]
  IN upTo[b]

\* It is the number of the field: the digits that follow, after spaces and a
\* sign, the first colon after the first occurrence of the name, all of them.
ReadsTheField == phase = "done" =>
  \E n, c, a \in 1 .. Len(text), b \in 1 .. Len(text) :
    /\ text[n] = "name" /\ \A i \in 1 .. n - 1 : text[i] # "name"
    /\ n < c /\ text[c] = ":" /\ \A i \in n + 1 .. c - 1 : text[i] # ":"
    /\ c < a /\ a <= b /\ \A i \in a .. b : text[i] \in Digits
    /\ b < Len(text) => text[b + 1] \notin Digits
    /\ \E s \in c .. a - 1 :
         /\ \A i \in c + 1 .. s : text[i] = " "
         /\ IF negative THEN s = a - 2 /\ text[a - 1] = "-" ELSE s = a - 1
    /\ value = Number(a, b)
================================================================================
