---------------------------- MODULE TokenTextProofs ----------------------------
(***************************************************************************)
(* Proofs about the modules of MCTokenText: JsonInteger for every width of *)
(* the integer, TokenLifetime for every clock, Digest for every length,    *)
(* TokenClaims for texts of every length, Base64 for all data and texts of *)
(* every width that fits.                                                  *)
(***************************************************************************)
EXTENDS MCTokenText, SequenceTheorems, WellFoundedInduction, TLAPS

SameUnlessTooLarge == phase # "too_large" => value = exact

IInv == TypeOK /\ ExactOrTooLarge /\ SameUnlessTooLarge

\* The test before the digit says exactly whether the sum would overflow.
LEMMA TestIsExact ==
  ASSUME NEW v \in Nat, NEW digit \in 0 .. 9
  PROVE  v > (MaxInteger - digit) \div 10 <=> v * 10 + digit > MaxInteger
<1> DEFINE rest == MaxInteger - digit
           quotient == rest \div 10
<1>1. rest \in Nat /\ MaxInteger = rest + digit
  BY IntegerAssumption
<1> HIDE DEF rest
<1>2. quotient \in Int /\ 10 * quotient <= rest /\ rest < 10 * quotient + 10
  BY <1>1
<1>3. MaxInteger - digit = rest
  BY DEF rest
<1> HIDE DEF quotient
<1>4. v > quotient <=> v * 10 > rest
  BY <1>1, <1>2
<1>5. v > (MaxInteger - digit) \div 10 <=> v > quotient
  BY <1>3 DEF quotient
<1> QED BY <1>1, <1>4, <1>5

\* The scan starts with nothing read.
LEMMA InitInv == Init => IInv
<1> SUFFICES ASSUME Init PROVE IInv
  OBVIOUS
<1>1. text \in Seq(Symbols) /\ Len(text) \in Nat
  BY TextAssumption DEF Init
<1>2. position \in 1 .. Len(text) + 1 /\ value \in 0 .. MaxInteger /\ exact \in Nat
  BY <1>1, IntegerAssumption DEF Init
<1>3. phase \in {"name", "colon", "space", "sign", "first", "digits"} \cup Ended /\ negative \in BOOLEAN
  BY DEF Init
<1>4. ExactOrTooLarge /\ SameUnlessTooLarge
  BY DEF Init, ExactOrTooLarge, SameUnlessTooLarge
<1> QED BY <1>1, <1>2, <1>3, <1>4 DEF IInv, TypeOK

\* A digit that is read is in the sum, one that is refused would not fit.
LEMMA ReadDigitInv ==
  ASSUME IInv, ReadDigit
  PROVE  IInv'
<1> DEFINE digit == DigitValue[text[position]]
<1> USE DEF IInv, TypeOK
<1>1. digit \in 0 .. 9
  BY DigitAssumption DEF ReadDigit, AtDigit
<1>2. /\ phase = "digits" /\ value = exact /\ position <= Len(text)
      /\ exact' = exact * 10 + digit
      /\ position' = position + 1 /\ UNCHANGED <<text, negative>>
  BY DEF ReadDigit, AtDigit, More, ExactOrTooLarge
<1>3. Len(text) \in Nat /\ value \in Nat
  BY IntegerAssumption
<1>4. position' \in 1 .. Len(text') + 1 /\ exact' \in Nat
  <2>1. position \in Nat /\ position >= 1 /\ exact \in Nat
    BY <1>3
  <2>2. text' = text
    BY <1>2
  <2> HIDE DEF IInv, TypeOK, digit
  <2>3. position' \in 1 .. Len(text) + 1
    BY <1>2, <1>3, <2>1
  <2>4. exact' \in Nat
    BY <1>1, <1>2, <2>1
  <2> QED BY <2>2, <2>3, <2>4
<1>5. CASE TooLarge(digit)
  <2>1. phase' = "too_large" /\ value' = value
    BY <1>5 DEF ReadDigit
  <2>2. exact' > MaxInteger
    BY <1>1, <1>2, <1>5, TestIsExact DEF TooLarge
  <2> QED BY <1>2, <1>4, <2>1, <2>2 DEF ExactOrTooLarge, SameUnlessTooLarge, Ended
<1>6. CASE ~TooLarge(digit)
  <2>1. phase' = "digits" /\ value' = value * 10 + digit
    BY <1>2, <1>6 DEF ReadDigit
  <2> HIDE DEF digit
  <2>2. ~(value * 10 + digit > MaxInteger)
    BY <1>1, <1>3, <1>6, TestIsExact DEF TooLarge
  <2>3. value' \in 0 .. MaxInteger
    BY <1>1, <1>3, <2>1, <2>2, IntegerAssumption
  <2> QED BY <1>2, <1>4, <2>1, <2>3 DEF ExactOrTooLarge, SameUnlessTooLarge, Ended
<1> QED BY <1>5, <1>6

\* The other steps read no digit.
LEMMA OtherInv ==
  ASSUME IInv, FindName \/ FindColon \/ SkipSpace \/ Sign \/ FirstDigit \/ LastDigit \/ UNCHANGED vars
  PROVE  IInv'
<1> USE DEF IInv, TypeOK, Ended
<1>1. UNCHANGED <<text, value, exact>>
  BY DEF FindName, FindColon, Find, SkipSpace, Sign, FirstDigit, LastDigit, vars
<1>2. Len(text) \in Nat
  OBVIOUS
<1>3. position' \in 1 .. Len(text) + 1
  <2>1. CASE FindName \/ FindColon
    <3>1. ASSUME NEW i \in Here PROVE i + 1 \in 1 .. Len(text) + 1
      BY <1>2, <3>1 DEF Here
    <3>2. position' = position \/ \E i \in Here : position' = i + 1
      BY <2>1 DEF FindName, FindColon, Find
    <3> QED BY <3>1, <3>2
  <2>2. CASE SkipSpace \/ Sign
    <3>1. position' = position \/ (More /\ position' = position + 1)
      BY <2>2 DEF SkipSpace, Sign, At
    <3> QED BY <1>2, <3>1 DEF More
  <2>3. CASE FirstDigit \/ LastDigit \/ UNCHANGED vars
    BY <2>3 DEF FirstDigit, LastDigit, vars
  <2> QED BY <2>1, <2>2, <2>3
<1>4. /\ phase' \in {"name", "colon", "space", "sign", "first", "digits"} \cup Ended
      /\ phase' # "too_large" \/ phase = "too_large"
      /\ phase' = "too_large" => phase = "too_large"
  BY DEF FindName, FindColon, Find, SkipSpace, Sign, FirstDigit, LastDigit, vars
<1>5. negative' \in BOOLEAN
  BY DEF FindName, FindColon, Find, SkipSpace, Sign, FirstDigit, LastDigit, vars, At, More
<1>6. phase = "too_large" => phase' = "too_large"
  BY DEF FindName, FindColon, Find, SkipSpace, Sign, FirstDigit, LastDigit, vars
<1> QED BY <1>1, <1>3, <1>4, <1>5, <1>6 DEF ExactOrTooLarge, SameUnlessTooLarge

\* No step breaks the invariant.
LEMMA NextInv == IInv /\ [Next]_vars => IInv'
  BY ReadDigitInv, OtherInv DEF Next, Scan, Returned

\* What the theorems below rest on.
LEMMA Invariance == Spec => []IInv
  BY InitInv, NextInv, PTL DEF Spec

\* For every width of the integer the value never leaves it.
THEOREM NothingOverflows == Spec => []TypeOK
  BY Invariance, PTL DEF IInv

\* For every width and every text what is returned is exact, and what is
\* refused as too large is beyond the type.
THEOREM ReadsExactly == Spec => []ExactOrTooLarge
  BY Invariance, PTL DEF IInv

-------------------------------------------------------------------------------
\* The field that is read

\* The order of Nat is well founded.
Less == {p \in Nat \X Nat : p[1] < p[2]}

\* A nonempty set of numbers has a least one: the library's theorem about the
\* order of Nat, applied to a set.
LEMMA LeastNumber ==
  ASSUME NEW T, T \subseteq Nat, T # {}
  PROVE  \E x \in T : \A y \in T : x =< y
<1>1. OpToRel(<, Nat) = Less
  BY DEF OpToRel, Less
<1>2. IsWellFoundedOn(Less, Nat)
  BY <1>1, NatLessThanWellFounded
<1>3. PICK x \in T : \A y \in T : ~(<<y, x>> \in Less)
  BY <1>2, WFMin, Zenon
<1>4. ASSUME NEW y \in T PROVE x =< y
  <2>1. ~(<<y, x>> \in Less)
    BY <1>3
  <2>2. ~(y < x)
    BY <2>1 DEF Less
  <2> QED BY <2>2
<1> QED BY <1>4

\* Where the scan has been: at the name, the colon, the spaces and the sign.
FirstName(n) == /\ n \in 1 .. Len(text) /\ text[n] = "name"
                /\ \A i \in 1 .. n - 1 : text[i] # "name"
FirstColon(n, c) == /\ c \in 1 .. Len(text) /\ n < c /\ text[c] = ":"
                    /\ \A i \in n + 1 .. c - 1 : text[i] # ":"
Blank(i) == text[i] = " "
Spaces(c, s) == s \in c .. Len(text) /\ \A i \in c + 1 .. s : Blank(i)
Signed(s, a) == IF negative THEN s = a - 2 /\ text[a - 1] = "-" ELSE s = a - 1
Field(n, c, s, a) == FirstName(n) /\ FirstColon(n, c) /\ Spaces(c, s) /\ Signed(s, a)

\* The sums of the digits from a on, which Number is the last of.
Sums(f, a, b) ==
  f = [i \in (a - 1) .. b |-> IF i < a THEN 0 ELSE f[i - 1] * 10 + DigitValue[text[i]]]

\* The digits from a on have been read, and the value is their number.
ReadFrom(a) ==
  /\ a \in 1 .. position
  /\ position = a => phase = "digits" /\ AtDigit
  /\ \A i \in a .. position - 1 : text[i] \in Digits
  /\ \E f : Sums(f, a, position - 1) /\ f[position - 1] = value

\* What each phase of the scan may rely on.
Scanned ==
  /\ phase = "name" => position = 1
  /\ phase = "colon" => FirstName(position - 1)
  /\ phase \in {"space", "sign"} =>
       \E n, c : FirstName(n) /\ FirstColon(n, c) /\ Spaces(c, position - 1)
  /\ phase = "first" => \E n, c, s : Field(n, c, s, position)
  /\ phase \in {"digits", "done"} => \E n, c, s, a : Field(n, c, s, a) /\ ReadFrom(a)
  /\ phase = "done" => ~AtDigit

\* There is one function of sums.
LEMMA SumsAreOne ==
  ASSUME NEW a \in Nat \ {0}, NEW b \in Nat, NEW f, NEW g, Sums(f, a, b), Sums(g, a, b)
  PROVE  f = g
<1> DEFINE D == (a - 1) .. b
           T == {i \in D : f[i] # g[i]}
<1>1. \A i \in D : /\ f[i] = IF i < a THEN 0 ELSE f[i - 1] * 10 + DigitValue[text[i]]
                   /\ g[i] = IF i < a THEN 0 ELSE g[i - 1] * 10 + DigitValue[text[i]]
  BY DEF Sums
<1>2. DOMAIN f = D /\ DOMAIN g = D /\ f = [i \in D |-> f[i]] /\ g = [i \in D |-> g[i]]
  BY DEF Sums
<1>3. T = {}
  <2> SUFFICES ASSUME T # {} PROVE FALSE
    OBVIOUS
  <2>1. T \subseteq Nat
    OBVIOUS
  <2>2. PICK x \in T : \A y \in T : x =< y
    BY <2>1, LeastNumber
  <2>3. x \in D /\ f[x] # g[x]
    OBVIOUS
  <2>4. ~(x < a)
    BY <1>1, <2>3
  <2>5. x - 1 \in D /\ ~(x =< x - 1)
    BY <2>3, <2>4
  <2>6. f[x - 1] = g[x - 1]
    BY <2>2, <2>5
  <2> QED BY <1>1, <2>3, <2>4, <2>6
<1> QED BY <1>2, <1>3

\* What a function of sums ends in is the number.
LEMMA SumsAreNumber ==
  ASSUME NEW a \in Nat \ {0}, NEW b \in Nat, NEW f, Sums(f, a, b)
  PROVE  f[b] = Number(a, b)
<1> DEFINE upTo == CHOOSE g : Sums(g, a, b)
<1>1. Sums(upTo, a, b)
  OBVIOUS
<1>2. Number(a, b) = upTo[b]
  BY DEF Number, Sums
<1> HIDE DEF upTo
<1> QED BY <1>1, <1>2, SumsAreOne

\* Nothing read.
LEMMA NoSums ==
  ASSUME NEW a \in Nat \ {0}
  PROVE  \E f : Sums(f, a, a - 1) /\ f[a - 1] = 0
<1> DEFINE f == [i \in (a - 1) .. (a - 1) |-> 0]
<1>1. f = [i \in (a - 1) .. (a - 1) |-> IF i < a THEN 0 ELSE f[i - 1] * 10 + DigitValue[text[i]]]
  OBVIOUS
<1>2. Sums(f, a, a - 1) /\ f[a - 1] = 0
  BY <1>1 DEF Sums
<1> HIDE DEF f
<1> QED BY <1>2

\* One digit more.
LEMMA OneSumMore ==
  ASSUME NEW a \in Nat \ {0}, NEW b \in Nat, a - 1 =< b, NEW f, Sums(f, a, b)
  PROVE  \E g : Sums(g, a, b + 1) /\ g[b + 1] = f[b] * 10 + DigitValue[text[b + 1]]
<1> DEFINE g == [i \in (a - 1) .. (b + 1) |->
                   IF i = b + 1 THEN f[b] * 10 + DigitValue[text[b + 1]] ELSE f[i]]
<1>1. g[b + 1] = f[b] * 10 + DigitValue[text[b + 1]] /\ \A i \in (a - 1) .. b : g[i] = f[i]
  OBVIOUS
<1>2. \A i \in (a - 1) .. b : f[i] = IF i < a THEN 0 ELSE f[i - 1] * 10 + DigitValue[text[i]]
  BY DEF Sums
<1>3. ASSUME NEW i \in (a - 1) .. (b + 1)
      PROVE  g[i] = IF i < a THEN 0 ELSE g[i - 1] * 10 + DigitValue[text[i]]
  <2> HIDE DEF g
  <2>1. CASE i = b + 1
    <3>1. ~(i < a) /\ i - 1 = b /\ b \in (a - 1) .. b
      BY <2>1
    <3> QED BY <1>1, <2>1, <3>1
  <2>2. CASE i # b + 1
    <3>1. i \in (a - 1) .. b
      BY <2>2
    <3>2. ~(i < a) => i - 1 \in (a - 1) .. b
      BY <3>1
    <3> QED BY <1>1, <1>2, <3>1, <3>2
  <2> QED BY <2>1, <2>2
<1>4. g = [i \in (a - 1) .. (b + 1) |-> g[i]]
  OBVIOUS
<1> HIDE DEF g
<1>5. g = [i \in (a - 1) .. (b + 1) |-> IF i < a THEN 0 ELSE g[i - 1] * 10 + DigitValue[text[i]]]
  BY <1>3, <1>4
<1> QED BY <1>1, <1>5 DEF Sums

\* The scan starts at the first symbol.
LEMMA ScannedInit == Init => Scanned
  BY DEF Init, Scanned

\* A step that neither changes the text nor the sign leaves what was found.
LEMMA FoundStays ==
  ASSUME text' = text
  PROVE  /\ \A n : FirstName(n)' <=> FirstName(n)
         /\ \A n, c : FirstColon(n, c)' <=> FirstColon(n, c)
         /\ \A c, s : Spaces(c, s)' <=> Spaces(c, s)
         /\ \A a, b, f : Sums(f, a, b)' <=> Sums(f, a, b)
  BY DEF FirstName, FirstColon, Spaces, Blank, Sums

LEMMA InText == TypeOK => Len(text) \in Nat /\ position \in Nat /\ position \in 1 .. Len(text) + 1
<1> SUFFICES ASSUME TypeOK PROVE Len(text) \in Nat /\ position \in Nat /\ position \in 1 .. Len(text) + 1
  OBVIOUS
<1>1. text \in Seq(Symbols)
  BY DEF TypeOK
<1>2. Len(text) \in Nat
  BY <1>1
<1>3. position \in 1 .. Len(text) + 1
  BY DEF TypeOK
<1> QED BY <1>2, <1>3

LEMMA FindNameScanned ==
  ASSUME TypeOK, Scanned, FindName
  PROVE  Scanned'
<1>1. phase = "name" /\ position = 1 /\ text' = text /\ Len(text) \in Nat
  BY InText DEF FindName, Find, Scanned
<1>2. CASE Here = {}
  BY <1>1, <1>2 DEF FindName, Find, Scanned
<1>3. CASE Here # {}
  <2>1. PICK i \in Here : (\A j \in Here : i <= j) /\ position' = i + 1
    BY <1>3 DEF FindName, Find
  <2>2. phase' = "colon"
    BY <1>3 DEF FindName, Find
  <2>3. Here = {j \in 1 .. Len(text) : text[j] = "name"}
    BY <1>1 DEF Here
  <2>4. i \in 1 .. Len(text) /\ text[i] = "name" /\ position' - 1 = i
    BY <2>1, <2>3
  <2>5. ASSUME NEW j \in 1 .. i - 1 PROVE text[j] # "name"
    <3>1. j \in 1 .. Len(text) /\ ~(i <= j)
      BY <1>1, <2>4
    <3> QED BY <2>1, <2>3, <3>1
  <2>6. FirstName(i)
    BY <2>4, <2>5 DEF FirstName
  <2> QED BY <1>1, <2>2, <2>4, <2>6, FoundStays DEF Scanned
<1> QED BY <1>2, <1>3

LEMMA FindColonScanned ==
  ASSUME TypeOK, Scanned, FindColon
  PROVE  Scanned'
<1>1. phase = "colon" /\ FirstName(position - 1) /\ text' = text /\ Len(text) \in Nat /\ position \in Nat
  BY InText DEF FindColon, Find, Scanned
<1>2. CASE Here = {}
  BY <1>1, <1>2 DEF FindColon, Find, Scanned
<1>3. CASE Here # {}
  <2>1. PICK i \in Here : (\A j \in Here : i <= j) /\ position' = i + 1
    BY <1>3 DEF FindColon, Find
  <2>2. phase' = "space"
    BY <1>3 DEF FindColon, Find
  <2>3. Here = {j \in position .. Len(text) : text[j] = ":"}
    BY <1>1 DEF Here
  <2>4. i \in position .. Len(text) /\ text[i] = ":" /\ position' - 1 = i
    BY <2>1, <2>3
  <2>5. ASSUME NEW j \in (position - 1) + 1 .. i - 1 PROVE text[j] # ":"
    <3>1. j \in position .. Len(text) /\ ~(i <= j)
      BY <1>1, <2>4
    <3> QED BY <2>1, <2>3, <3>1
  <2>6. position - 1 < i /\ i \in 1 .. Len(text)
    BY <1>1, <2>4 DEF FirstName
  <2>7. FirstColon(position - 1, i)
    BY <2>4, <2>5, <2>6 DEF FirstColon
  <2>8. Spaces(i, i)
    BY <1>1, <2>6 DEF Spaces
  <2> QED BY <1>1, <2>2, <2>4, <2>7, <2>8, FoundStays DEF Scanned
<1> QED BY <1>2, <1>3

LEMMA SkipSpaceScanned ==
  ASSUME TypeOK, Scanned, SkipSpace
  PROVE  Scanned'
<1>1. phase = "space" /\ text' = text /\ Len(text) \in Nat /\ position \in Nat
  BY InText DEF SkipSpace
<1>2. PICK n, c : FirstName(n) /\ FirstColon(n, c) /\ Spaces(c, position - 1)
  BY <1>1 DEF Scanned
<1>3. \/ More /\ Blank(position) /\ position' = position + 1 /\ phase' = "space"
      \/ position' = position /\ phase' = "sign"
  BY <1>1, Zenon DEF SkipSpace, At, Blank
<1>4. Spaces(c, position' - 1)
  <2>1. CASE position' = position + 1 /\ More /\ Blank(position)
    <3>1. position' - 1 = position
      BY <1>1, <2>1
    <3>2. c \in Nat /\ position - 1 \in c .. Len(text) /\ position <= Len(text)
      BY <1>1, <1>2, <2>1 DEF More, Spaces, FirstColon
    <3>3. \A i \in c + 1 .. position : i \in c + 1 .. position - 1 \/ i = position
      BY <1>1, <3>2
    <3>4. position \in c .. Len(text)
      BY <1>1, <3>2
    <3> QED BY <1>2, <2>1, <3>1, <3>3, <3>4 DEF Spaces
  <2>2. CASE position' = position
    BY <1>2, <2>2
  <2> QED BY <1>3, <2>1, <2>2
<1> QED BY <1>1, <1>2, <1>3, <1>4, FoundStays DEF Scanned

LEMMA SignScanned ==
  ASSUME TypeOK, Scanned, Sign
  PROVE  Scanned'
<1>1. phase = "sign" /\ text' = text /\ Len(text) \in Nat /\ position \in Nat /\ phase' = "first"
  BY InText DEF Sign
<1>2. PICK n, c : FirstName(n) /\ FirstColon(n, c) /\ Spaces(c, position - 1)
  BY <1>1 DEF Scanned
<1>3. IF negative' THEN position' = position + 1 /\ text[position] = "-" ELSE position' = position
  BY <1>1 DEF Sign, At
<1>4. IF negative' THEN position - 1 = position' - 2 /\ text'[position' - 1] = "-"
      ELSE position - 1 = position' - 1
  <2>1. CASE negative'
    <3>1. position' = position + 1
      BY <1>3, <2>1
    <3>2. position' - 1 = position /\ position - 1 = position' - 2
      BY <1>1, <3>1
    <3> QED BY <1>1, <1>3, <2>1, <3>2
  <2>2. CASE ~negative'
    BY <1>3, <2>2
  <2> QED BY <2>1, <2>2
<1>6. PICK s : s = position - 1
  OBVIOUS
<1>7. FirstName(n)' /\ FirstColon(n, c)' /\ Spaces(c, s)'
  BY <1>1, <1>2, <1>6, FoundStays
<1>8. Signed(s, position)'
  BY <1>4, <1>6 DEF Signed
<1>9. \E t : Field(n, c, t, position)'
  BY <1>7, <1>8 DEF Field
<1> QED BY <1>1, <1>9 DEF Scanned

\* No digit has been read before the digits.
Unread == phase \in {"name", "colon", "space", "sign", "first"} => value = 0

LEMMA UnreadInv == Unread /\ [Next]_vars => Unread'
  BY DEF Unread, Next, Scan, Returned, FindName, FindColon, Find, SkipSpace, Sign, FirstDigit,
         ReadDigit, LastDigit, Ended, vars

LEMMA FirstDigitScanned ==
  ASSUME TypeOK, Unread, Scanned, FirstDigit
  PROVE  Scanned'
<1>1. /\ phase = "first" /\ text' = text /\ position' = position /\ negative' = negative
      /\ value' = 0 /\ Len(text) \in Nat /\ position \in Nat \ {0}
  BY InText DEF FirstDigit, Unread
<1>2. CASE ~AtDigit
  BY <1>1, <1>2 DEF FirstDigit, Scanned
<1>3. CASE AtDigit
  <2>1. phase' = "digits"
    BY <1>3 DEF FirstDigit
  <2>2. PICK n, c, s : Field(n, c, s, position)
    BY <1>1 DEF Scanned
  <2>3. PICK a : a = position
    OBVIOUS
  <2>4. Field(n, c, s, a)'
    BY <1>1, <2>2, <2>3, FoundStays DEF Field, Signed
  <2>5. AtDigit'
    BY <1>1, <1>3 DEF AtDigit, More
  <2>6. \E f : Sums(f, a, a - 1) /\ f[a - 1] = 0
    BY <1>1, <2>3, NoSums
  <2>7. \E f : Sums(f, a, position - 1)' /\ f[position' - 1] = value'
    BY <1>1, <2>3, <2>6 DEF Sums
  <2>8. ReadFrom(a)'
    BY <1>1, <2>1, <2>3, <2>5, <2>7 DEF ReadFrom
  <2> QED BY <2>1, <2>4, <2>8 DEF Scanned
<1> QED BY <1>2, <1>3

LEMMA ReadDigitScanned ==
  ASSUME TypeOK, ExactOrTooLarge, Scanned, ReadDigit
  PROVE  Scanned'
<1>1. /\ phase = "digits" /\ AtDigit /\ text' = text /\ position' = position + 1
      /\ negative' = negative /\ Len(text) \in Nat /\ position \in Nat \ {0}
  BY InText DEF ReadDigit
<1>2. CASE phase' = "too_large"
  BY <1>2 DEF Scanned
<1>3. CASE phase' # "too_large"
  <2>1. phase' = "digits" /\ value' = value * 10 + DigitValue[text[position]]
    BY <1>1, <1>3 DEF ReadDigit
  <2>2. PICK n, c, s, a : Field(n, c, s, a) /\ ReadFrom(a)
    BY <1>1 DEF Scanned
  <2>3. Field(n, c, s, a)'
    BY <1>1, <2>2, FoundStays DEF Field, Signed
  <2>4. a \in Nat \ {0} /\ a - 1 =< position - 1 /\ position - 1 \in Nat /\ (position - 1) + 1 = position
    BY <1>1, <2>2 DEF ReadFrom
  <2>5. PICK f : Sums(f, a, position - 1) /\ f[position - 1] = value
    BY <2>2 DEF ReadFrom
  <2>6. \E g : Sums(g, a, position) /\ g[position] = value'
    BY <2>1, <2>4, <2>5, OneSumMore
  <2>7. position' - 1 = position
    BY <1>1
  <2>8. \E g : Sums(g, a, position - 1)' /\ g[position' - 1] = value'
    BY <1>1, <2>6, <2>7 DEF Sums
  <2>9. \A i \in a .. position' - 1 : text'[i] \in Digits
    <3>1. ASSUME NEW i \in a .. position PROVE text[i] \in Digits
      <4>1. i = position \/ i \in a .. position - 1
        BY <1>1, <2>4
      <4> QED BY <1>1, <2>2, <4>1 DEF ReadFrom, AtDigit
    <3> QED BY <1>1, <2>7, <3>1
  <2>10. a \in 1 .. position' /\ position' # a
    BY <1>1, <2>4
  <2>11. ReadFrom(a)'
    BY <2>8, <2>9, <2>10 DEF ReadFrom
  <2> QED BY <2>1, <2>3, <2>11 DEF Scanned
<1> QED BY <1>2, <1>3

LEMMA LastDigitScanned ==
  ASSUME TypeOK, Scanned, LastDigit
  PROVE  Scanned'
<1>1. /\ phase = "digits" /\ ~AtDigit /\ phase' = "done" /\ text' = text /\ position' = position
      /\ negative' = negative /\ value' = value
  BY DEF LastDigit
<1>2. PICK n, c, s, a : Field(n, c, s, a) /\ ReadFrom(a)
  BY <1>1 DEF Scanned
<1>3. Field(n, c, s, a)'
  BY <1>1, <1>2, FoundStays DEF Field, Signed
<1>4. ReadFrom(a)'
  BY <1>1, <1>2 DEF ReadFrom, Sums
<1>5. ~AtDigit'
  BY <1>1 DEF AtDigit, More
<1> QED BY <1>1, <1>3, <1>4, <1>5 DEF Scanned

LEMMA StutterScanned ==
  ASSUME Scanned, UNCHANGED vars
  PROVE  Scanned'
<1>1. /\ phase' = phase /\ text' = text /\ position' = position
      /\ negative' = negative /\ value' = value
  BY DEF vars
<1>2. ASSUME NEW a PROVE ReadFrom(a)' <=> ReadFrom(a)
  BY <1>1 DEF ReadFrom, Sums, AtDigit, More
<1>3. ASSUME NEW n, NEW c, NEW s, NEW a PROVE Field(n, c, s, a)' <=> Field(n, c, s, a)
  BY <1>1, FoundStays DEF Field, Signed
<1>4. AtDigit' <=> AtDigit
  BY <1>1 DEF AtDigit, More
<1> QED BY <1>1, <1>2, <1>3, <1>4, FoundStays DEF Scanned

\* Everything that is known of a scan.
ScanInv == IInv /\ Unread /\ Scanned

LEMMA ScanNext == ScanInv /\ [Next]_vars => ScanInv'
<1> SUFFICES ASSUME ScanInv, [Next]_vars PROVE ScanInv'
  OBVIOUS
<1>1. TypeOK /\ ExactOrTooLarge /\ IInv /\ Unread /\ Scanned
  BY DEF ScanInv, IInv
<1>2. IInv' /\ Unread'
  BY <1>1, NextInv, UnreadInv
<1>3. Scanned'
  BY <1>1, FindNameScanned, FindColonScanned, SkipSpaceScanned, SignScanned, FirstDigitScanned,
     ReadDigitScanned, LastDigitScanned, StutterScanned DEF Next, Scan, Returned
<1> QED BY <1>2, <1>3 DEF ScanInv

LEMMA ScanInit == Init => ScanInv
  BY InitInv, ScannedInit DEF ScanInv, Unread, Init

\* What was scanned is the field.
LEMMA ScanEnds == ScanInv => ReadsTheField
<1> SUFFICES ASSUME ScanInv, phase = "done"
             PROVE  \E n, c, a \in 1 .. Len(text), b \in 1 .. Len(text) :
                      /\ text[n] = "name" /\ \A i \in 1 .. n - 1 : text[i] # "name"
                      /\ n < c /\ text[c] = ":" /\ \A i \in n + 1 .. c - 1 : text[i] # ":"
                      /\ c < a /\ a <= b /\ \A i \in a .. b : text[i] \in Digits
                      /\ b < Len(text) => text[b + 1] \notin Digits
                      /\ \E s \in c .. a - 1 :
                           /\ \A i \in c + 1 .. s : Blank(i)
                           /\ IF negative THEN s = a - 2 /\ text[a - 1] = "-" ELSE s = a - 1
                      /\ value = Number(a, b)
  BY Zenon DEF ReadsTheField, Blank
<1>1. TypeOK /\ Scanned /\ Len(text) \in Nat /\ position \in Nat /\ position =< Len(text) + 1
  BY InText DEF ScanInv, IInv
<1>2. PICK n, c, s, a : Field(n, c, s, a) /\ ReadFrom(a)
  BY <1>1 DEF Scanned
<1>3. ~AtDigit
  BY <1>1 DEF Scanned
<1> DEFINE b == position - 1
<1>4. a \in 1 .. position /\ position # a
  BY <1>1, <1>2, <1>3 DEF ReadFrom
<1>5. a \in 1 .. Len(text) /\ b \in 1 .. Len(text) /\ a =< b /\ b \in Nat /\ b + 1 = position
  BY <1>1, <1>4
<1>6. value = Number(a, b)
  <2>1. PICK f : Sums(f, a, b) /\ f[b] = value
    BY <1>2 DEF ReadFrom
  <2> HIDE DEF b
  <2> QED BY <1>5, <2>1, SumsAreNumber
<1>7. \A i \in a .. b : text[i] \in Digits
  BY <1>2 DEF ReadFrom
<1>8. b < Len(text) => text[b + 1] \notin Digits
  BY <1>1, <1>3, <1>5 DEF AtDigit, More
<1>9. /\ n \in 1 .. Len(text) /\ text[n] = "name" /\ \A i \in 1 .. n - 1 : text[i] # "name"
      /\ c \in 1 .. Len(text) /\ n < c /\ text[c] = ":" /\ \A i \in n + 1 .. c - 1 : text[i] # ":"
      /\ s \in c .. Len(text) /\ \A i \in c + 1 .. s : Blank(i)
  BY <1>2 DEF Field, FirstName, FirstColon, Spaces
<1>10. IF negative THEN s = a - 2 /\ text[a - 1] = "-" ELSE s = a - 1
  BY <1>2 DEF Field, Signed
<1>11. s \in c .. a - 1 /\ c < a
  BY <1>1, <1>5, <1>9, <1>10
<1> HIDE DEF b
<1> QED BY <1>5, <1>6, <1>7, <1>8, <1>9, <1>10, <1>11

\* For every width and every text, what is returned is the number that is
\* written in the first field of the name, all of its digits.
THEOREM TheFieldIsRead == Spec => []ReadsTheField
  BY ScanInit, ScanNext, ScanEnds, PTL DEF Spec

-------------------------------------------------------------------------------
\* TokenLifetime

LEMMA Quotient ==
  ASSUME NEW d \in Nat \ {0}, NEW a \in Int
  PROVE  (a * d) \div d = a
  OBVIOUS

LEMMA QuotientBounds ==
  ASSUME NEW d \in Nat \ {0}, NEW a \in Int
  PROVE  /\ a \div d \in Int
         /\ a >= 0 => a \div d >= 0 /\ a \div d <= a
         /\ a < 0 => a \div d < 0
  OBVIOUS

\* What was asked for, and what the AccessToken of a binding was given of it,
\* which fits the clock.
LifetimeInv ==
  /\ lifetime \in Int /\ now \in Int /\ ttl \in Int /\ time \in Int
  /\ host # "cpp" /\ token_phase \in {"token", "signed"} =>
       /\ ttl = Token!Seconds(lifetime) /\ ttl > 0
       /\ time = Token!Seconds(now) * TicksPerSecond /\ Token!Seconds(now) >= 0
       /\ Token!Seconds(now) + ttl <= Token!MaxSeconds

LifetimeIInv == LifetimeInv /\ LifetimeFits

\* Seconds are whole, and fewer than their ticks.
LEMMA SecondsBounds ==
  /\ Token!MaxSeconds \in Int /\ Token!MaxSeconds <= MaxClock
  /\ \A t \in Int : /\ Token!Seconds(t) \in Int
                     /\ t < 0 => Token!Seconds(t) < 0
  BY ClockAssumption, QuotientBounds DEF Token!ClockFits, Token!MaxSeconds, Token!Seconds

LEMMA LifetimeInit == Token!Init => LifetimeIInv
  BY ClockAssumption
  DEF Token!Init, Token!ClockFits, LifetimeIInv, LifetimeInv, LifetimeFits, Token!LifetimeFits

\* A builder refuses what no token can be made of, and keeps the rest.
LEMMA BuilderInv ==
  ASSUME LifetimeIInv, NEW h, NEW accepted, Token!Builds(h, accepted),
         ~accepted => \/ Token!Seconds(now) < 0 \/ Token!Seconds(lifetime) <= 0
                      \/ ~Token!Whole(lifetime)
  PROVE  LifetimeIInv'
  BY DEF Token!Builds, LifetimeIInv, LifetimeInv, LifetimeFits, Token!LifetimeFits,
         Token!Seconds, Token!Whole

\* Each builder looks at the sign, and at the fraction or the epoch if at all.
LEMMA BuildersInv ==
  ASSUME LifetimeIInv,
         \/ Token!PythonToken \/ Token!DotNetToken \/ Token!JavaToken \/ Token!ZigToken
         \/ Token!PhpToken \/ Token!RubyToken \/ Token!RustToken
  PROVE  LifetimeIInv'
<1>1. Token!Seconds(lifetime) \in Int /\ (now < 0 => Token!Seconds(now) < 0) /\ now \in Int
  BY SecondsBounds, ClockAssumption DEF Token!ClockFits, Token!Seconds, LifetimeIInv, LifetimeInv
<1>2. ~Token!Positive => Token!Seconds(lifetime) <= 0
  BY <1>1 DEF Token!Positive
<1>3. CASE Token!PythonToken \/ Token!DotNetToken
  BY <1>2, <1>3, BuilderInv DEF Token!PythonToken, Token!DotNetToken
<1>4. CASE Token!JavaToken \/ Token!ZigToken \/ Token!PhpToken \/ Token!RubyToken
  BY <1>2, <1>4, BuilderInv DEF Token!JavaToken, Token!ZigToken, Token!PhpToken, Token!RubyToken
<1>5. CASE Token!RustToken
  <2>1. ~(Token!Positive /\ now >= 0) => Token!Seconds(now) < 0 \/ Token!Seconds(lifetime) <= 0
    BY <1>1, <1>2
  <2> QED BY <1>5, <2>1, BuilderInv DEF Token!RustToken
<1> QED BY <1>3, <1>4, <1>5

\* Sign refuses exactly what the clock cannot hold.
LEMMA SignInv ==
  ASSUME LifetimeIInv, Token!Sign
  PROVE  LifetimeIInv'
<1> DEFINE valid_for == Token!Seconds(lifetime)
           signed_at == Token!Seconds(now)
<1>1. /\ valid_for \in Int /\ signed_at \in Int
      /\ Token!MaxSeconds \in Int /\ Token!MaxSeconds <= MaxClock
      /\ MaxClock \in Int /\ TicksPerSecond \in Int
  BY SecondsBounds, ClockAssumption DEF Token!Seconds, Token!MaxSeconds, LifetimeIInv, LifetimeInv, Token!ClockFits
<1>2. /\ UNCHANGED <<host, lifetime, now, nbf, exp>> /\ token_phase = "native"
      /\ UNCHANGED <<Token!Seconds(lifetime), Token!Seconds(now), Token!Whole(lifetime)>>
  BY DEF Token!Sign, Token!Seconds, Token!Whole
<1> HIDE DEF valid_for, signed_at
<1>3. CASE ~Token!Readable(valid_for) \/ ~Token!Readable(signed_at) \/ Token!OutOfRange(valid_for, signed_at)
  <2>1. token_phase' = "refused" /\ UNCHANGED <<ttl, time>>
    BY <1>3 DEF Token!Sign, valid_for, signed_at
  <2>2. signed_at < 0 \/ valid_for <= 0 \/ signed_at + valid_for > Token!MaxSeconds
    BY <1>1, <1>3 DEF Token!Readable, Token!OutOfRange
  <2> QED BY <1>2, <2>1, <2>2 DEF LifetimeIInv, LifetimeInv, LifetimeFits, Token!LifetimeFits, valid_for, signed_at
<1>4. CASE Token!Readable(valid_for) /\ Token!Readable(signed_at) /\ ~Token!OutOfRange(valid_for, signed_at)
  <2>1. token_phase' = "token" /\ ttl' = valid_for /\ time' = signed_at * TicksPerSecond
    BY <1>4 DEF Token!Sign, valid_for, signed_at
  <2>2. signed_at >= 0 /\ valid_for > 0 /\ signed_at + valid_for <= Token!MaxSeconds
    BY <1>1, <1>4 DEF Token!OutOfRange
  <2>3. signed_at * TicksPerSecond \in Int
    BY <1>1
  <2> QED BY <1>1, <1>2, <2>1, <2>2, <2>3
          DEF LifetimeIInv, LifetimeInv, LifetimeFits, Token!LifetimeFits, valid_for, signed_at
<1> QED BY <1>3, <1>4

\* What ToJwt writes is the time and the sum of Sign, for neither is rounded nor
\* wraps.
LEMMA ToJwtInv ==
  ASSUME LifetimeIInv, Token!ToJwt
  PROVE  LifetimeIInv'
<1>1. /\ UNCHANGED <<host, lifetime, now, ttl, time>> /\ token_phase = "token"
      /\ UNCHANGED <<Token!Seconds(lifetime), Token!Seconds(now), Token!Whole(lifetime)>>
      /\ token_phase' \in {"signed", "unauthenticated"}
  BY DEF Token!ToJwt, Token!Seconds, Token!Whole
<1>2. ASSUME host # "cpp", token_phase' = "signed"
      PROVE  /\ nbf' = Token!Seconds(now) /\ exp' = nbf' + Token!Seconds(lifetime)
             /\ 0 <= nbf' /\ nbf' < exp' /\ exp' <= Token!MaxSeconds
  <2> DEFINE at == Token!Seconds(now)
  <2>1. /\ ttl = Token!Seconds(lifetime) /\ ttl > 0 /\ ttl \in Int /\ at \in Int /\ at >= 0
        /\ time = at * TicksPerSecond /\ at + ttl <= Token!MaxSeconds
    BY <1>1, <1>2, SecondsBounds, ClockAssumption DEF Token!ClockFits, Token!Seconds, LifetimeIInv, LifetimeInv
  <2>2. TicksPerSecond \in Nat \ {0}
    BY ClockAssumption DEF Token!ClockFits
  <2> HIDE DEF at
  <2>3. time >= 0
    BY <2>1, <2>2
  <2>4. Token!IssuedAt = at
    BY <2>1, <2>2, <2>3, Quotient DEF Token!IssuedAt, Token!Seconds
  <2>5. at + ttl <= MaxClock /\ Token!MaxSeconds \in Int
    BY <2>1, SecondsBounds, ClockAssumption DEF Token!ClockFits
  <2>6. Token!Sum(at, ttl) = at + ttl
    BY <2>1, <2>5, ClockAssumption DEF Token!Sum, Token!ClockFits
  <2>7. nbf' = at /\ exp' = at + ttl
    BY <1>2, <2>4, <2>6 DEF Token!ToJwt
  <2> QED BY <2>1, <2>5, <2>7 DEF at
<1> QED BY <1>1, <1>2 DEF LifetimeIInv, LifetimeInv, LifetimeFits, Token!LifetimeFits

\* Of an application in C++ nothing is promised.
LEMMA SetValidForInv ==
  ASSUME LifetimeIInv, Token!SetValidFor
  PROVE  LifetimeIInv'
  BY SecondsBounds, ClockAssumption DEF Token!ClockFits, Token!Seconds, Token!SetValidFor, LifetimeIInv, LifetimeInv, LifetimeFits, Token!LifetimeFits

LEMMA LifetimeNext == LifetimeIInv /\ [Token!Next]_(token_vars) => LifetimeIInv'
<1> SUFFICES ASSUME LifetimeIInv, [Token!Next]_(token_vars) PROVE LifetimeIInv'
  OBVIOUS
<1>1. CASE Token!Sign
  BY <1>1, SignInv
<1>2. CASE Token!SetValidFor
  BY <1>2, SetValidForInv
<1>3. CASE Token!ToJwt
  BY <1>3, ToJwtInv
<1>4. CASE Token!Returned \/ UNCHANGED token_vars
  BY <1>4 DEF Token!Returned, Token!vars, token_vars, LifetimeIInv, LifetimeInv, LifetimeFits,
              Token!LifetimeFits, Token!Seconds, Token!Whole
<1> QED BY <1>1, <1>2, <1>3, <1>4, BuildersInv DEF Token!Next

\* For every clock, every time and every lifetime a token that is made through
\* a binding lives for what was asked for, and only what no clock could hold is
\* refused.
THEOREM TokenLives == Token!Spec => []LifetimeFits
<1>1. Token!Spec => []LifetimeIInv
  <2>1. LifetimeIInv /\ [Token!Next]_(Token!vars) => LifetimeIInv'
    BY LifetimeNext DEF Token!vars, token_vars
  <2> QED BY <2>1, LifetimeInit, PTL DEF Token!Spec
<1>2. LifetimeIInv => LifetimeFits
  BY DEF LifetimeIInv
<1> QED BY <1>1, <1>2, PTL

-------------------------------------------------------------------------------
\* Digest

\* Where a hash is, as its next call says: what is open, whether the digest has been
\* made, and that its input was taken whole.
DigestInv ==
  /\ Sha256!DigestSound
  /\ library = "openssl" \/ length <= MaxInput \/ step \in {"begin", "end"}
  /\ library = "bcrypt" /\ step = "close" /\ ~failed => digest = "digest"
  /\ step # "end" => outcome = "none"
  /\ step = "begin" => handles = {} /\ ~failed /\ digest = "none"
  /\ library = "openssl" => handles = {} /\ step \in {"begin", "end"}
  /\ library \in {"bcrypt", "openssl"}

LEMMA DigestNext == DigestInv /\ [Sha256!Next]_(digest_vars) => DigestInv'
<1> SUFFICES ASSUME DigestInv, [Sha256!Next]_(digest_vars) PROVE DigestInv'
  OBVIOUS
<1> USE DEF DigestInv, Sha256!DigestSound, Sha256!At, Sha256!Ends
<1>1. CASE Sha256!Begin
  BY <1>1 DEF Sha256!Begin
<1>2. CASE Sha256!TooLarge
  BY <1>2 DEF Sha256!TooLarge
<1>3. CASE Sha256!Open \/ Sha256!Properties \/ Sha256!Allocate \/ Sha256!Create \/ Sha256!Hash
  BY <1>3 DEF Sha256!Open, Sha256!Properties, Sha256!Allocate, Sha256!Create, Sha256!Hash
<1>4. CASE Sha256!NotInitialized \/ Sha256!Close
  BY <1>4 DEF Sha256!NotInitialized, Sha256!Close
<1>5. CASE Sha256!Finish
  BY <1>5 DEF Sha256!Finish
<1>6. CASE Sha256!OpenSsl
  BY <1>6 DEF Sha256!OpenSsl
<1>7. CASE UNCHANGED digest_vars
  BY <1>7 DEF digest_vars
<1> QED BY <1>1, <1>2, <1>3, <1>4, <1>5, <1>6, <1>7 DEF Sha256!Next, Sha256!Ended, Sha256!vars, digest_vars

LEMMA DigestInit == Sha256!Init => DigestInv
  BY DEF Sha256!Init, DigestInv, Sha256!DigestSound

\* Whatever call of the cryptographic library fails and whatever the length of the
\* input, only a finished digest of all of it is returned, and no handle stays
\* open but when memory ran out.
THEOREM DigestIsSound == Sha256!Spec => []Sha256!DigestSound
<1>1. DigestInv => Sha256!DigestSound
  BY DEF DigestInv
<1> QED BY <1>1, DigestInit, DigestNext, PTL DEF Sha256!Spec, Sha256!vars, digest_vars

-------------------------------------------------------------------------------
\* A text comes back from its escaping.

\* Induction over the numbers, for the set of those that have a property.
LEMMA SetInduction ==
  ASSUME NEW S, 0 \in S, \A n \in Nat : n \in S => n + 1 \in S
  PROVE  Nat \subseteq S
<1> SUFFICES ASSUME NEW m \in Nat, m \notin S PROVE FALSE
  OBVIOUS
<1> DEFINE T == {n \in Nat : n \notin S}
<1>1. PICK x \in T : \A y \in T : x =< y
  BY LeastNumber, m \in T
<1>2. x # 0 /\ x - 1 \in Nat /\ x - 1 \notin T
  BY <1>1
<1> QED BY <1>1, <1>2

\* What is written of a text up to its character n.
Joined(f, pieces, n) == f = [i \in 1 .. n |-> IF i = 1 THEN pieces[i] ELSE f[i - 1] \o pieces[i]]

Signs == Claims!Characters \cup {"n", "u", "0", "1", "f"}

LEMMA JoinedExist ==
  ASSUME NEW pieces, NEW n \in Nat
  PROVE  \E f : Joined(f, pieces, n)
<1> DEFINE S == {m \in Nat : \E f : Joined(f, pieces, m)}
<1>1. 0 \in S
  <2> DEFINE f == [i \in 1 .. 0 |-> pieces[i]]
  <2>1. f = [i \in 1 .. 0 |-> IF i = 1 THEN pieces[i] ELSE f[i - 1] \o pieces[i]]
    OBVIOUS
  <2>2. Joined(f, pieces, 0)
    BY <2>1 DEF Joined
  <2> HIDE DEF f
  <2> QED BY <2>2
<1>2. ASSUME NEW m \in Nat, m \in S PROVE m + 1 \in S
  <2>1. PICK f : Joined(f, pieces, m)
    BY <1>2
  <2> DEFINE last == IF m + 1 = 1 THEN pieces[m + 1] ELSE f[m] \o pieces[m + 1]
             g == [i \in 1 .. m + 1 |-> IF i = m + 1 THEN last ELSE f[i]]
  <2>2. \A i \in 1 .. m : f[i] = IF i = 1 THEN pieces[i] ELSE f[i - 1] \o pieces[i]
    BY <2>1 DEF Joined
  <2>3. g[m + 1] = last /\ \A i \in 1 .. m : g[i] = f[i]
    <3> HIDE DEF last
    <3> QED OBVIOUS
  <2>4. ASSUME NEW i \in 1 .. m + 1
        PROVE  g[i] = IF i = 1 THEN pieces[i] ELSE g[i - 1] \o pieces[i]
    <3>1. i # 1 => i - 1 \in 1 .. m
      OBVIOUS
    <3>2. i # 1 => g[i - 1] = f[i - 1]
      BY <2>3, <3>1
    <3>3. i = m + 1 \/ i \in 1 .. m
      OBVIOUS
    <3>4. i = m + 1 => i - 1 = m
      OBVIOUS
    <3> HIDE DEF g
    <3> QED BY <2>2, <2>3, <3>2, <3>3, <3>4
  <2>5. g = [i \in 1 .. m + 1 |-> g[i]]
    OBVIOUS
  <2> HIDE DEF g
  <2>6. g = [i \in 1 .. m + 1 |-> IF i = 1 THEN pieces[i] ELSE g[i - 1] \o pieces[i]]
    BY <2>4, <2>5
  <2>7. Joined(g, pieces, m + 1)
    BY <2>6, Zenon DEF Joined
  <2> QED BY <2>7
<1>3. Nat \subseteq S
  <2> HIDE DEF S
  <2> QED BY <1>1, <1>2, SetInduction
<1> QED BY <1>3

\* A sequence of sequences written one after the other: where each starts.
Before(f, k) == IF k = 1 THEN 0 ELSE Len(f[k - 1])

Placed(f, pieces, E, i) ==
  /\ f[i] \in Seq(E) /\ Len(f[i]) = Before(f, i) + Len(pieces[i])
  /\ \A k \in 1 .. i : /\ Before(f, k) \in Nat /\ Before(f, k) + Len(pieces[k]) =< Len(f[i])
                       /\ \A j \in 1 .. Len(pieces[k]) : f[i][Before(f, k) + j] = pieces[k][j]

LEMMA Concatenated ==
  ASSUME NEW E, NEW s \in Seq(E), NEW t \in Seq(E), NEW r, r = s \o t
  PROVE  /\ r \in Seq(E) /\ Len(r) = Len(s) + Len(t) /\ Len(s) \in Nat /\ Len(t) \in Nat
         /\ \A j \in 1 .. Len(s) : r[j] = s[j]
         /\ \A j \in 1 .. Len(t) : r[Len(s) + j] = t[j]
  OBVIOUS

LEMMA JoinedPlaces ==
  ASSUME NEW E, NEW n \in Nat, NEW pieces \in [1 .. n -> Seq(E)], NEW f, Joined(f, pieces, n),
         NEW m \in 1 .. n
  PROVE  Placed(f, pieces, E, m)
<1> DEFINE S == {i \in Nat : i \in 1 .. n => Placed(f, pieces, E, i)}
<1>1. \A i \in 1 .. n : f[i] = IF i = 1 THEN pieces[i] ELSE f[i - 1] \o pieces[i]
  BY DEF Joined
<1>2. 0 \in S
  OBVIOUS
<1>3. ASSUME NEW i \in Nat, i \in S PROVE i + 1 \in S
  <2> SUFFICES ASSUME i + 1 \in 1 .. n PROVE Placed(f, pieces, E, i + 1)
    OBVIOUS
  <2>h. PICK h : h = i + 1
    OBVIOUS
  <2>0. h \in 1 .. n /\ pieces[h] \in Seq(E) /\ Len(pieces[h]) \in Nat
    BY <2>h
  <2>1. CASE i = 0
    <3>1. h = 1
      BY <2>h, <2>1
    <3>2. f[h] = pieces[h]
      BY <1>1, <3>1
    <3>3. \A k \in 1 .. h : k = h
      BY <3>1
    <3>4. Before(f, h) = 0
      BY <3>1 DEF Before
    <3>5. Placed(f, pieces, E, h)
      <4>1. ASSUME NEW k \in 1 .. h, NEW j \in 1 .. Len(pieces[k])
            PROVE  f[h][Before(f, k) + j] = pieces[k][j]
        <5>1. k = h
          BY <3>3
        <5>2. j \in 1 .. Len(pieces[h])
          BY <5>1
        <5>3. Before(f, k) + j = j
          BY <2>0, <3>4, <5>1, <5>2
        <5> QED BY <3>2, <5>1, <5>3
      <4>2. ASSUME NEW k \in 1 .. h PROVE Before(f, k) \in Nat /\ Before(f, k) + Len(pieces[k]) =< Len(f[h])
        <5>1. k = h
          BY <3>3
        <5>2. Before(f, k) = 0 /\ pieces[k] = f[h]
          BY <3>2, <3>4, <5>1
        <5>3. Len(f[h]) \in Nat
          BY <2>0, <3>2
        <5> QED BY <5>2, <5>3
      <4>3. f[h] \in Seq(E) /\ Len(f[h]) = Before(f, h) + Len(pieces[h])
        BY <2>0, <3>2, <3>4
      <4> QED BY <4>1, <4>2, <4>3 DEF Placed
    <3> QED BY <2>h, <3>5
  <2>2. CASE i # 0
    <3>1. i \in 1 .. n /\ h \in 1 .. n /\ h - 1 = i /\ h # 1
      BY <2>h, <2>2
    <3>2. Placed(f, pieces, E, i)
      BY <1>3, <3>1
    <3>3. \A k \in 1 .. h : k = h \/ k \in 1 .. i
      BY <3>1
    <3>4. f[h] = f[i] \o pieces[h] /\ Before(f, h) = Len(f[i])
      BY <1>1, <3>1 DEF Before
    <3>5. f[i] \in Seq(E)
      BY <3>2 DEF Placed
    <3>6. /\ f[h] \in Seq(E) /\ Len(f[h]) = Len(f[i]) + Len(pieces[h]) /\ Len(f[i]) \in Nat
          /\ \A j \in 1 .. Len(f[i]) : f[h][j] = f[i][j]
          /\ \A j \in 1 .. Len(pieces[h]) : f[h][Len(f[i]) + j] = pieces[h][j]
      BY <2>0, <3>4, <3>5, Concatenated
    <3>7. ASSUME NEW k \in 1 .. i
          PROVE  /\ Before(f, k) \in Nat /\ Before(f, k) + Len(pieces[k]) =< Len(f[h])
                 /\ \A j \in 1 .. Len(pieces[k]) : f[h][Before(f, k) + j] = pieces[k][j]
      <4>1. pieces[k] \in Seq(E) /\ Len(pieces[k]) \in Nat
        <5>1. k \in 1 .. n
          BY <3>1
        <5> QED BY <5>1
      <4>2. /\ Before(f, k) \in Nat /\ Before(f, k) + Len(pieces[k]) =< Len(f[i])
            /\ \A j \in 1 .. Len(pieces[k]) : f[i][Before(f, k) + j] = pieces[k][j]
        BY <3>2 DEF Placed
      <4>b. PICK b, z, n1, n2, n3 : b = Before(f, k) /\ z = Len(pieces[k]) /\ n1 = Len(f[i])
                                   /\ n2 = Len(pieces[h]) /\ n3 = Len(f[h])
        OBVIOUS
      <4>n. n2 \in Nat /\ n3 = n1 + n2 /\ n1 \in Nat
        BY <2>0, <3>6, <4>b
      <4>m. z \in Nat /\ b \in Nat /\ b + z =< n1
        BY <4>1, <4>2, <4>b
      <4>3. \A j \in 1 .. Len(pieces[k]) : Before(f, k) + j \in 1 .. Len(f[i])
        <5>1. \A j \in 1 .. z : b + j \in 1 .. n1
          BY <4>m, <4>n
        <5> QED BY <4>b, <5>1
      <4>4. Before(f, k) + Len(pieces[k]) =< Len(f[h])
        <5>1. b + z =< n3
          BY <4>m, <4>n
        <5> QED BY <4>b, <5>1
      <4>5. ASSUME NEW j \in 1 .. Len(pieces[k]) PROVE f[h][Before(f, k) + j] = pieces[k][j]
        <5>1. PICK p : p = Before(f, k) + j
          OBVIOUS
        <5>2. f[h][p] = f[i][p]
          BY <3>6, <4>3, <5>1
        <5> QED BY <4>2, <5>1, <5>2
      <4> QED BY <4>2, <4>4, <4>5
    <3>8. Placed(f, pieces, E, h)
      <4>1. ASSUME NEW k \in 1 .. h
            PROVE  /\ Before(f, k) \in Nat /\ Before(f, k) + Len(pieces[k]) =< Len(f[h])
                   /\ \A j \in 1 .. Len(pieces[k]) : f[h][Before(f, k) + j] = pieces[k][j]
        <5>1. CASE k = h
          <6>1. Before(f, k) = Len(f[i]) /\ pieces[k] = pieces[h]
            BY <3>4, <5>1
          <6>2. Len(f[i]) \in Nat /\ Len(f[i]) + Len(pieces[h]) =< Len(f[h])
            BY <2>0, <3>6
          <6>3. ASSUME NEW j \in 1 .. Len(pieces[k]) PROVE f[h][Before(f, k) + j] = pieces[k][j]
            <7>1. j \in 1 .. Len(pieces[h]) /\ Before(f, k) + j = Len(f[i]) + j
              BY <6>1
            <7>2. f[h][Len(f[i]) + j] = pieces[h][j]
              BY <3>6, <7>1
            <7> QED BY <6>1, <7>1, <7>2
          <6>4. Before(f, k) + Len(pieces[k]) =< Len(f[h])
            BY <6>1, <6>2
          <6> QED BY <6>1, <6>2, <6>3, <6>4
        <5>2. CASE k \in 1 .. i
          BY <3>7, <5>2
        <5> QED BY <3>3, <5>1, <5>2
      <4> QED BY <3>4, <3>6, <4>1 DEF Placed
    <3> QED BY <2>h, <3>8
  <2> QED BY <2>1, <2>2
<1>4. Nat \subseteq S
  <2> HIDE DEF S
  <2> QED BY <1>2, <1>3, SetInduction
<1> QED BY <1>4

\* The characters that JSON escapes.
LEMMA EscapeOf ==
  /\ Claims!Escape("a") = <<"a">>
  /\ Claims!Escape("quote") = <<"backslash", "quote">>
  /\ Claims!Escape("backslash") = <<"backslash", "backslash">>
  /\ Claims!Escape("newline") = <<"backslash", "n">>
  /\ Claims!Escape("control") = <<"backslash", "u", "0", "0", "1", "f">>
  BY DEF Claims!Escape

LEMMA EscapeSigns ==
  ASSUME NEW c \in Claims!Characters
  PROVE  Claims!Escape(c) \in Seq(Signs)
<1>1. {"a", "quote", "backslash", "newline", "control", "n", "u", "0", "1", "f"} \subseteq Signs
  BY DEF Signs, Claims!Characters
<1>2. c \in {"a", "quote", "backslash", "newline", "control"}
  BY DEF Claims!Characters
<1>3. CASE c = "a"
  <2>1. "a" \in Signs
    BY <1>1
  <2>2. <<"a">> \in Seq(Signs)
    BY <2>1
  <2> QED BY <1>3, <2>2, EscapeOf
<1>4. CASE c = "quote"
  <2>1. "backslash" \in Signs /\ "quote" \in Signs
    BY <1>1
  <2>2. <<"backslash", "quote">> \in Seq(Signs)
    BY <2>1
  <2> QED BY <1>4, <2>2, EscapeOf
<1>5. CASE c = "backslash"
  <2>1. "backslash" \in Signs
    BY <1>1
  <2>2. <<"backslash", "backslash">> \in Seq(Signs)
    BY <2>1
  <2> QED BY <1>5, <2>2, EscapeOf
<1>6. CASE c = "newline"
  <2>1. "backslash" \in Signs /\ "n" \in Signs
    BY <1>1
  <2>2. <<"backslash", "n">> \in Seq(Signs)
    BY <2>1
  <2> QED BY <1>6, <2>2, EscapeOf
<1>7. CASE c = "control"
  <2>1. "backslash" \in Signs /\ "u" \in Signs /\ "0" \in Signs /\ "1" \in Signs /\ "f" \in Signs
    BY <1>1
  <2>2. <<"backslash", "u", "0", "0", "1", "f">> \in Seq(Signs)
    BY <2>1
  <2> QED BY <1>7, <2>2, EscapeOf
<1> QED BY <1>2, <1>3, <1>4, <1>5, <1>6, <1>7

\* Where each character of a text is in its escaped text.
Escaped(t, e, at) ==
  /\ e \in Seq(Signs) /\ Len(e) \in Nat
  /\ at \in [1 .. Len(t) + 1 -> Nat] /\ at[1] = 1 /\ at[Len(t) + 1] = Len(e) + 1
  /\ \A k \in 1 .. Len(t) :
       /\ at[k] >= 1 /\ at[k + 1] = at[k] + Len(Claims!Escape(t[k])) /\ at[k + 1] =< Len(e) + 1
       /\ \A j \in 1 .. Len(Claims!Escape(t[k])) : e[at[k] + j - 1] = Claims!Escape(t[k])[j]

LEMMA EscapeJsonPlaces ==
  ASSUME NEW t \in Seq(Claims!Characters), Len(t) # 0
  PROVE  \E at : Escaped(t, Claims!EscapeJson(t), at)
<1> DEFINE pieces == [i \in DOMAIN t |-> Claims!Escape(t[i])]
<1>1. PICK n \in Nat : n = Len(t) /\ n # 0 /\ DOMAIN t = 1 .. n
  OBVIOUS
<1>2. pieces \in [1 .. n -> Seq(Signs)] /\ \A i \in 1 .. n : pieces[i] = Claims!Escape(t[i])
  BY <1>1, EscapeSigns
<1>3. Claims!EscapeJson(t) = Claims!FlattenSeq(pieces)
  BY DEF Claims!EscapeJson
<1> HIDE DEF pieces
<1>4. pieces \in Seq(Signs) \/ Len(pieces) = n
  BY <1>1, <1>2
<1>5. Len(pieces) = n
  BY <1>1, <1>2
<1> DEFINE f == CHOOSE f : Joined(f, pieces, n)
<1>6. Joined(f, pieces, n)
  BY JoinedExist
<1>7. Claims!FlattenSeq(pieces) = f[n]
  BY <1>1, <1>5, Zenon DEF Claims!FlattenSeq, Joined
<1> HIDE DEF f
<1>8. \A m \in 1 .. n : Placed(f, pieces, Signs, m)
  BY <1>2, <1>6, JoinedPlaces
<1> DEFINE at == [k \in 1 .. n + 1 |-> Before(f, k) + 1]
           e == f[n]
<1>9. e \in Seq(Signs) /\ Len(e) \in Nat
  BY <1>1, <1>8 DEF Placed
<1>10. n \in 1 .. n /\ Before(f, 1) = 0 /\ n + 1 # 1 /\ (n + 1) - 1 = n
  BY <1>1 DEF Before
<1>11. ASSUME NEW k \in 1 .. n
       PROVE  /\ Before(f, k) \in Nat /\ Before(f, k + 1) = Before(f, k) + Len(pieces[k])
              /\ Len(pieces[k]) \in Nat /\ Before(f, k + 1) =< Len(e)
  <2>1. Len(pieces[k]) \in Nat /\ k + 1 # 1 /\ (k + 1) - 1 = k /\ k \in 1 .. k
    BY <1>2
  <2>2. Before(f, k + 1) = Len(f[k])
    BY <2>1 DEF Before
  <2>3. Len(f[k]) = Before(f, k) + Len(pieces[k]) /\ Before(f, k) \in Nat
    BY <1>8, <2>1 DEF Placed
  <2>4. Before(f, k) + Len(pieces[k]) =< Len(f[n])
    BY <1>8, <1>10 DEF Placed
  <2> QED BY <2>1, <2>2, <2>3, <2>4
<1>12. Before(f, n + 1) = Len(e)
  BY <1>10 DEF Before
<1>13. ASSUME NEW k \in 1 .. n, NEW j \in 1 .. Len(pieces[k])
       PROVE  e[Before(f, k) + j] = pieces[k][j]
  BY <1>8, <1>10 DEF Placed
<1> HIDE DEF e
<1>14. /\ at \in [1 .. n + 1 -> Nat] /\ at[1] = 1 /\ at[n + 1] = Len(e) + 1
       /\ \A k \in 1 .. n : at[k] = Before(f, k) + 1 /\ at[k + 1] = Before(f, k + 1) + 1
  <2>1. ASSUME NEW k \in 1 .. n + 1 PROVE Before(f, k) \in Nat
    <3>1. k = n + 1 \/ k \in 1 .. n
      OBVIOUS
    <3> QED BY <1>9, <1>11, <1>12, <3>1
  <2>2. at[1] = 1 /\ at[n + 1] = Len(e) + 1
    BY <1>9, <1>10, <1>12
  <2> QED BY <2>1, <2>2
<1> HIDE DEF at
<1>15. Escaped(t, e, at)
  <2>1. ASSUME NEW k \in 1 .. n
        PROVE  /\ at[k] >= 1 /\ at[k + 1] = at[k] + Len(pieces[k]) /\ at[k + 1] =< Len(e) + 1
               /\ \A j \in 1 .. Len(pieces[k]) : e[at[k] + j - 1] = pieces[k][j]
    <3>1. /\ at[k] = Before(f, k) + 1 /\ at[k + 1] = Before(f, k + 1) + 1
          /\ Before(f, k) \in Nat /\ Before(f, k + 1) = Before(f, k) + Len(pieces[k])
          /\ Len(pieces[k]) \in Nat /\ Before(f, k + 1) =< Len(e)
      BY <1>11, <1>14
    <3>2. ASSUME NEW j \in 1 .. Len(pieces[k]) PROVE e[at[k] + j - 1] = pieces[k][j]
      <4>1. at[k] + j - 1 = Before(f, k) + j
        BY <3>1
      <4> QED BY <1>13, <4>1
    <3>3. at[k] >= 1 /\ at[k + 1] = at[k] + Len(pieces[k]) /\ at[k + 1] =< Len(e) + 1
      <4>1. PICK b, b1, m, l : /\ b = Before(f, k) /\ b1 = Before(f, k + 1)
                               /\ m = Len(pieces[k]) /\ l = Len(e)
        OBVIOUS
      <4>2. b \in Nat /\ m \in Nat /\ b1 = b + m /\ b1 =< l /\ l \in Nat
        BY <1>9, <3>1, <4>1
      <4>3. b + 1 >= 1 /\ b1 + 1 = (b + 1) + m /\ b1 + 1 =< l + 1
        BY <4>2
      <4> QED BY <3>1, <4>1, <4>3
    <3> QED BY <3>2, <3>3
  <2> QED BY <1>1, <1>2, <1>9, <1>14, <2>1 DEF Escaped
<1> QED BY <1>3, <1>7, <1>15 DEF e

\* How JSON is read from place i on, when f is how it is read from later ones.
ReadAt(f, e, i) ==
  IF i > Len(e) THEN <<>>
  ELSE IF e[i] \in {"quote", "newline", "control"} THEN <<"malformed">>
  ELSE IF e[i] # "backslash" THEN <<e[i]>> \o f[i + 1]
  ELSE IF i = Len(e) THEN <<"malformed">>
  ELSE IF e[i + 1] = "u" THEN <<"control">> \o f[i + 6]
  ELSE <<IF e[i + 1] = "n" THEN "newline" ELSE e[i + 1]>> \o f[i + 2]

Reading(f, e, a) == f = [i \in a .. Len(e) + 6 |-> ReadAt(f, e, i)]

LEMMA ReadingStep ==
  ASSUME NEW e, Len(e) \in Nat, NEW a \in Nat, a =< Len(e) + 6, NEW f, Reading(f, e, a + 1)
  PROVE  \E g : Reading(g, e, a)
<1> DEFINE L == Len(e)
           last == ReadAt(f, e, a)
           g == [i \in a .. L + 6 |-> IF i = a THEN last ELSE f[i]]
<1>1. \A i \in a + 1 .. L + 6 : f[i] = ReadAt(f, e, i)
  BY Zenon DEF Reading
<1>2. /\ g[a] = last
      /\ \A i \in a + 1 .. L + 6 : g[i] = f[i]
  <2> HIDE DEF last
  <2> QED OBVIOUS
<1>3. ASSUME NEW i \in a .. L + 6 PROVE g[i] = ReadAt(g, e, i)
  <2>1. g[i] = ReadAt(f, e, i)
    <3>1. i = a \/ i \in a + 1 .. L + 6
      OBVIOUS
    <3> HIDE DEF g
    <3> QED BY <1>1, <1>2, <3>1
  <2>2. i =< L => /\ g[i + 1] = f[i + 1] /\ g[i + 2] = f[i + 2] /\ g[i + 6] = f[i + 6]
    <3>1. i =< L => i + 1 \in a + 1 .. L + 6 /\ i + 2 \in a + 1 .. L + 6 /\ i + 6 \in a + 1 .. L + 6
      OBVIOUS
    <3> HIDE DEF g
    <3> QED BY <1>2, <3>1
  <2>3. i > L \/ i =< L
    OBVIOUS
  <2> HIDE DEF g
  <2>4. ReadAt(g, e, i) = ReadAt(f, e, i)
    BY <2>2, <2>3, Zenon DEF ReadAt
  <2> QED BY <2>1, <2>4
<1>4. g = [i \in a .. L + 6 |-> g[i]]
  OBVIOUS
<1> HIDE DEF g
<1>5. g = [i \in a .. L + 6 |-> ReadAt(g, e, i)]
  BY <1>3, <1>4
<1> QED BY <1>5, Zenon DEF Reading, L

LEMMA ReadingExists ==
  ASSUME NEW e, Len(e) \in Nat
  PROVE  \E f : Reading(f, e, 1)
<1> DEFINE L == Len(e)
           S == {m \in Nat : m =< L + 6 => \E f : Reading(f, e, L + 7 - m)}
<1>1. 0 \in S
  <2> DEFINE f == [i \in L + 7 .. L + 6 |-> <<>>]
  <2>1. f = [i \in L + 7 .. L + 6 |-> ReadAt(f, e, i)]
    OBVIOUS
  <2>2. Reading(f, e, L + 7)
    BY <2>1, Zenon DEF Reading
  <2> HIDE DEF f
  <2>3. L + 7 - 0 = L + 7
    OBVIOUS
  <2> QED BY <2>2, <2>3
<1>2. ASSUME NEW m \in Nat, m \in S PROVE m + 1 \in S
  <2> SUFFICES ASSUME m + 1 =< L + 6 PROVE \E f : Reading(f, e, L + 7 - (m + 1))
    OBVIOUS
  <2>1. PICK a : a = L + 6 - m
    OBVIOUS
  <2>2. a \in Nat /\ a =< L + 6 /\ a + 1 = L + 7 - m /\ L + 7 - (m + 1) = a
    BY <2>1
  <2>3. \E f : Reading(f, e, a + 1)
    BY <1>2, <2>2
  <2>4. \E f : Reading(f, e, a)
    BY <2>2, <2>3, ReadingStep
  <2> QED BY <2>2, <2>4
<1>3. Nat \subseteq S
  <2> HIDE DEF S
  <2> QED BY <1>1, <1>2, SetInduction
<1>4. L + 6 \in S /\ L + 7 - (L + 6) = 1
  BY <1>3
<1> QED BY <1>4

\* The reader takes the character k of a text where it was written, and goes on
\* where the next one was.
ReadsOne(t, e, at, f, k) ==
  at[k] \in 1 .. Len(e) /\ ReadAt(f, e, at[k]) = <<t[k]>> \o f[at[k + 1]]

\* An escaped character is read as itself.
LEMMA ReadCharacter ==
  ASSUME NEW t \in Seq(Claims!Characters), NEW e, NEW at, Escaped(t, e, at),
         NEW f, NEW k \in 1 .. Len(t)
  PROVE  ReadsOne(t, e, at, f, k)
<1>1. PICK p, q, c : p = at[k] /\ q = at[k + 1] /\ c = t[k]
  OBVIOUS
<1>2. c \in {"a", "quote", "backslash", "newline", "control"}
  BY <1>1 DEF Claims!Characters
<1>3. Len(t) \in Nat /\ k \in 1 .. Len(t) + 1
  OBVIOUS
<1>4. p \in Nat /\ p >= 1 /\ Len(e) \in Nat
  BY <1>1, <1>3 DEF Escaped
<1>5. PICK s : s = Claims!Escape(c)
  OBVIOUS
<1>6. q = p + Len(s) /\ q =< Len(e) + 1 /\ \A j \in 1 .. Len(s) : e[p + j - 1] = s[j]
  BY <1>1, <1>5 DEF Escaped
<1>7. (1 \in 1 .. Len(s) => e[p] = s[1]) /\ (2 \in 1 .. Len(s) => e[p + 1] = s[2])
  <2>1. p + 1 - 1 = p /\ p + 2 - 1 = p + 1
    BY <1>4
  <2> QED BY <1>6, <2>1
<1>8. CASE c = "a"
  <2>1. Len(s) = 1 /\ s[1] = "a" /\ 1 \in 1 .. Len(s)
    <3>1. s = <<"a">>
      BY <1>5, <1>8, EscapeOf
    <3> QED BY <3>1
  <2>2. q = p + 1 /\ p \in 1 .. Len(e) /\ ~(p > Len(e)) /\ e[p] = "a"
    BY <1>4, <1>6, <1>7, <2>1
  <2>3. e[p] \notin {"quote", "newline", "control"} /\ e[p] # "backslash"
    BY <2>2
  <2>4. ReadAt(f, e, p) = <<e[p]>> \o f[p + 1]
    BY <2>2, <2>3, Zenon DEF ReadAt
  <2> QED BY <1>1, <1>8, <2>2, <2>4 DEF ReadsOne
<1>9. CASE c \in {"quote", "backslash", "newline"}
  <2>1. Len(s) = 2 /\ s[1] = "backslash" /\ s[2] = (IF c = "newline" THEN "n" ELSE c)
    <3>1. s = <<"backslash", IF c = "newline" THEN "n" ELSE c>>
      BY <1>5, <1>9, EscapeOf
    <3> QED BY <3>1
  <2>2. /\ q = p + 2 /\ p \in 1 .. Len(e) /\ ~(p > Len(e)) /\ p # Len(e)
        /\ e[p] = "backslash" /\ e[p + 1] = IF c = "newline" THEN "n" ELSE c
    BY <1>4, <1>6, <1>7, <2>1
  <2>3. /\ e[p] \notin {"quote", "newline", "control"} /\ ~(e[p] # "backslash")
        /\ e[p + 1] # "u" /\ (IF e[p + 1] = "n" THEN "newline" ELSE e[p + 1]) = c
    BY <1>9, <2>2
  <2>4. ReadAt(f, e, p) = <<IF e[p + 1] = "n" THEN "newline" ELSE e[p + 1]>> \o f[p + 2]
    BY <2>2, <2>3, Zenon DEF ReadAt
  <2>5. ReadAt(f, e, p) = <<c>> \o f[p + 2]
    BY <2>3, <2>4, Zenon
  <2> QED BY <1>1, <2>2, <2>5 DEF ReadsOne
<1>10. CASE c = "control"
  <2>1. Len(s) = 6 /\ s[1] = "backslash" /\ s[2] = "u"
    <3>1. s = <<"backslash", "u", "0", "0", "1", "f">>
      BY <1>5, <1>10, EscapeOf
    <3> QED BY <3>1
  <2>2. /\ q = p + 6 /\ p \in 1 .. Len(e) /\ ~(p > Len(e)) /\ p # Len(e)
        /\ e[p] = "backslash" /\ e[p + 1] = "u"
    <3>1. q = p + 6 /\ q =< Len(e) + 1
      BY <1>6, <2>1
    <3>2. p \in 1 .. Len(e) /\ ~(p > Len(e)) /\ p # Len(e)
      BY <1>4, <3>1
    <3>3. 1 \in 1 .. Len(s) /\ 2 \in 1 .. Len(s)
      BY <2>1
    <3> QED BY <1>7, <2>1, <3>1, <3>2, <3>3
  <2>3. e[p] \notin {"quote", "newline", "control"} /\ ~(e[p] # "backslash")
    BY <2>2
  <2>4. ReadAt(f, e, p) = <<"control">> \o f[p + 6]
    BY <2>2, <2>3, Zenon DEF ReadAt
  <2> QED BY <1>1, <1>10, <2>2, <2>4 DEF ReadsOne
<1> QED BY <1>2, <1>8, <1>9, <1>10

LEMMA FirstAndRest ==
  ASSUME NEW t, NEW S, t \in Seq(S), NEW k \in 1 .. Len(t)
  PROVE  <<t[k]>> \o SubSeq(t, k + 1, Len(t)) = SubSeq(t, k, Len(t))
<1>1. PICK n \in Nat : n = Len(t) /\ t \in [1 .. n -> S]
  OBVIOUS
<1>2. PICK r : r = SubSeq(t, k + 1, n)
  OBVIOUS
<1>3. r \in Seq(S) /\ Len(r) = n - k /\ \A i \in 1 .. n - k : r[i] = t[k + i]
  <2>0. k \in Nat /\ k >= 1 /\ k =< n
    BY <1>1
  <2>1. k + 1 \in 1 .. Len(t) + 1 /\ n \in (k + 1) - 1 .. Len(t) /\ n - (k + 1) + 1 = n - k
    BY <1>1
  <2>2. r \in Seq(S) /\ Len(r) = n - (k + 1) + 1
    BY <1>2, <2>1, SubSeqProperties
  <2>3. \A i \in 1 .. n - (k + 1) + 1 : r[i] = t[(k + 1) + i - 1]
    BY <1>2, <2>1, SubSeqProperties
  <2>4. \A i \in 1 .. n - k : (k + 1) + i - 1 = k + i
    BY <1>1
  <2> QED BY <2>1, <2>2, <2>3, <2>4
<1>4. PICK u : u = SubSeq(t, k, n)
  OBVIOUS
<1>5. u \in Seq(S) /\ Len(u) = n - k + 1 /\ \A i \in 1 .. n - k + 1 : u[i] = t[k + i - 1]
  <2>1. k \in 1 .. Len(t) + 1 /\ n \in k - 1 .. Len(t)
    BY <1>1
  <2>2. /\ SubSeq(t, k, n) \in Seq(S) /\ Len(SubSeq(t, k, n)) = n - k + 1
        /\ \A i \in 1 .. n - k + 1 : SubSeq(t, k, n)[i] = t[k + i - 1]
    BY <2>1, SubSeqProperties
  <2> QED BY <1>4, <2>2
<1>6. PICK h : h = <<t[k]>>
  OBVIOUS
<1>7. h \in Seq(S) /\ Len(h) = 1 /\ h[1] = t[k]
  <2>1. t[k] \in S
    OBVIOUS
  <2> QED BY <1>6, <2>1
<1>8. PICK v : v = h \o r
  OBVIOUS
<1>9. /\ v \in Seq(S) /\ Len(v) = n - k + 1
      /\ v[1] = h[1] /\ \A i \in 1 .. n - k : v[1 + i] = r[i]
  <2>1. /\ v \in Seq(S) /\ Len(v) = Len(h) + Len(r)
        /\ \A j \in 1 .. Len(h) : v[j] = h[j]
        /\ \A j \in 1 .. Len(r) : v[Len(h) + j] = r[j]
    <3>1. h \in Seq(S) /\ r \in Seq(S) /\ v = h \o r
      BY <1>3, <1>7, <1>8
    <3> QED BY <3>1, Concatenated
  <2>2. Len(h) + Len(r) = n - k + 1 /\ 1 \in 1 .. Len(h) /\ Len(r) = n - k
    BY <1>1, <1>3, <1>7
  <2> QED BY <1>7, <2>1, <2>2
<1>10. ASSUME NEW i \in 1 .. n - k + 1 PROVE v[i] = u[i]
  <2>1. CASE i = 1
    <3>1. k + 1 - 1 = k /\ 1 \in 1 .. n - k + 1
      BY <1>1
    <3>2. u[1] = t[k]
      BY <1>5, <3>1
    <3> QED BY <1>7, <1>9, <2>1, <3>2
  <2>2. CASE i # 1
    <3>1. PICK j : j = i - 1
      OBVIOUS
    <3>2. j \in 1 .. n - k /\ 1 + j = i /\ k + i - 1 = k + j
      BY <1>1, <2>2, <3>1
    <3>3. v[i] = r[j] /\ r[j] = t[k + j] /\ u[i] = t[k + i - 1]
      BY <1>3, <1>5, <1>9, <3>2
    <3> QED BY <3>2, <3>3
  <2> QED BY <2>1, <2>2
<1>11. v = u
  <2>1. \A i \in 1 .. Len(v) : v[i] = u[i]
    BY <1>9, <1>10
  <2>2. Len(v) = Len(u)
    BY <1>5, <1>9
  <2> QED BY <1>5, <1>9, <2>1, <2>2, SeqEqual
<1> QED BY <1>1, <1>2, <1>4, <1>6, <1>8, <1>11

\* A text is read back from its escaped text.
LEMMA ReadBack ==
  ASSUME NEW t \in Seq(Claims!Characters)
  PROVE  Claims!Read(Claims!EscapeJson(t)) = t
<1>1. PICK e : e = Claims!EscapeJson(t)
  OBVIOUS
<1>r. ASSUME Len(e) \in Nat
      PROVE  \E f : Reading(f, e, 1) /\ Claims!Read(e) = f[1]
  <2> DEFINE f == CHOOSE f : Reading(f, e, 1)
  <2>1. Reading(f, e, 1)
    BY <1>r, ReadingExists
  <2>2. Claims!Read(e) = f[1]
    BY Zenon DEF Claims!Read, Reading, ReadAt
  <2> HIDE DEF f
  <2> QED BY <2>1, <2>2
<1>2. CASE Len(t) = 0
  <2>1. t = <<>> /\ DOMAIN t = {}
    BY <1>2
  <2>2. [i \in DOMAIN t |-> Claims!Escape(t[i])] = <<>>
    BY <2>1
  <2>3. e = <<>>
    BY <1>1, <2>2 DEF Claims!EscapeJson, Claims!FlattenSeq
  <2>4. Len(e) \in Nat /\ Len(e) = 0
    BY <2>3
  <2>5. PICK f : Reading(f, e, 1) /\ Claims!Read(e) = f[1]
    BY <1>r, <2>4
  <2>6. f[1] = ReadAt(f, e, 1)
    BY <2>4, <2>5 DEF Reading
  <2>7. ReadAt(f, e, 1) = <<>>
    <3>1. 1 > Len(e)
      BY <2>4
    <3> QED BY <3>1, Zenon DEF ReadAt
  <2> QED BY <1>1, <2>1, <2>5, <2>6, <2>7
<1>3. CASE Len(t) # 0
  <2>1. PICK at : Escaped(t, e, at)
    BY <1>1, <1>3, EscapeJsonPlaces
  <2>2. PICK L \in Nat : L = Len(e)
    BY <2>1 DEF Escaped
  <2>3. PICK f : Reading(f, e, 1) /\ Claims!Read(e) = f[1]
    BY <1>r, <2>2
  <2>4. \A i \in 1 .. L + 6 : f[i] = ReadAt(f, e, i)
    BY <2>2, <2>3, Zenon DEF Reading
  <2>5. PICK n \in Nat : n = Len(t) /\ n >= 1 /\ t \in [1 .. n -> Claims!Characters]
    BY <1>3
  <2> DEFINE S == {m \in Nat : m =< n => f[at[n + 1 - m]] = SubSeq(t, n + 1 - m, n)}
  <2>6. 0 \in S
    <3>1. at[n + 1] = L + 1
      BY <2>1, <2>2, <2>5 DEF Escaped
    <3>2. L + 1 \in 1 .. L + 6 /\ L + 1 > Len(e)
      BY <2>2
    <3>3. f[L + 1] = <<>>
      <4>1. ReadAt(f, e, L + 1) = <<>>
        BY <3>2, Zenon DEF ReadAt
      <4> QED BY <2>4, <3>2, <4>1
    <3>4. SubSeq(t, n + 1, n) = <<>>
      <4>1. n + 1 > n
        BY <2>5
      <4> QED BY <2>5
    <3>5. n + 1 - 0 = n + 1
      BY <2>5
    <3> QED BY <3>1, <3>3, <3>4, <3>5
  <2>7. ASSUME NEW m \in Nat, m \in S PROVE m + 1 \in S
    <3> SUFFICES ASSUME m + 1 =< n PROVE f[at[n + 1 - (m + 1)]] = SubSeq(t, n + 1 - (m + 1), n)
      OBVIOUS
    <3> HIDE DEF S
    <3>0. n - m \in 1 .. n
      BY <2>5
    <3>1. PICK k \in 1 .. n : k = n - m
      BY <3>0
    <3>2. k + 1 = n + 1 - m /\ n + 1 - (m + 1) = k /\ m =< n
      BY <3>1
    <3>7. k \in 1 .. Len(t)
      BY <2>5
    <3>3. f[at[k + 1]] = SubSeq(t, k + 1, n)
      BY <2>7, <3>2 DEF S
    <3>4. at[k] \in 1 .. L /\ ReadAt(f, e, at[k]) = <<t[k]>> \o f[at[k + 1]]
      <4>1. ReadsOne(t, e, at, f, k)
        BY <2>1, <3>7, ReadCharacter
      <4> QED BY <2>2, <4>1 DEF ReadsOne
    <3>5. f[at[k]] = ReadAt(f, e, at[k])
      <4>1. at[k] \in 1 .. L + 6
        BY <3>4
      <4> QED BY <2>4, <4>1
    <3>6. <<t[k]>> \o SubSeq(t, k + 1, n) = SubSeq(t, k, n)
      BY <2>5, <3>7, FirstAndRest
    <3> QED BY <3>2, <3>3, <3>4, <3>5, <3>6
  <2>8. Nat \subseteq S
    <3> HIDE DEF S
    <3> QED BY <2>6, <2>7, SetInduction
  <2>9. n \in S /\ n + 1 - n = 1 /\ n =< n
    BY <2>5, <2>8
  <2>10. f[at[1]] = SubSeq(t, 1, n)
    BY <2>9
  <2>11. at[1] = 1
    BY <2>1 DEF Escaped
  <2>12. SubSeq(t, 1, n) = t
    BY <2>5, SubSeqFull
  <2> QED BY <1>1, <2>3, <2>10, <2>11, <2>12
<1> QED BY <1>2, <1>3

-------------------------------------------------------------------------------
\* The names of the fields of a grant.

\* How the names of two words and more are spelt.
LEMMA CamelCaseOf ==
  /\ Claims!CamelCase("room_create") = "roomCreate"
  /\ Claims!CamelCase("room_list") = "roomList"
  /\ Claims!CamelCase("room_record") = "roomRecord"
  /\ Claims!CamelCase("room_admin") = "roomAdmin"
  /\ Claims!CamelCase("room_join") = "roomJoin"
  /\ Claims!CamelCase("ingress_admin") = "ingressAdmin"
  /\ Claims!CamelCase("destination_room") = "destinationRoom"
  /\ Claims!CamelCase("can_publish") = "canPublish"
  /\ Claims!CamelCase("can_subscribe") = "canSubscribe"
  /\ Claims!CamelCase("can_publish_data") = "canPublishData"
  /\ Claims!CamelCase("can_update_own_metadata") = "canUpdateOwnMetadata"
  /\ Claims!CamelCase("can_publish_sources") = "canPublishSources"
  /\ Claims!CamelCase("simulation_admin") = "simulationAdmin"
  BY DEF Claims!CamelCase

LEMMA OneWordNames ==
  \A f \in {"hidden", "recorder", "agent", "room", "admin", "call"} : Claims!CamelCase(f) = f
  BY DEF Claims!CamelCase

LongNames == {"room_create", "room_list", "room_record", "room_admin", "room_join",
              "ingress_admin", "destination_room", "can_publish", "can_subscribe",
              "can_publish_data", "can_update_own_metadata", "can_publish_sources",
              "simulation_admin"}

LEMMA GrantNames ==
  ASSUME NEW f \in Claims!GrantFields
  PROVE  f \in LongNames \cup {"hidden", "recorder", "agent", "room", "admin", "call"}
  BY DEF Claims!GrantFields, Claims!VideoGrant, Claims!SipGrant, Claims!AgentGrant,
         Claims!Flags, Claims!Optionals, Claims!Lists, Claims!Rooms, LongNames

\* No two names are spelt alike.
LEMMA NamesStayApart ==
  ASSUME NEW f \in Claims!GrantFields, NEW g \in Claims!GrantFields,
         Claims!CamelCase(f) = Claims!CamelCase(g)
  PROVE  f = g
<1>1. f \in LongNames \cup {"hidden", "recorder", "agent", "room", "admin", "call"}
  BY GrantNames
<1>2. g \in LongNames \cup {"hidden", "recorder", "agent", "room", "admin", "call"}
  BY GrantNames
<1>3. CASE f \in {"hidden", "recorder", "agent", "room", "admin", "call"}
  BY <1>2, <1>3, CamelCaseOf, OneWordNames DEF LongNames
<1>4. CASE f \in LongNames
  BY <1>2, <1>4, CamelCaseOf, OneWordNames DEF LongNames
<1> QED BY <1>1, <1>3, <1>4

LEMMA SpeltBack ==
  ASSUME NEW f \in Claims!GrantFields
  PROVE  Claims!SnakeCase(Claims!CamelCase(f)) = f
  BY NamesStayApart DEF Claims!SnakeCase

LEMMA RenamedOnce ==
  ASSUME NEW o, DOMAIN o \subseteq Claims!GrantFields
  PROVE  /\ DOMAIN Claims!Renamed(o, Claims!CamelCase) = {Claims!CamelCase(f) : f \in DOMAIN o}
         /\ Claims!Renamed(o, Claims!CamelCase) =
              [n \in DOMAIN Claims!Renamed(o, Claims!CamelCase) |->
                 Claims!Renamed(o, Claims!CamelCase)[n]]
         /\ \A f \in DOMAIN o : Claims!Renamed(o, Claims!CamelCase)[Claims!CamelCase(f)] = o[f]
<1>1. Claims!Renamed(o, Claims!CamelCase) =
        [n \in {Claims!CamelCase(f) : f \in DOMAIN o} |->
           o[CHOOSE f \in DOMAIN o : Claims!CamelCase(f) = n]]
  BY Zenon DEF Claims!Renamed
<1>2. ASSUME NEW f \in DOMAIN o
      PROVE  (CHOOSE g \in DOMAIN o : Claims!CamelCase(g) = Claims!CamelCase(f)) = f
  BY NamesStayApart
<1> QED BY <1>1, <1>2

LEMMA RenamedBack ==
  ASSUME NEW o, DOMAIN o \subseteq Claims!GrantFields, o = [f \in DOMAIN o |-> o[f]]
  PROVE  Claims!Renamed(Claims!Renamed(o, Claims!CamelCase), Claims!SnakeCase) = o
<1>1. PICK r : r = Claims!Renamed(o, Claims!CamelCase)
  OBVIOUS
<1>2. /\ DOMAIN r = {Claims!CamelCase(f) : f \in DOMAIN o}
      /\ \A f \in DOMAIN o : r[Claims!CamelCase(f)] = o[f]
  BY <1>1, RenamedOnce
<1>3. Claims!Renamed(r, Claims!SnakeCase) =
        [n \in {Claims!SnakeCase(f) : f \in DOMAIN r} |->
           r[CHOOSE f \in DOMAIN r : Claims!SnakeCase(f) = n]]
  BY Zenon DEF Claims!Renamed
<1>4. {Claims!SnakeCase(f) : f \in DOMAIN r} = DOMAIN o
  BY <1>2, SpeltBack
<1>5. ASSUME NEW f \in DOMAIN o
      PROVE  r[CHOOSE g \in DOMAIN r : Claims!SnakeCase(g) = f] = o[f]
  <2>1. Claims!CamelCase(f) \in DOMAIN r /\ Claims!SnakeCase(Claims!CamelCase(f)) = f
    BY <1>2, SpeltBack
  <2>2. ASSUME NEW g \in DOMAIN r, Claims!SnakeCase(g) = f PROVE g = Claims!CamelCase(f)
    BY <1>2, <2>2, SpeltBack
  <2>3. (CHOOSE g \in DOMAIN r : Claims!SnakeCase(g) = f) = Claims!CamelCase(f)
    BY <2>1, <2>2
  <2> QED BY <1>2, <2>3
<1> QED BY <1>1, <1>3, <1>4, <1>5

-------------------------------------------------------------------------------
\* A grant comes back from each of its forms.

JsonTexts == Seq(Claims!Characters)

\* What a field of a grant holds.
GoodValue(f, s) ==
  IF f \in Claims!Rooms THEN \E t \in JsonTexts : s = {t}
  ELSE IF f \in Claims!Lists THEN \E l \in Seq(JsonTexts) : s = {l}
  ELSE IF f \in Claims!Optionals THEN s = {} \/ s = {TRUE} \/ s = {FALSE}
  ELSE s = {TRUE} \/ s = {FALSE}

GoodGrant(section, g) ==
  /\ g = [f \in Claims!Fields(section) |-> g[f]]
  /\ \A f \in Claims!Fields(section) : GoodValue(f, g[f])

LEMMA FieldsOfSections ==
  ASSUME NEW section \in Claims!Sections
  PROVE  /\ Claims!Fields(section) \subseteq Claims!GrantFields
         /\ \A f \in Claims!Fields(section) :
              f \notin Claims!Flags \cup Claims!SipGrant \cup Claims!AgentGrant <=>
              f \in Claims!Optionals \cup Claims!Lists \cup Claims!Rooms
<1>1. section \in {"video", "sip", "agent"}
  BY DEF Claims!Sections
<1>2. /\ Claims!Fields("video") = Claims!VideoGrant
      /\ Claims!Fields("sip") = Claims!SipGrant
      /\ Claims!Fields("agent") = Claims!AgentGrant
  BY DEF Claims!Fields
<1> QED BY <1>1, <1>2 DEF Claims!GrantFields, Claims!VideoGrant, Claims!SipGrant,
           Claims!AgentGrant, Claims!Flags, Claims!Optionals, Claims!Lists, Claims!Rooms

LEMMA ShortTextsAreTexts ==
  /\ <<>> \in JsonTexts /\ <<"quote">> \in JsonTexts /\ <<"a">> \in JsonTexts
  /\ <<>> \in Seq(JsonTexts) /\ << <<"quote">>, <<"a">> >> \in Seq(JsonTexts)
<1>1. "quote" \in Claims!Characters /\ "a" \in Claims!Characters
  BY DEF Claims!Characters
<1>2. <<>> \in JsonTexts /\ <<"quote">> \in JsonTexts /\ <<"a">> \in JsonTexts
  BY <1>1 DEF JsonTexts
<1> HIDE DEF JsonTexts
<1>3. PICK q \in JsonTexts, a \in JsonTexts : q = <<"quote">> /\ a = <<"a">>
  BY <1>2
<1>4. <<q, a>> \in Seq(JsonTexts) /\ <<>> \in Seq(JsonTexts)
  OBVIOUS
<1> QED BY <1>2, <1>3, <1>4

LEMMA ValuesAreGood ==
  ASSUME NEW f
  PROVE  /\ GoodValue(f, Claims!Values(f)[1])
         /\ GoodValue(f, Claims!Last(Claims!Values(f)))
         /\ \A v \in Claims!Range(Claims!Values(f)) : GoodValue(f, v)
<1>1. PICK s : s = Claims!Values(f)
  OBVIOUS
<1>2. /\ Claims!Last(s) = s[Len(s)]
      /\ \A v \in Claims!Range(s) : \E i \in DOMAIN s : v = s[i]
  BY DEF Claims!Last, Claims!Range
<1>3. SUFFICES DOMAIN s = 1 .. Len(s) /\ Len(s) \in {2, 3} /\ \A i \in 1 .. Len(s) : GoodValue(f, s[i])
  BY <1>1, <1>2
<1>4. CASE f \in Claims!Rooms
  <2>1. s = <<{<<>>}, {<<"quote">>}>>
    BY <1>1, <1>4, Zenon DEF Claims!Values
  <2>2. DOMAIN s = 1 .. 2 /\ Len(s) = 2 /\ s[1] = {<<>>} /\ s[2] = {<<"quote">>}
    BY <2>1
  <2> QED BY <1>4, <2>2, ShortTextsAreTexts DEF GoodValue
<1>5. CASE f \notin Claims!Rooms /\ f \in Claims!Lists
  <2>1. s = <<{<<>>}, {<< <<"quote">>, <<"a">> >>}>>
    BY <1>1, <1>5, Zenon DEF Claims!Values
  <2>2. DOMAIN s = 1 .. 2 /\ Len(s) = 2 /\ s[1] = {<<>>} /\ s[2] = {<< <<"quote">>, <<"a">> >>}
    BY <2>1
  <2>3. GoodValue(f, s[1])
    BY <1>5, <2>2, ShortTextsAreTexts, Zenon DEF GoodValue
  <2>4. GoodValue(f, s[2])
    BY <1>5, <2>2, ShortTextsAreTexts, Zenon DEF GoodValue
  <2>5. \A i \in 1 .. Len(s) : i = 1 \/ i = 2
    BY <2>2
  <2> QED BY <2>2, <2>3, <2>4, <2>5
<1>6. CASE f \notin Claims!Rooms /\ f \notin Claims!Lists /\ f \in Claims!Optionals
  <2>1. s = <<{}, {TRUE}, {FALSE}>>
    BY <1>1, <1>6, Zenon DEF Claims!Values
  <2>2. DOMAIN s = 1 .. 3 /\ Len(s) = 3 /\ s[1] = {} /\ s[2] = {TRUE} /\ s[3] = {FALSE}
    BY <2>1
  <2>3. GoodValue(f, s[1]) /\ GoodValue(f, s[2]) /\ GoodValue(f, s[3])
    BY <1>6, <2>2, Zenon DEF GoodValue
  <2>4. \A i \in 1 .. Len(s) : i = 1 \/ i = 2 \/ i = 3
    BY <2>2
  <2> QED BY <2>2, <2>3, <2>4
<1>7. CASE f \notin Claims!Rooms /\ f \notin Claims!Lists /\ f \notin Claims!Optionals
  <2>1. s = <<{FALSE}, {TRUE}>>
    BY <1>1, <1>7, Zenon DEF Claims!Values
  <2>2. DOMAIN s = 1 .. 2 /\ Len(s) = 2 /\ s[1] = {FALSE} /\ s[2] = {TRUE}
    BY <2>1
  <2>3. GoodValue(f, s[1]) /\ GoodValue(f, s[2])
    BY <1>7, <2>2, Zenon DEF GoodValue
  <2>4. \A i \in 1 .. Len(s) : i = 1 \/ i = 2
    BY <2>2
  <2> QED BY <2>2, <2>3, <2>4
<1> QED BY <1>4, <1>5, <1>6, <1>7

LEMMA GrantsAreGood ==
  ASSUME NEW section, NEW g \in Claims!Grants(section)
  PROVE  GoodGrant(section, g)
<1> DEFINE F == Claims!Fields(section)
           blank == [f \in F |-> Claims!Values(f)[1]]
           full == [f \in F |-> Claims!Last(Claims!Values(f))]
<1>1. g = full \/ \E f \in F : \E v \in Claims!Range(Claims!Values(f)) : g = [blank EXCEPT ![f] = v]
  BY DEF Claims!Grants
<1>2. CASE g = full
  <2>1. g = [f \in F |-> g[f]]
    BY <1>2
  <2>2. \A f \in F : g[f] = Claims!Last(Claims!Values(f))
    BY <1>2
  <2> HIDE DEF full
  <2> QED BY <2>1, <2>2, ValuesAreGood DEF GoodGrant
<1>3. ASSUME NEW h \in F, NEW v \in Claims!Range(Claims!Values(h)), g = [blank EXCEPT ![h] = v]
      PROVE  GoodGrant(section, g)
  <2>1. g = [f \in F |-> g[f]]
    BY <1>3
  <2>2. \A f \in F : g[f] = IF f = h THEN v ELSE Claims!Values(f)[1]
    BY <1>3
  <2> HIDE DEF blank
  <2>3. \A f \in F : GoodValue(f, g[f])
    BY <1>3, <2>2, ValuesAreGood
  <2> QED BY <2>1, <2>3 DEF GoodGrant
<1> QED BY <1>1, <1>2, <1>3

\* A grant comes back from the object a binding makes of it.
LEMMA GrantBack ==
  ASSUME NEW section \in Claims!Sections, NEW g, GoodGrant(section, g)
  PROVE  /\ DOMAIN Claims!Object(g) \subseteq Claims!GrantFields
         /\ Claims!Object(g) = [f \in DOMAIN Claims!Object(g) |-> Claims!Object(g)[f]]
         /\ Claims!Grant(section, Claims!Object(g)) = g
<1> DEFINE F == Claims!Fields(section)
<1>1. g = [f \in F |-> g[f]] /\ DOMAIN g = F /\ \A f \in F : GoodValue(f, g[f])
  BY DEF GoodGrant
<1>2. PICK o : o = Claims!Object(g)
  OBVIOUS
<1>3. o = [f \in {f \in F : g[f] # {}} |-> CHOOSE v \in g[f] : TRUE]
  BY <1>1, <1>2 DEF Claims!Object
<1>4. /\ DOMAIN o = {f \in F : g[f] # {}}
      /\ o = [f \in DOMAIN o |-> o[f]]
      /\ \A f \in F : \A v : g[f] = {v} => f \in DOMAIN o /\ o[f] = v
  BY <1>3
<1>5. DOMAIN o \subseteq Claims!GrantFields
  BY <1>4, FieldsOfSections
<1>6. ASSUME NEW f \in F
      PROVE  g[f] = IF f \in Claims!Flags \cup Claims!SipGrant \cup Claims!AgentGrant
                    THEN {Claims!Boolean(o, f)}
                    ELSE IF f \in Claims!Optionals
                         THEN IF Claims!Has(o, f) THEN {Claims!Boolean(o, f)} ELSE {}
                         ELSE {Claims!Field(o, f)}
  <2>1. GoodValue(f, g[f])
    BY <1>1
  <2>2. ASSUME NEW b, g[f] = {b}, b = TRUE \/ b = FALSE PROVE Claims!Boolean(o, f) = b /\ Claims!Has(o, f)
    <3>1. f \in DOMAIN o /\ o[f] = b
      BY <1>4, <2>2
    <3> QED BY <2>2, <3>1 DEF Claims!Boolean, Claims!Has
  <2>3. ASSUME NEW t, g[f] = {t} PROVE Claims!Field(o, f) = t
    <3>1. f \in DOMAIN o /\ o[f] = t
      BY <1>4, <2>3
    <3> QED BY <3>1 DEF Claims!Field, Claims!Has
  <2>4. g[f] = {} => ~Claims!Has(o, f)
    BY <1>4 DEF Claims!Has
  <2>5. CASE f \in Claims!Rooms \cup Claims!Lists
    <3>1. f \notin Claims!Flags \cup Claims!SipGrant \cup Claims!AgentGrant
      BY <2>5, FieldsOfSections
    <3>2. f \notin Claims!Optionals
      BY <2>5 DEF Claims!Rooms, Claims!Lists, Claims!Optionals
    <3>3. \E t : g[f] = {t}
      BY <2>1, <2>5 DEF GoodValue
    <3> QED BY <2>3, <3>1, <3>2, <3>3
  <2>6. CASE f \notin Claims!Rooms \cup Claims!Lists /\ f \in Claims!Optionals
    <3>1. f \notin Claims!Flags \cup Claims!SipGrant \cup Claims!AgentGrant
      BY <2>6, FieldsOfSections
    <3>2. g[f] = {} \/ g[f] = {TRUE} \/ g[f] = {FALSE}
      BY <2>1, <2>6 DEF GoodValue
    <3>3. CASE g[f] = {}
      BY <2>4, <2>6, <3>1, <3>3, Zenon
    <3>4. CASE g[f] = {TRUE}
      BY <2>2, <2>6, <3>1, <3>4, Zenon
    <3>5. CASE g[f] = {FALSE}
      BY <2>2, <2>6, <3>1, <3>5, Zenon
    <3> QED BY <3>2, <3>3, <3>4, <3>5
  <2>7. CASE f \notin Claims!Rooms \cup Claims!Lists /\ f \notin Claims!Optionals
    <3>1. f \in Claims!Flags \cup Claims!SipGrant \cup Claims!AgentGrant
      BY <2>7, FieldsOfSections
    <3>2. g[f] = {TRUE} \/ g[f] = {FALSE}
      BY <2>1, <2>7 DEF GoodValue
    <3>3. CASE g[f] = {TRUE}
      BY <2>2, <3>1, <3>3, Zenon
    <3>4. CASE g[f] = {FALSE}
      BY <2>2, <3>1, <3>4, Zenon
    <3> QED BY <3>2, <3>3, <3>4
  <2> QED BY <2>5, <2>6, <2>7
<1>7. Claims!Grant(section, o) = [f \in F |-> g[f]]
  BY <1>6, Zenon DEF Claims!Grant
<1> QED BY <1>1, <1>2, <1>4, <1>5, <1>7

\* The names of Java are undone by the JNI code.
LEMMA JavaBack ==
  ASSUME NEW section \in Claims!Sections, NEW g, GoodGrant(section, g)
  PROVE  Claims!Renamed(Claims!JavaObject(g), Claims!SnakeCase) = Claims!Object(g)
  BY GrantBack, RenamedBack DEF Claims!JavaObject

\* What a server finds in the claims of a grant.
LEMMA GrantTold ==
  ASSUME NEW section \in Claims!Sections, NEW g, GoodGrant(section, g),
         claims[section] = Claims!GrantJson(g)
  PROVE  g = [f \in Claims!Fields(section) |-> Claims!Told(section, f)]
<1> DEFINE F == Claims!Fields(section)
           stated == {f \in DOMAIN g : Claims!Stated(f, g[f])}
           o == [f \in stated |-> Claims!Json(f, CHOOSE v \in g[f] : TRUE)]
<1>1. g = [f \in F |-> g[f]] /\ DOMAIN g = F /\ \A f \in F : GoodValue(f, g[f])
  BY DEF GoodGrant
<1>2. PICK c : c = claims[section]
  OBVIOUS
<1>3. c = Claims!Renamed(o, Claims!CamelCase)
  BY <1>2, Zenon DEF Claims!GrantJson
<1>4. DOMAIN o = stated /\ stated \subseteq Claims!GrantFields
  BY <1>1, FieldsOfSections
<1>5. \A f \in stated : o[f] = Claims!Json(f, CHOOSE v \in g[f] : TRUE)
  OBVIOUS
<1> HIDE DEF o
<1>6. /\ DOMAIN c = {Claims!CamelCase(f) : f \in stated}
      /\ \A f \in stated : c[Claims!CamelCase(f)] = o[f]
  BY <1>3, <1>4, RenamedOnce
<1>7. ASSUME NEW f \in F
      PROVE  g[f] = Claims!Told(section, f)
  <2>1. GoodValue(f, g[f]) /\ f \in Claims!GrantFields
    BY <1>1, FieldsOfSections
  <2>2. PICK n : n = Claims!CamelCase(f)
    OBVIOUS
  <2>3. CASE ~Claims!Stated(f, g[f])
    <3>1. n \notin DOMAIN c
      BY <1>4, <1>6, <2>1, <2>2, <2>3, NamesStayApart
    <3>2. Claims!Told(section, f) = Claims!Values(f)[1]
      BY <1>2, <2>2, <3>1, Zenon DEF Claims!Told
    <3>3. PICK s : s = Claims!Values(f)
      OBVIOUS
    <3>4. CASE f \in Claims!Rooms
      <4>1. s = <<{<<>>}, {<<"quote">>}>>
        BY <3>3, <3>4, Zenon DEF Claims!Values
      <4>2. s[1] = {<<>>}
        BY <4>1
      <4>3. g[f] = {<<>>}
        BY <2>3, <3>4, Zenon DEF Claims!Stated
      <4> QED BY <3>2, <3>3, <4>2, <4>3
    <3>5. CASE f \notin Claims!Rooms /\ f \in Claims!Lists
      <4>1. s = <<{<<>>}, {<< <<"quote">>, <<"a">> >>}>>
        BY <3>3, <3>5, Zenon DEF Claims!Values
      <4>2. s[1] = {<<>>}
        BY <4>1
      <4>3. g[f] = {<<>>}
        BY <2>3, <3>5, Zenon DEF Claims!Stated
      <4> QED BY <3>2, <3>3, <4>2, <4>3
    <3>6. CASE f \notin Claims!Rooms /\ f \notin Claims!Lists /\ f \in Claims!Optionals
      <4>1. s = <<{}, {TRUE}, {FALSE}>>
        BY <3>3, <3>6, Zenon DEF Claims!Values
      <4>2. s[1] = {}
        BY <4>1
      <4>3. g[f] = {}
        BY <2>3, <3>6, Zenon DEF Claims!Stated
      <4> QED BY <3>2, <3>3, <4>2, <4>3
    <3>7. CASE f \notin Claims!Rooms /\ f \notin Claims!Lists /\ f \notin Claims!Optionals
      <4>1. s = <<{FALSE}, {TRUE}>>
        BY <3>3, <3>7, Zenon DEF Claims!Values
      <4>2. s[1] = {FALSE}
        BY <4>1
      <4>3. g[f] # {TRUE}
        BY <2>3, <3>7, Zenon DEF Claims!Stated
      <4>4. g[f] = {FALSE}
        BY <2>1, <3>7, <4>3, Zenon DEF GoodValue
      <4> QED BY <3>2, <3>3, <4>2, <4>4
    <3> QED BY <3>4, <3>5, <3>6, <3>7
  <2>4. CASE Claims!Stated(f, g[f])
    <3>1. n \in DOMAIN c /\ c[n] = o[f] /\ f \in stated
      BY <1>1, <1>6, <2>2, <2>4
    <3>2. c[n] = Claims!Json(f, CHOOSE v \in g[f] : TRUE)
      BY <1>5, <3>1
    <3>3. ASSUME NEW v, g[f] = {v} PROVE c[n] = Claims!Json(f, v)
      <4>1. (CHOOSE w \in g[f] : TRUE) = v
        BY <3>3
      <4> QED BY <3>2, <4>1
    <3>4. Claims!Told(section, f) =
            IF f \in Claims!Rooms THEN {Claims!Read(c[n])}
            ELSE IF f \in Claims!Lists THEN {[i \in DOMAIN c[n] |-> Claims!Read(c[n][i])]}
            ELSE {c[n]}
      BY <1>2, <2>2, <3>1, Zenon DEF Claims!Told
    <3>5. CASE f \in Claims!Rooms
      <4>1. PICK t \in JsonTexts : g[f] = {t}
        BY <2>1, <3>5 DEF GoodValue
      <4>2. c[n] = Claims!EscapeJson(t)
        BY <3>3, <3>5, <4>1, Zenon DEF Claims!Json
      <4>3. Claims!Read(Claims!EscapeJson(t)) = t
        BY <4>1, ReadBack DEF JsonTexts
      <4> QED BY <3>4, <3>5, <4>1, <4>2, <4>3, Zenon
    <3>6. CASE f \notin Claims!Rooms /\ f \in Claims!Lists
      <4>1. PICK l \in Seq(JsonTexts) : g[f] = {l}
        BY <2>1, <3>6 DEF GoodValue
      <4>2. c[n] = [i \in DOMAIN l |-> Claims!EscapeJson(l[i])]
        BY <3>3, <3>6, <4>1, Zenon DEF Claims!Json
      <4>3. \A i \in DOMAIN l : Claims!Read(Claims!EscapeJson(l[i])) = l[i]
        BY <4>1, ReadBack DEF JsonTexts
      <4>4. [i \in DOMAIN c[n] |-> Claims!Read(c[n][i])] = [i \in DOMAIN l |-> l[i]]
        BY <4>2, <4>3, Zenon
      <4>5. l = [i \in DOMAIN l |-> l[i]]
        BY <4>1
      <4> QED BY <3>4, <3>6, <4>1, <4>4, <4>5, Zenon
    <3>7. CASE f \notin Claims!Rooms /\ f \notin Claims!Lists
      <4>1. \A v : Claims!Json(f, v) = v
        BY <3>7, Zenon DEF Claims!Json
      <4>2. g[f] = {} \/ g[f] = {TRUE} \/ g[f] = {FALSE}
        BY <2>1, <3>7 DEF GoodValue
      <4>3. g[f] # {}
        BY <2>4, <3>7, Zenon DEF Claims!Stated
      <4>4. \A v : g[f] = {v} => c[n] = v
        BY <3>3, <4>1, Zenon
      <4>5. g[f] = {c[n]}
        BY <4>2, <4>3, <4>4, Zenon
      <4> QED BY <3>4, <3>7, <4>5, Zenon
    <3> QED BY <3>5, <3>6, <3>7
  <2> QED BY <2>3, <2>4
<1> QED BY <1>1, <1>7

-------------------------------------------------------------------------------
\* What a token says.

\* What a field of a token may be set to.
GoodSetting(f, v) ==
  IF f \in Claims!Sections THEN GoodGrant(f, v)
  ELSE IF f = "attributes"
       THEN v = [k \in DOMAIN v |-> v[k]] /\ \A k \in DOMAIN v : v[k] \in JsonTexts
       ELSE v \in JsonTexts

JavaAsked ==
  [f \in DOMAIN asked |-> IF f \in Claims!Sections THEN Claims!JavaObject(asked[f]) ELSE asked[f]]

TokenAsked ==
  [f \in Claims!TokenFields |->
     IF f \in Claims!Sections THEN IF Claims!Has(asked, f) THEN {asked[f]} ELSE {}
     ELSE Claims!Field(asked, f)]

\* The claims that are made of a token.
ClaimsOf(t) ==
  [f \in {f \in Claims!TokenFields :
           IF f \in Claims!Sections THEN t[f] # {} ELSE t[f] # <<>>} |->
     IF f \in Claims!Sections THEN Claims!GrantJson(CHOOSE g \in t[f] : TRUE)
     ELSE IF f = "attributes" THEN [k \in DOMAIN t[f] |-> Claims!EscapeJson(t[f][k])]
     ELSE Claims!EscapeJson(t[f])]

GoodSettings == /\ asked = [f \in DOMAIN asked |-> asked[f]]
                /\ DOMAIN asked \subseteq Claims!TokenFields
                /\ \A f \in DOMAIN asked : GoodSetting(f, asked[f])

\* What each stage makes of what was asked for, whatever the binding.
ClaimsInv ==
  /\ GoodSettings
  /\ stage = "jni" => options = JavaAsked
  /\ stage = "native" => options = Claims!Encoded
  /\ stage = "token" => token = TokenAsked
  /\ stage = "signed" => claims = ClaimsOf(TokenAsked)

LEMMA SettingsAreGood ==
  ASSUME NEW f \in Claims!TokenFields, NEW v \in Claims!Settings(f)
  PROVE  GoodSetting(f, v)
<1>1. f \in {"identity", "name", "metadata", "attributes"} \/ f \in Claims!Sections
  BY DEF Claims!TokenFields
<1>2. CASE f = "identity"
  <2>1. v \in Claims!Identities
    BY <1>2 DEF Claims!Settings
  <2>2. PICK n \in 0 .. MaxText : v \in [1 .. n -> Claims!Characters]
    BY <2>1 DEF Claims!Identities
  <2>3. v \in JsonTexts
    BY <2>2 DEF JsonTexts
  <2> QED BY <1>2, <2>3 DEF GoodSetting, Claims!Sections
<1>3. CASE f \in {"name", "metadata"}
  <2>1. v \in {<<>>, <<"quote">>}
    BY <1>3 DEF Claims!Settings
  <2> QED BY <1>3, <2>1, ShortTextsAreTexts DEF GoodSetting, Claims!Sections
<1>4. CASE f = "attributes"
  <2>1. \/ v = <<>> \/ v = [k \in {"roomJoin"} |-> <<"a">>]
        \/ v = [k \in {"video"} |-> <<"backslash">>]
    BY <1>4 DEF Claims!Settings
  <2>2. <<"backslash">> \in JsonTexts
    <3>1. "backslash" \in Claims!Characters
      BY DEF Claims!Characters
    <3> QED BY <3>1 DEF JsonTexts
  <2>3. v = [k \in DOMAIN v |-> v[k]]
    <3>1. CASE v = <<>>
      BY <3>1
    <3>2. CASE v = [k \in {"roomJoin"} |-> <<"a">>]
      BY <3>2
    <3>3. CASE v = [k \in {"video"} |-> <<"backslash">>]
      BY <3>3
    <3> QED BY <2>1, <3>1, <3>2, <3>3
  <2>4. \A k \in DOMAIN v : v[k] \in JsonTexts
    <3> HIDE DEF JsonTexts
    <3> QED BY <2>1, <2>2, ShortTextsAreTexts
  <2> QED BY <1>4, <2>3, <2>4 DEF GoodSetting, Claims!Sections
<1>5. CASE f \in Claims!Sections
  <2>1. f \notin {"identity", "name", "metadata", "attributes"}
    BY <1>5 DEF Claims!Sections
  <2>2. v \in Claims!Grants(f)
    BY <2>1 DEF Claims!Settings
  <2> QED BY <1>5, <2>2, GrantsAreGood DEF GoodSetting
<1> QED BY <1>1, <1>2, <1>3, <1>4, <1>5

LEMMA ClaimsInit == Claims!Init => ClaimsInv
  BY DEF Claims!Init, ClaimsInv, GoodSettings

LEMMA SetKeeps == ClaimsInv /\ Claims!Set => ClaimsInv'
<1> SUFFICES ASSUME ClaimsInv, Claims!Set PROVE ClaimsInv'
  OBVIOUS
<1>1. PICK f \in Claims!TokenFields : \E v \in Claims!Settings(f) :
        asked' = [g \in DOMAIN asked \cup {f} |-> IF g = f THEN v ELSE asked[g]]
  BY DEF Claims!Set
<1>2. PICK v \in Claims!Settings(f) :
        asked' = [g \in DOMAIN asked \cup {f} |-> IF g = f THEN v ELSE asked[g]]
  BY <1>1
<1>3. stage = "builder" /\ stage' = "builder"
  BY DEF Claims!Set
<1>4. /\ DOMAIN asked' = DOMAIN asked \cup {f}
      /\ asked' = [g \in DOMAIN asked' |-> asked'[g]]
      /\ \A g \in DOMAIN asked' : asked'[g] = IF g = f THEN v ELSE asked[g]
  BY <1>2
<1>5. GoodSetting(f, v)
  BY SettingsAreGood
<1>6. \A g \in DOMAIN asked' : GoodSetting(g, asked'[g])
  BY <1>4, <1>5 DEF ClaimsInv, GoodSettings
<1>7. DOMAIN asked' \subseteq Claims!TokenFields
  BY <1>4 DEF ClaimsInv, GoodSettings
<1>8. GoodSettings'
  BY <1>4, <1>6, <1>7 DEF GoodSettings, GoodSetting
<1> QED BY <1>3, <1>8 DEF ClaimsInv

LEMMA BuilderKeeps == ClaimsInv /\ Claims!Builder => ClaimsInv'
  BY DEF ClaimsInv, Claims!Builder, Claims!Goto, GoodSettings, Claims!Encoded

LEMMA JavaBuilderKeeps == ClaimsInv /\ Claims!JavaBuilder => ClaimsInv'
  BY DEF ClaimsInv, Claims!JavaBuilder, Claims!Goto, GoodSettings, JavaAsked

LEMMA JniKeeps == ClaimsInv /\ Claims!Jni => ClaimsInv'
<1> SUFFICES ASSUME ClaimsInv, Claims!Jni PROVE ClaimsInv'
  OBVIOUS
<1>1. /\ stage = "jni" /\ stage' = "native" /\ asked' = asked
      /\ options' = Claims!Options(options)
  BY DEF Claims!Jni, Claims!Goto
<1>2. options = JavaAsked /\ GoodSettings
  BY <1>1 DEF ClaimsInv
<1>3. /\ DOMAIN options = DOMAIN asked
      /\ \A f \in DOMAIN asked :
           options[f] = IF f \in Claims!Sections THEN Claims!JavaObject(asked[f]) ELSE asked[f]
  BY <1>2 DEF JavaAsked
<1>4. ASSUME NEW f \in DOMAIN asked, f \in Claims!Sections
      PROVE  Claims!Renamed(options[f], Claims!SnakeCase) = Claims!Object(asked[f])
  <2>1. GoodGrant(f, asked[f])
    BY <1>2, <1>4 DEF GoodSettings, GoodSetting
  <2>2. options[f] = Claims!JavaObject(asked[f])
    BY <1>3, <1>4
  <2>3. Claims!Renamed(Claims!JavaObject(asked[f]), Claims!SnakeCase) = Claims!Object(asked[f])
    BY <1>4, <2>1, JavaBack
  <2> QED BY <2>2, <2>3
<1>5. Claims!Options(options) = Claims!Encoded
  BY <1>3, <1>4, Zenon DEF Claims!Options, Claims!Encoded
<1>6. GoodSettings' /\ options' = Claims!Encoded'
  BY <1>1, <1>2, <1>5 DEF GoodSettings, Claims!Encoded
<1> QED BY <1>1, <1>6 DEF ClaimsInv

LEMMA SignKeeps == ClaimsInv /\ Claims!Sign => ClaimsInv'
<1> SUFFICES ASSUME ClaimsInv, Claims!Sign PROVE ClaimsInv'
  OBVIOUS
<1>1. stage = "native" /\ stage' = "token" /\ asked' = asked
  BY DEF Claims!Sign, Claims!Goto
<1>2. options = Claims!Encoded /\ GoodSettings
  BY <1>1 DEF ClaimsInv
<1>3. /\ DOMAIN options = DOMAIN asked
      /\ \A f \in DOMAIN asked :
           options[f] = IF f \in Claims!Sections THEN Claims!Object(asked[f]) ELSE asked[f]
  BY <1>2 DEF Claims!Encoded
<1>4. \A f : Claims!Has(options, f) <=> Claims!Has(asked, f)
  BY <1>3 DEF Claims!Has
<1>5. ASSUME NEW f \in Claims!TokenFields
      PROVE  (IF f \in Claims!Sections
              THEN IF Claims!Has(options, f) THEN {Claims!Grant(f, options[f])} ELSE {}
              ELSE Claims!Field(options, f))
             = (IF f \in Claims!Sections THEN IF Claims!Has(asked, f) THEN {asked[f]} ELSE {}
                ELSE Claims!Field(asked, f))
  <2>1. CASE f \in Claims!Sections /\ Claims!Has(asked, f)
    <3>1. f \in DOMAIN asked
      BY <2>1 DEF Claims!Has
    <3>2. GoodGrant(f, asked[f])
      BY <1>2, <2>1, <3>1 DEF GoodSettings, GoodSetting
    <3>3. options[f] = Claims!Object(asked[f])
      BY <1>3, <2>1, <3>1
    <3>4. Claims!Grant(f, Claims!Object(asked[f])) = asked[f]
      BY <2>1, <3>2, GrantBack
    <3> QED BY <1>4, <2>1, <3>3, <3>4, Zenon
  <2>2. CASE f \in Claims!Sections /\ ~Claims!Has(asked, f)
    BY <1>4, <2>2, Zenon
  <2>3. CASE f \notin Claims!Sections
    <3>1. Claims!Field(options, f) = Claims!Field(asked, f)
      BY <1>3, <1>4, <2>3 DEF Claims!Field, Claims!Has
    <3> QED BY <2>3, <3>1, Zenon
  <2> QED BY <2>1, <2>2, <2>3
<1>6. token' = TokenAsked
  BY <1>5, Zenon DEF Claims!Sign, TokenAsked
<1>7. GoodSettings' /\ token' = TokenAsked'
  BY <1>1, <1>2, <1>6 DEF GoodSettings, TokenAsked
<1> QED BY <1>1, <1>7 DEF ClaimsInv

LEMMA SettersKeep == ClaimsInv /\ Claims!Setters => ClaimsInv'
<1> SUFFICES ASSUME ClaimsInv, Claims!Setters PROVE ClaimsInv'
  OBVIOUS
<1>1. stage' = "token" /\ asked' = asked
  BY DEF Claims!Setters, Claims!Goto
<1>2. token' = TokenAsked
  BY Zenon DEF Claims!Setters, TokenAsked
<1>3. GoodSettings' /\ token' = TokenAsked'
  BY <1>1, <1>2 DEF ClaimsInv, GoodSettings, TokenAsked
<1> QED BY <1>1, <1>3 DEF ClaimsInv

LEMMA ToJwtKeeps == ClaimsInv /\ Claims!ToJwt => ClaimsInv'
<1> SUFFICES ASSUME ClaimsInv, Claims!ToJwt PROVE ClaimsInv'
  OBVIOUS
<1>1. stage = "token" /\ stage' = "signed" /\ asked' = asked
  BY DEF Claims!ToJwt, Claims!Goto
<1>2. token = TokenAsked /\ GoodSettings
  BY <1>1 DEF ClaimsInv
<1>3. claims' = ClaimsOf(token)
  BY Zenon DEF Claims!ToJwt, ClaimsOf
<1>4. TokenAsked' = TokenAsked
  BY <1>1 DEF TokenAsked
<1>5. GoodSettings' /\ claims' = ClaimsOf(TokenAsked')
  BY <1>1, <1>2, <1>3, <1>4 DEF GoodSettings
<1> QED BY <1>1, <1>5 DEF ClaimsInv

LEMMA ClaimsUnchanged == ClaimsInv /\ UNCHANGED claims_vars => ClaimsInv'
<1> SUFFICES ASSUME ClaimsInv, UNCHANGED claims_vars PROVE ClaimsInv'
  OBVIOUS
<1>1. asked' = asked /\ stage' = stage /\ options' = options /\ token' = token /\ claims' = claims
  BY DEF claims_vars
<1>2. TokenAsked' = TokenAsked
  BY <1>1 DEF TokenAsked
<1>3. /\ GoodSettings' /\ JavaAsked' = JavaAsked /\ Claims!Encoded' = Claims!Encoded
  BY <1>1, <1>2 DEF ClaimsInv, GoodSettings, JavaAsked, Claims!Encoded
<1> QED BY <1>1, <1>2, <1>3 DEF ClaimsInv

LEMMA ClaimsInvTells == ClaimsInv => ClaimsAsAsked
<1> SUFFICES ASSUME ClaimsInv, stage = "signed" PROVE ClaimsAsAsked
  BY DEF ClaimsAsAsked, Claims!ClaimsAsAsked
<1>1. claims = ClaimsOf(TokenAsked) /\ GoodSettings
  BY DEF ClaimsInv
<1> DEFINE D == {f \in Claims!TokenFields :
                  IF f \in Claims!Sections THEN TokenAsked[f] # {} ELSE TokenAsked[f] # <<>>}
<1>2. DOMAIN claims = D
  BY <1>1 DEF ClaimsOf
<1>3. \A f \in D : claims[f] =
        IF f \in Claims!Sections THEN Claims!GrantJson(CHOOSE g \in TokenAsked[f] : TRUE)
        ELSE IF f = "attributes"
             THEN [k \in DOMAIN TokenAsked[f] |-> Claims!EscapeJson(TokenAsked[f][k])]
        ELSE Claims!EscapeJson(TokenAsked[f])
  BY <1>1 DEF ClaimsOf
<1>4. \A f \in Claims!TokenFields : TokenAsked[f] =
        IF f \in Claims!Sections THEN IF Claims!Has(asked, f) THEN {asked[f]} ELSE {}
        ELSE Claims!Field(asked, f)
  BY DEF TokenAsked
<1>5. /\ {"identity", "name", "metadata", "attributes"} \subseteq Claims!TokenFields
      /\ Claims!Sections \subseteq Claims!TokenFields
      /\ Claims!Sections \cap {"identity", "name", "metadata", "attributes"} = {}
  BY DEF Claims!TokenFields, Claims!Sections
<1>6. ASSUME NEW f \in {"identity", "name", "metadata"}
      PROVE  (IF f \in DOMAIN claims THEN Claims!Read(claims[f]) ELSE <<>>) = Claims!Field(asked, f)
  <2>1. f \in Claims!TokenFields /\ f \notin Claims!Sections /\ f # "attributes"
    BY <1>5
  <2>2. PICK t : t = Claims!Field(asked, f)
    OBVIOUS
  <2>3. t \in JsonTexts
    BY <1>1, <2>1, <2>2, ShortTextsAreTexts DEF GoodSettings, GoodSetting, Claims!Field, Claims!Has
  <2>4. TokenAsked[f] = t
    BY <1>4, <2>1, <2>2
  <2>5. f \in DOMAIN claims <=> t # <<>>
    BY <1>2, <2>1, <2>4
  <2>6. t # <<>> => claims[f] = Claims!EscapeJson(t)
    BY <1>2, <1>3, <2>1, <2>4, <2>5
  <2>7. Claims!Read(Claims!EscapeJson(t)) = t
    BY <2>3, ReadBack DEF JsonTexts
  <2> QED BY <2>2, <2>5, <2>6, <2>7
<1>7. (IF "attributes" \in DOMAIN claims
       THEN [k \in DOMAIN claims["attributes"] |-> Claims!Read(claims["attributes"][k])]
       ELSE <<>>) = Claims!Field(asked, "attributes")
  <2>1. "attributes" \in Claims!TokenFields /\ "attributes" \notin Claims!Sections
    BY <1>5
  <2>2. PICK v : v = Claims!Field(asked, "attributes")
    OBVIOUS
  <2>3. v = [k \in DOMAIN v |-> v[k]] /\ \A k \in DOMAIN v : v[k] \in JsonTexts
    <3>1. CASE "attributes" \in DOMAIN asked
      <4>1. GoodSetting("attributes", v)
        BY <1>1, <2>2, <3>1 DEF GoodSettings, Claims!Field, Claims!Has
      <4> QED BY <2>1, <4>1 DEF GoodSetting
    <3>2. CASE "attributes" \notin DOMAIN asked
      <4>1. v = <<>>
        BY <2>2, <3>2 DEF Claims!Field, Claims!Has
      <4> QED BY <4>1
    <3> QED BY <3>1, <3>2
  <2>4. TokenAsked["attributes"] = v
    BY <1>4, <2>1, <2>2
  <2>5. "attributes" \in DOMAIN claims <=> v # <<>>
    BY <1>2, <2>1, <2>4
  <2>6. v # <<>> => claims["attributes"] = [k \in DOMAIN v |-> Claims!EscapeJson(v[k])]
    BY <1>2, <1>3, <2>1, <2>4, <2>5
  <2>7. \A k \in DOMAIN v : Claims!Read(Claims!EscapeJson(v[k])) = v[k]
    BY <2>3, ReadBack DEF JsonTexts
  <2>8. v # <<>> =>
          [k \in DOMAIN claims["attributes"] |-> Claims!Read(claims["attributes"][k])]
            = [k \in DOMAIN v |-> v[k]]
    BY <2>6, <2>7, Zenon
  <2> QED BY <2>2, <2>3, <2>5, <2>8
<1>8. ASSUME NEW section \in Claims!Sections
      PROVE  /\ section \in DOMAIN claims <=> section \in DOMAIN asked
             /\ section \in DOMAIN claims =>
                  asked[section] = [f \in Claims!Fields(section) |-> Claims!Told(section, f)]
  <2>1. section \in Claims!TokenFields
    BY <1>5
  <2>2. TokenAsked[section] = IF section \in DOMAIN asked THEN {asked[section]} ELSE {}
    BY <1>4, <2>1 DEF Claims!Has
  <2>3. section \in DOMAIN claims <=> section \in DOMAIN asked
    BY <1>2, <2>1, <2>2
  <2>4. ASSUME section \in DOMAIN claims
        PROVE  asked[section] = [f \in Claims!Fields(section) |-> Claims!Told(section, f)]
    <3>1. section \in DOMAIN asked /\ TokenAsked[section] = {asked[section]}
      BY <2>2, <2>3, <2>4
    <3>2. (CHOOSE g \in TokenAsked[section] : TRUE) = asked[section]
      BY <3>1
    <3>3. claims[section] = Claims!GrantJson(CHOOSE g \in TokenAsked[section] : TRUE)
      BY <1>2, <1>3, <2>4
    <3>4. GoodGrant(section, asked[section])
      BY <1>1, <3>1 DEF GoodSettings, GoodSetting
    <3> QED BY <3>2, <3>3, <3>4, GrantTold
  <2> QED BY <2>3, <2>4
<1> QED BY <1>6, <1>7, <1>8, Zenon DEF ClaimsAsAsked, Claims!ClaimsAsAsked

\* A token says what its builder was set to and nothing else, whatever the binding
\* and however its fields were set: every right that was given, every right that
\* was refused, and every text and attribute (ToJwt of access_token.cpp, Sign of
\* c_api.cpp, and the names and the escaping between them).
THEOREM TokenSaysWhatWasAsked == Claims!Spec => []ClaimsAsAsked
<1>1. ClaimsInv /\ [Claims!Next]_(Claims!vars) => ClaimsInv'
  <2>1. UNCHANGED Claims!vars => UNCHANGED claims_vars
    BY DEF Claims!vars, claims_vars
  <2>2. Claims!Signed => UNCHANGED claims_vars
    BY <2>1 DEF Claims!Signed
  <2>3. ClaimsInv /\ Claims!Next => ClaimsInv'
    BY <2>2, SetKeeps, BuilderKeeps, JavaBuilderKeeps, JniKeeps, SignKeeps,
       SettersKeep, ToJwtKeeps, ClaimsUnchanged DEF Claims!Next
  <2> QED BY <2>1, <2>3, ClaimsUnchanged
<1> QED BY <1>1, ClaimsInit, ClaimsInvTells, PTL DEF Claims!Spec

--------------------------------------------------------------------------------
\* Powers of two and the bits of a number, counted from the lowest.
P(n) == Codec!PowerOf2[n]
Bit(x, j) == (x \div P(j)) % 2

\* Quotient and remainder are what they are and nothing else.
LEMMA Divided ==
  ASSUME NEW x \in Nat, NEW m \in Nat \ {0}
  PROVE  /\ x \div m \in Nat /\ (x % m) \in Nat /\ (x % m) < m
         /\ x = m * (x \div m) + (x % m)
<1>1. x \div m \in Nat
  OBVIOUS
<1>2. (x % m) \in Nat /\ (x % m) < m
  OBVIOUS
<1>3. x = m * (x \div m) + (x % m)
  OBVIOUS
<1> QED BY <1>1, <1>2, <1>3

\* A smaller factor makes a product smaller by the other factor at least.
LEMMA LessTimes ==
  ASSUME NEW m \in Nat, NEW a \in Nat, NEW b \in Nat, a < b
  PROVE  m * a + m =< m * b
<1>1. PICK d \in Nat : b = (a + 1) + d
  <2>1. b - (a + 1) \in Nat /\ b = (a + 1) + (b - (a + 1))
    OBVIOUS
  <2> QED BY <2>1
<1>2. m * b = m * (a + 1) + m * d
  BY <1>1
<1>3. m * (a + 1) = m * a + m
  OBVIOUS
<1>4. m * d \in Nat
  OBVIOUS
<1> QED BY <1>2, <1>3, <1>4

LEMMA DividedOnce ==
  ASSUME NEW m \in Nat \ {0}, NEW q \in Nat, NEW r \in Nat, r < m
  PROVE  (m * q + r) \div m = q /\ (m * q + r) % m = r
<1>1. PICK x \in Nat : x = m * q + r
  OBVIOUS
<1>2. PICK u \in Nat, v \in Nat : u = x \div m /\ v = x % m /\ v < m /\ x = m * u + v
  BY Divided
<1>3. m * q \in Nat /\ m * u \in Nat /\ m * q + r = m * u + v
  BY <1>1, <1>2
<1>4. ~(u < q)
  <2>1. u < q => m * u + m =< m * q
    BY LessTimes
  <2> QED BY <1>2, <1>3, <2>1
<1>5. ~(q < u)
  <2>1. q < u => m * q + m =< m * u
    BY LessTimes
  <2> QED BY <1>2, <1>3, <2>1
<1>6. u = q
  BY <1>4, <1>5
<1>7. v = r
  BY <1>3, <1>6
<1> QED BY <1>1, <1>2, <1>6, <1>7

\* To divide twice is to divide by the product.
LEMMA DividedTwice ==
  ASSUME NEW x \in Nat, NEW m \in Nat \ {0}, NEW n \in Nat \ {0}
  PROVE  (x \div m) \div n = x \div (m * n)
<1>1. PICK q \in Nat, r \in Nat : q = x \div m /\ r < m /\ x = m * q + r
  BY Divided
<1>2. PICK t \in Nat, u \in Nat : t = q \div n /\ u < n /\ q = n * t + u
  BY Divided
<1>3. m * q = (m * n) * t + m * u
  BY <1>2
<1>4. m * u + m =< m * n
  BY <1>2, LessTimes
<1>5. m * u \in Nat /\ m * n \in Nat \ {0}
  OBVIOUS
<1>6. PICK k \in Nat \ {0}, w \in Nat : k = m * n /\ w = m * u + r
  BY <1>5
<1>7. w < k /\ x = k * t + w
  <2>1. m * u + m =< k
    BY <1>4, <1>6
  <2>2. w < k
    BY <1>1, <1>5, <1>6, <2>1
  <2> QED BY <1>1, <1>3, <1>6, <2>2
<1>8. x \div k = t
  BY <1>7, DividedOnce
<1> QED BY <1>1, <1>2, <1>6, <1>8

-------------------------------------------------------------------------------
PowersTo(f, n) == f = [i \in 0 .. n |-> IF i = 0 THEN 1 ELSE 2 * f[i - 1]]

\* PowerOf2 is what its recursive definition says: there is a function of that
\* kind up to every number, and any two agree.
LEMMA PowersToExist ==
  ASSUME NEW n \in Nat
  PROVE  \E f : PowersTo(f, n)
<1> DEFINE S == {m \in Nat : \E f : PowersTo(f, m)}
<1>1. 0 \in S
  <2> DEFINE f == [i \in 0 .. 0 |-> 1]
  <2>1. f = [i \in 0 .. 0 |-> IF i = 0 THEN 1 ELSE 2 * f[i - 1]]
    OBVIOUS
  <2>2. PowersTo(f, 0)
    BY <2>1 DEF PowersTo
  <2> HIDE DEF f
  <2> QED BY <2>2
<1>2. ASSUME NEW m \in Nat, m \in S PROVE m + 1 \in S
  <2>1. PICK f : PowersTo(f, m)
    BY <1>2
  <2> DEFINE g == [i \in 0 .. m + 1 |-> IF i = m + 1 THEN 2 * f[m] ELSE f[i]]
  <2>2. \A i \in 0 .. m : f[i] = IF i = 0 THEN 1 ELSE 2 * f[i - 1]
    BY <2>1 DEF PowersTo
  <2>3. g[m + 1] = 2 * f[m] /\ \A i \in 0 .. m : g[i] = f[i]
    OBVIOUS
  <2>4. g = [i \in 0 .. m + 1 |-> g[i]]
    OBVIOUS
  <2> HIDE DEF g
  <2>5. ASSUME NEW i \in 0 .. m + 1
        PROVE  g[i] = IF i = 0 THEN 1 ELSE 2 * g[i - 1]
    <3>1. CASE i = m + 1
      <4>1. i # 0 /\ i - 1 = m /\ m \in 0 .. m
        BY <3>1
      <4> QED BY <2>3, <3>1, <4>1
    <3>2. CASE i \in 0 .. m
      <4>1. i # 0 => i - 1 \in 0 .. m
        BY <3>2
      <4> QED BY <2>2, <2>3, <3>2, <4>1
    <3> QED BY <3>1, <3>2
  <2>6. g = [i \in 0 .. m + 1 |-> IF i = 0 THEN 1 ELSE 2 * g[i - 1]]
    BY <2>4, <2>5
  <2>7. PowersTo(g, m + 1)
    BY <2>6, Zenon DEF PowersTo
  <2> QED BY <2>7
<1>3. Nat \subseteq S
  <2> HIDE DEF S
  <2> QED BY <1>1, <1>2, SetInduction
<1> QED BY <1>3

LEMMA PowersToAgree ==
  ASSUME NEW m \in Nat, NEW n \in Nat, NEW f, NEW g, PowersTo(f, m), PowersTo(g, n),
         NEW i \in Nat, i =< m, i =< n
  PROVE  f[i] = g[i]
<1> SUFFICES ASSUME f[i] # g[i] PROVE FALSE
  OBVIOUS
<1> DEFINE T == {k \in Nat : k =< m /\ k =< n /\ f[k] # g[k]}
<1>1. PICK x \in T : \A y \in T : x =< y
  BY LeastNumber, i \in T
<1>2. /\ f[x] = IF x = 0 THEN 1 ELSE 2 * f[x - 1]
      /\ g[x] = IF x = 0 THEN 1 ELSE 2 * g[x - 1]
  <2>1. x \in 0 .. m /\ x \in 0 .. n
    OBVIOUS
  <2> QED BY <2>1 DEF PowersTo
<1>3. x # 0 => x - 1 \in Nat /\ x - 1 =< m /\ x - 1 =< n /\ ~(x =< x - 1)
  OBVIOUS
<1>4. x # 0 => f[x - 1] = g[x - 1]
  BY <1>1, <1>3
<1> QED BY <1>2, <1>4

LEMMA PowerDefined ==
  ASSUME NEW n \in Nat
  PROVE  P(n) = IF n = 0 THEN 1 ELSE 2 * P(n - 1)
<1> DEFINE to(m) == CHOOSE f : PowersTo(f, m)
           D == [m \in Nat |-> to(m)[m]]
<1>1. \A m \in Nat : PowersTo(to(m), m)
  BY PowersToExist
<1> HIDE DEF to
<1>2. ASSUME NEW m \in Nat
      PROVE  D[m] = IF m = 0 THEN 1 ELSE 2 * D[m - 1]
  <2>1. to(m)[m] = IF m = 0 THEN 1 ELSE 2 * to(m)[m - 1]
    <3>1. m \in 0 .. m /\ PowersTo(to(m), m)
      BY <1>1
    <3> QED BY <3>1 DEF PowersTo
  <2>2. m # 0 => m - 1 \in Nat /\ m - 1 =< m
    OBVIOUS
  <2>3. m # 0 => to(m)[m - 1] = to(m - 1)[m - 1]
    BY <1>1, <2>2, PowersToAgree
  <2> QED BY <2>1, <2>2, <2>3
<1>3. D = [m \in Nat |-> D[m]]
  OBVIOUS
<1> HIDE DEF D
<1>4. D = [m \in Nat |-> IF m = 0 THEN 1 ELSE 2 * D[m - 1]]
  BY <1>2, <1>3
<1> DEFINE F == CHOOSE f : f = [m \in Nat |-> IF m = 0 THEN 1 ELSE 2 * f[m - 1]]
<1>5. F = [m \in Nat |-> IF m = 0 THEN 1 ELSE 2 * F[m - 1]]
  BY <1>4
<1>6. Codec!PowerOf2 = F
  BY DEF Codec!PowerOf2
<1> HIDE DEF F
<1> QED BY <1>5, <1>6 DEF P

LEMMA PowerIsNumber == \A n \in Nat : P(n) \in Nat \ {0}
<1> DEFINE S == {n \in Nat : P(n) \in Nat \ {0}}
<1>1. 0 \in S
  BY PowerDefined
<1>2. ASSUME NEW n \in Nat, n \in S PROVE n + 1 \in S
  <2>1. P(n + 1) = 2 * P(n)
    <3>1. n + 1 # 0 /\ (n + 1) - 1 = n /\ n + 1 \in Nat
      OBVIOUS
    <3> QED BY <3>1, PowerDefined
  <2>2. P(n) \in Nat \ {0}
    BY <1>2
  <2> QED BY <2>1, <2>2
<1>3. Nat \subseteq S
  <2> HIDE DEF S
  <2> QED BY <1>1, <1>2, SetInduction
<1> QED BY <1>3

LEMMA PowerNext ==
  ASSUME NEW n \in Nat
  PROVE  P(n + 1) = 2 * P(n)
<1>1. n + 1 # 0 /\ (n + 1) - 1 = n /\ n + 1 \in Nat
  OBVIOUS
<1> QED BY <1>1, PowerDefined

\* The laws of powers that shifts rest on.
LEMMA PowerSum ==
  ASSUME NEW a \in Nat, NEW b \in Nat
  PROVE  P(a + b) = P(a) * P(b)
<1> DEFINE S == {n \in Nat : P(a + n) = P(a) * P(n)}
<1>1. 0 \in S
  <2>1. P(0) = 1 /\ a + 0 = a /\ P(a) \in Nat
    BY PowerDefined, PowerIsNumber
  <2> QED BY <2>1
<1>2. ASSUME NEW n \in Nat, n \in S PROVE n + 1 \in S
  <2>1. P(n + 1) = 2 * P(n) /\ P(a + (n + 1)) = 2 * P(a + n)
    <3>1. a + n \in Nat /\ a + (n + 1) = (a + n) + 1
      OBVIOUS
    <3> QED BY <3>1, PowerNext
  <2>2. PICK p \in Nat, q \in Nat : p = P(a) /\ q = P(n)
    BY PowerIsNumber
  <2>3. P(a + n) = p * q
    BY <1>2, <2>2
  <2>4. p * (2 * q) = 2 * (p * q)
    OBVIOUS
  <2>5. P(a + (n + 1)) = P(a) * P(n + 1)
    BY <2>1, <2>2, <2>3, <2>4
  <2> QED BY <2>5
<1>3. Nat \subseteq S
  <2> HIDE DEF S
  <2> QED BY <1>1, <1>2, SetInduction
<1> QED BY <1>3

\* A power divides a greater one.
LEMMA PowerSplit ==
  ASSUME NEW a \in Nat, NEW b \in Nat, a =< b
  PROVE  P(b) = P(a) * P(b - a)
<1>1. b - a \in Nat /\ a + (b - a) = b
  OBVIOUS
<1> QED BY <1>1, PowerSum

\* A multiple of the divisor adds its quotient.
LEMMA MultipleAdds ==
  ASSUME NEW m \in Nat \ {0}, NEW k \in Nat, NEW r \in Nat
  PROVE  (m * k + r) \div m = k + (r \div m)
<1>1. PICK q \in Nat, u \in Nat : q = r \div m /\ u < m /\ r = m * q + u
  BY Divided
<1>2. m * (k + q) = m * k + m * q /\ m * k \in Nat /\ m * q \in Nat
  OBVIOUS
<1>3. m * k + r = m * (k + q) + u
  BY <1>1, <1>2
<1>4. (m * (k + q) + u) \div m = k + q
  <2>1. PICK v \in Nat : v = k + q
    OBVIOUS
  <2>2. (m * v + u) \div m = v
    BY <1>1, DividedOnce
  <2> QED BY <2>1, <2>2
<1> QED BY <1>1, <1>3, <1>4

\* What is shifted out, what stays below and what is added below.
LEMMA BitShiftedOut ==
  ASSUME NEW x \in Nat, NEW m \in Nat, NEW j \in Nat
  PROVE  Bit(x \div P(m), j) = Bit(x, m + j)
<1>1. P(m) \in Nat \ {0} /\ P(j) \in Nat \ {0} /\ P(m + j) = P(m) * P(j)
  BY PowerIsNumber, PowerSum
<1>2. (x \div P(m)) \div P(j) = x \div (P(m) * P(j))
  BY <1>1, DividedTwice
<1> QED BY <1>1, <1>2 DEF Bit

LEMMA BitKept ==
  ASSUME NEW x \in Nat, NEW w \in Nat, NEW j \in Nat, j < w
  PROVE  Bit(x % P(w), j) = Bit(x, j)
<1>1. PICK m \in Nat \ {0}, n \in Nat \ {0} : m = P(j) /\ n = P(w)
  BY PowerIsNumber
<1>2. PICK k \in Nat : n = m * (2 * k)
  <2>1. w - j \in Nat /\ (w - j) - 1 \in Nat /\ ((w - j) - 1) + 1 = w - j
    OBVIOUS
  <2>2. P(w) = P(j) * P(w - j)
    BY PowerSplit
  <2>3. P(w - j) = 2 * P((w - j) - 1)
    BY <2>1, PowerNext
  <2>4. PICK k \in Nat : k = P((w - j) - 1)
    BY <2>1, PowerIsNumber
  <2>5. n = m * P(w - j) /\ P(w - j) = 2 * k
    BY <1>1, <2>2, <2>3, <2>4
  <2>6. n = m * (2 * k)
    BY <2>5
  <2> QED BY <2>6
<1>3. PICK q \in Nat, r \in Nat : r = x % n /\ x = n * q + r
  <2>1. x \div n \in Nat /\ (x % n) \in Nat /\ x = n * (x \div n) + (x % n)
    BY Divided
  <2> QED BY <2>1, Zenon
<1>4. PICK z \in Nat : z = k * q
  <2>1. k * q \in Nat
    OBVIOUS
  <2> QED BY <2>1
<1>5. x = m * (2 * z) + r
  <2>1. n * q = m * (2 * (k * q))
    BY <1>2
  <2> QED BY <1>3, <1>4, <2>1
<1>6. x \div m = 2 * z + (r \div m)
  <2>1. PICK v \in Nat : v = 2 * z
    OBVIOUS
  <2>2. (m * v + r) \div m = v + (r \div m)
    BY MultipleAdds
  <2> QED BY <1>5, <2>1, <2>2
<1>7. PICK y \in Nat : y = r \div m
  BY Divided
<1>8. (2 * z + y) % 2 = y % 2
  OBVIOUS
<1>9. Bit(x, j) = (2 * z + y) % 2
  BY <1>1, <1>6, <1>7 DEF Bit
<1>10. Bit(r, j) = y % 2
  BY <1>1, <1>7 DEF Bit
<1> QED BY <1>1, <1>3, <1>8, <1>9, <1>10

LEMMA BitShiftedIn ==
  ASSUME NEW x \in Nat, NEW n \in Nat, NEW c \in Nat, c < P(n), NEW j \in Nat
  PROVE  Bit(x * P(n) + c, j) = IF j < n THEN Bit(c, j) ELSE Bit(x, j - n)
<1>1. PICK m \in Nat \ {0} : m = P(n)
  BY PowerIsNumber
<1>2. PICK y \in Nat : y = x * m + c
  <2>1. x * m \in Nat
    OBVIOUS
  <2> QED BY <2>1
<1>3. y \div m = x /\ (y % m) = c
  <2>1. x * m = m * x
    OBVIOUS
  <2> QED BY <1>1, <1>2, <2>1, DividedOnce
<1>4. CASE j < n
  <2>1. Bit(y % P(n), j) = Bit(y, j)
    BY <1>4, BitKept
  <2> QED BY <1>1, <1>2, <1>3, <1>4, <2>1
<1>5. CASE ~(j < n)
  <2>1. j - n \in Nat /\ n + (j - n) = j
    BY <1>5
  <2>2. Bit(y \div P(n), j - n) = Bit(y, n + (j - n))
    BY <2>1, BitShiftedOut
  <2> QED BY <1>1, <1>2, <1>3, <1>5, <2>1, <2>2
<1> QED BY <1>4, <1>5

\* Numbers of n bits with the same bits are the same.
LEMMA SameBits ==
  ASSUME NEW n \in Nat, NEW x \in Nat, NEW y \in Nat, x < P(n), y < P(n),
         \A j \in Nat : j < n => Bit(x, j) = Bit(y, j)
  PROVE  x = y
<1> DEFINE S == {k \in Nat : \A a, b \in Nat :
                   /\ a < P(k) /\ b < P(k)
                   /\ \A j \in Nat : j < k => Bit(a, j) = Bit(b, j)
                   => a = b}
<1>1. 0 \in S
  <2>1. P(0) = 1
    BY PowerDefined
  <2> QED BY <2>1
<1>2. ASSUME NEW k \in Nat, k \in S PROVE k + 1 \in S
  <2> SUFFICES ASSUME NEW a \in Nat, NEW b \in Nat, a < P(k + 1), b < P(k + 1),
                      \A j \in Nat : j < k + 1 => Bit(a, j) = Bit(b, j)
               PROVE  a = b
    OBVIOUS
  <2>1. P(0) = 1 /\ P(1) = 2 /\ P(k + 1) = 2 * P(k) /\ P(k) \in Nat
    <3>1. P(0) = 1
      BY PowerDefined
    <3>2. P(0 + 1) = 2 * P(0) /\ 0 + 1 = 1
      BY PowerNext
    <3> QED BY <3>1, <3>2, PowerNext, PowerIsNumber
  <2>2. ASSUME NEW c \in Nat PROVE Bit(c, 0) = c % 2
    <3>1. c \div 1 = c
      OBVIOUS
    <3> QED BY <2>1, <3>1 DEF Bit
  <2>3. (a % 2) = (b % 2)
    <3>1. 0 < k + 1
      OBVIOUS
    <3> QED BY <2>2, <3>1
  <2>4. PICK q \in Nat, t \in Nat : q = a \div 2 /\ t = b \div 2
    OBVIOUS
  <2>5. a = 2 * q + (a % 2) /\ b = 2 * t + (b % 2)
    BY <2>4
  <2>6. q < P(k) /\ t < P(k)
    <3>1. PICK p \in Nat : p = P(k)
      BY <2>1
    <3>2. a < 2 * p /\ b < 2 * p
      BY <2>1, <3>1
    <3>3. (a % 2) \in Nat /\ (b % 2) \in Nat
      OBVIOUS
    <3>4. q < p /\ t < p
      BY <2>5, <3>2, <3>3
    <3> QED BY <3>1, <3>4
  <2>7. ASSUME NEW j \in Nat, j < k PROVE Bit(q, j) = Bit(t, j)
    <3>0. PICK m \in Nat : m = 1
      OBVIOUS
    <3>1. Bit(a \div P(m), j) = Bit(a, m + j)
      BY BitShiftedOut
    <3>2. Bit(b \div P(m), j) = Bit(b, m + j)
      BY BitShiftedOut
    <3>3. 1 + j \in Nat /\ 1 + j < k + 1
      BY <2>7
    <3> QED BY <2>1, <2>4, <3>0, <3>1, <3>2, <3>3
  <2>8. q = t
    BY <1>2, <2>6, <2>7
  <2> QED BY <2>3, <2>5, <2>8
<1>3. Nat \subseteq S
  <2> HIDE DEF S
  <2> QED BY <1>1, <1>2, SetInduction
<1> QED BY <1>3

-------------------------------------------------------------------------------
\* Three bytes are four symbols: both widths are multiples of one unit.
Unit == SymbolBits \div 3

LEMMA Widths ==
  /\ Unit \in Nat \ {0} /\ ByteBits = 4 * Unit /\ SymbolBits = 3 * Unit
  /\ WordBits \in Nat /\ WordBits >= ByteBits + SymbolBits
  /\ ByteBits \in Nat \ {0} /\ SymbolBits \in Nat \ {0}
<1>1. /\ ByteBits \in Nat \ {0} /\ SymbolBits \in Nat \ {0} /\ WordBits \in Nat
      /\ 3 * ByteBits = 4 * SymbolBits /\ WordBits >= ByteBits + SymbolBits
  BY WidthsAssumption DEF Codec!WidthsFit
<1>2. SymbolBits = 3 * (ByteBits - SymbolBits) /\ ByteBits - SymbolBits \in Nat \ {0}
  BY <1>1
<1>3. Unit = ByteBits - SymbolBits
  BY <1>2 DEF Unit
<1> QED BY <1>1, <1>2, <1>3

LEMMA InRange ==
  /\ Codec!Bytes \subseteq Nat /\ Codec!Symbols \subseteq Nat
  /\ \A x \in Nat : x \in Codec!Bytes <=> x < P(ByteBits)
  /\ \A x \in Nat : x \in Codec!Symbols <=> x < P(SymbolBits)
  /\ 0 \in Codec!Bytes
<1>1. P(ByteBits) \in Nat \ {0} /\ P(SymbolBits) \in Nat \ {0}
  BY Widths, PowerIsNumber
<1> QED BY <1>1 DEF Codec!Bytes, Codec!Symbols, P

\* A bit of a sequence of numbers, by number and by place in it.
LEMMA BitOfAt ==
  ASSUME NEW u, NEW w \in Nat \ {0}, NEW q \in Nat, NEW r \in Nat, r < w,
         NEW i, i = w * q + r
  PROVE  Codec!BitOf(u, w, i) = Bit(u[q + 1], (w - 1) - r)
<1>2. i \div w = q /\ (i % w) = r
  BY DividedOnce
<1>3. Codec!BitOf(u, w, i) = (u[(i \div w) + 1] \div Codec!PowerOf2[w - 1 - (i % w)]) % 2
  BY DEF Codec!BitOf
<1> QED BY <1>2, <1>3 DEF Bit, P

\* A bit of the data, zero behind its end.
DataBit(i) == Bit(Codec!ByteAt(i \div ByteBits), (ByteBits - 1) - (i % ByteBits))

LEMMA DataBitAt ==
  ASSUME NEW q \in Nat, NEW r \in Nat, r < ByteBits
  PROVE  DataBit(ByteBits * q + r) = Bit(Codec!ByteAt(q), (ByteBits - 1) - r)
<1>1. PICK i : i = ByteBits * q + r
  OBVIOUS
<1>2. i \div ByteBits = q /\ (i % ByteBits) = r
  BY <1>1, Widths, DividedOnce
<1> QED BY <1>1, <1>2 DEF DataBit

LEMMA ByteAtBytes ==
  ASSUME data \in Seq(Codec!Bytes), NEW q \in Nat
  PROVE  Codec!ByteAt(q) \in Codec!Bytes /\ Codec!ByteAt(q) \in Nat /\ Codec!ByteAt(q) < P(ByteBits)
<1>1. Codec!ByteAt(q) \in Codec!Bytes
  BY InRange DEF Codec!ByteAt
<1> QED BY <1>1, InRange

\* The group of three bytes holds their bits in order.
LEMMA GroupBits ==
  ASSUME data \in Seq(Codec!Bytes), NEW t \in Nat, offset = 3 * t,
         NEW i \in Nat, i < 12 * Unit
  PROVE  Codec!Group \in Nat /\ Bit(Codec!Group, (12 * Unit - 1) - i) = DataBit(ByteBits * (3 * t) + i)
<1>1. PICK x \in Nat, y \in Nat, z \in Nat :
        /\ x = Codec!ByteAt(3 * t) /\ x < P(ByteBits)
        /\ y = Codec!ByteAt(3 * t + 1) /\ y < P(ByteBits)
        /\ z = Codec!ByteAt(3 * t + 2) /\ z < P(ByteBits)
  <2>1. 3 * t \in Nat /\ 3 * t + 1 \in Nat /\ 3 * t + 2 \in Nat
    OBVIOUS
  <2> QED BY <2>1, ByteAtBytes
<1>2. PICK m \in Nat \ {0} : m = P(ByteBits)
  BY Widths, PowerIsNumber
<1>3. PICK h \in Nat : h = x * P(ByteBits) + y
  <2>1. x * m \in Nat
    OBVIOUS
  <2> QED BY <1>2, <2>1
<1>4. Codec!Group = h * P(ByteBits) + z
  BY <1>1, <1>3 DEF Codec!Group, P
<1>5. Codec!Group \in Nat
  <2>1. h * m \in Nat
    OBVIOUS
  <2> QED BY <1>2, <1>4, <2>1
<1>6. ASSUME NEW j \in Nat
      PROVE  Bit(Codec!Group, j) = IF j < ByteBits THEN Bit(z, j)
                                   ELSE IF j - ByteBits < ByteBits THEN Bit(y, j - ByteBits)
                                   ELSE Bit(x, (j - ByteBits) - ByteBits)
  <2>1. Bit(h * P(ByteBits) + z, j) = IF j < ByteBits THEN Bit(z, j) ELSE Bit(h, j - ByteBits)
    BY <1>1, Widths, BitShiftedIn
  <2>2. j >= ByteBits => j - ByteBits \in Nat
    BY Widths
  <2>3. j >= ByteBits => Bit(h, j - ByteBits) = IF j - ByteBits < ByteBits THEN Bit(y, j - ByteBits)
                                                ELSE Bit(x, (j - ByteBits) - ByteBits)
    BY <1>1, <1>3, <2>2, Widths, BitShiftedIn
  <2> QED BY <1>4, <2>1, <2>3, Widths
<1>7. PICK c \in Nat \ {0} : c = Unit /\ ByteBits = 4 * c
  BY Widths
<1>8. CASE i < 4 * c
  <2>1. DataBit(ByteBits * (3 * t) + i) = Bit(x, (ByteBits - 1) - i)
    BY <1>1, <1>7, <1>8, DataBitAt
  <2>2. PICK j \in Nat : j = (12 * c - 1) - i
    BY <1>7, <1>8
  <2>3. ~(j < ByteBits) /\ ~(j - ByteBits < ByteBits) /\ (j - ByteBits) - ByteBits = (ByteBits - 1) - i
    BY <1>7, <1>8, <2>2
  <2> QED BY <1>5, <1>6, <1>7, <2>1, <2>2, <2>3
<1>9. CASE i >= 4 * c /\ i < 8 * c
  <2>0. PICK r \in Nat : r = i - ByteBits /\ r < ByteBits
    BY <1>7, <1>9
  <2>1. ByteBits * (3 * t) + i = ByteBits * (3 * t + 1) + r
    BY <1>7, <2>0
  <2>2. DataBit(ByteBits * (3 * t + 1) + r) = Bit(y, (ByteBits - 1) - r)
    BY <1>1, <2>0, DataBitAt
  <2>3. PICK j \in Nat : j = (12 * c - 1) - i
    BY <1>7, <1>9
  <2>4. ~(j < ByteBits) /\ j - ByteBits < ByteBits /\ j - ByteBits = (ByteBits - 1) - r
    BY <1>7, <1>9, <2>0, <2>3
  <2> QED BY <1>5, <1>6, <1>7, <2>1, <2>2, <2>3, <2>4
<1>10. CASE i >= 8 * c
  <2>0. PICK r \in Nat : r = i - 2 * ByteBits /\ r < ByteBits
    BY <1>7, <1>10
  <2>1. ByteBits * (3 * t) + i = ByteBits * (3 * t + 2) + r
    BY <1>7, <2>0
  <2>2. DataBit(ByteBits * (3 * t + 2) + r) = Bit(z, (ByteBits - 1) - r)
    BY <1>1, <2>0, DataBitAt
  <2>3. PICK j \in Nat : j = (12 * c - 1) - i
    BY <1>7, <1>10
  <2>4. j < ByteBits /\ j = (ByteBits - 1) - r
    BY <1>7, <1>10, <2>0, <2>3
  <2> QED BY <1>5, <1>6, <1>7, <2>1, <2>2, <2>3, <2>4
<1> QED BY <1>7, <1>8, <1>9, <1>10

\* The symbol c is number q of the encoding of the data.
IsSymbol(c, q) ==
  /\ c \in Codec!Symbols
  /\ \A j \in 0 .. SymbolBits - 1 : Bit(c, (SymbolBits - 1) - j) = DataBit(SymbolBits * q + j)

LEMMA SymbolOfGroup ==
  ASSUME data \in Seq(Codec!Bytes), NEW t \in Nat, offset = 3 * t, NEW p \in 0 .. 3
  PROVE  IsSymbol(Codec!Symbol(p), 4 * t + p)
<1>1. PICK c \in Nat \ {0} : c = Unit /\ SymbolBits = 3 * c /\ ByteBits = 4 * c
  BY Widths
<1>2. PICK g \in Nat : g = Codec!Group
  <2>1. 0 < 12 * Unit
    BY Widths
  <2>2. Codec!Group \in Nat
    BY <2>1, GroupBits
  <2> QED BY <2>2
<1>3. PICK m \in Nat : m = (3 - p) * SymbolBits /\ m = 9 * c - 3 * (c * p)
  <2>1. CASE p = 0
    BY <1>1, <2>1
  <2>2. CASE p = 1
    BY <1>1, <2>2
  <2>3. CASE p = 2
    BY <1>1, <2>3
  <2>4. CASE p = 3
    BY <1>1, <2>4
  <2> QED BY <2>1, <2>2, <2>3, <2>4
<1>4. PICK z \in Nat : z = c * p /\ z =< 3 * c
  <2>1. CASE p = 0
    BY <1>1, <2>1
  <2>2. CASE p = 1
    BY <1>1, <2>2
  <2>3. CASE p = 2
    BY <1>1, <2>3
  <2>4. CASE p = 3
    BY <1>1, <2>4
  <2> QED BY <2>1, <2>2, <2>3, <2>4
<1>5. PICK h \in Nat : h = g \div P(m)
  BY PowerIsNumber, Divided
<1>6. Codec!Symbol(p) = h % P(SymbolBits)
  BY <1>2, <1>3, <1>5 DEF Codec!Symbol, P
<1>7. Codec!Symbol(p) \in Codec!Symbols
  <2>1. (h % P(SymbolBits)) \in Nat /\ (h % P(SymbolBits)) < P(SymbolBits)
    BY Widths, PowerIsNumber, Divided
  <2> QED BY <1>6, <2>1, InRange
<1>8. ASSUME NEW j \in 0 .. SymbolBits - 1
      PROVE  Bit(Codec!Symbol(p), (SymbolBits - 1) - j) = DataBit(SymbolBits * (4 * t + p) + j)
  <2>1. PICK l \in Nat : l = (SymbolBits - 1) - j /\ l < SymbolBits
    BY <1>1
  <2>2. Bit(h % P(SymbolBits), l) = Bit(h, l)
    BY <2>1, Widths, BitKept
  <2>3. Bit(h, l) = Bit(g, m + l)
    BY <1>5, BitShiftedOut
  <2>4. PICK i \in Nat : i = 3 * z + j /\ i < 12 * c
    BY <1>1, <1>4
  <2>5. m + l = (12 * c - 1) - i
    BY <1>1, <1>3, <1>4, <2>1, <2>4
  <2>6. Bit(g, (12 * c - 1) - i) = DataBit(ByteBits * (3 * t) + i)
    BY <1>1, <1>2, <2>4, GroupBits
  <2>7. ByteBits * (3 * t) + i = SymbolBits * (4 * t + p) + j
    <3>1. ByteBits * (3 * t) = 12 * (c * t)
      BY <1>1
    <3>2. SymbolBits * (4 * t + p) = 12 * (c * t) + 3 * (c * p)
      BY <1>1
    <3> QED BY <1>4, <2>4, <3>1, <3>2
  <2> QED BY <1>6, <2>1, <2>2, <2>3, <2>5, <2>6, <2>7
<1> QED BY <1>7, <1>8 DEF IsSymbol

-------------------------------------------------------------------------------
\* What Base64 writes.
Characters == Codec!Symbols \cup {Pad, Other}

\* The text e is the encoding of the first t groups of the data: m symbols, fewer
\* than four to a group only if the data ends in the last one, and Pads.
Encodes(e, m, t) ==
  /\ e \in Seq(Characters) /\ m \in Nat /\ t \in Nat
  /\ \/ m = 4 * t /\ 3 * t =< Len(data)
     \/ m = 4 * t - 1 /\ 3 * t = Len(data) + 1
     \/ m = 4 * t - 2 /\ 3 * t = Len(data) + 2
  /\ Len(e) = IF padding THEN 4 * t ELSE m
  /\ \A q \in 0 .. m - 1 : IsSymbol(e[q + 1], q)
  /\ \A q \in m .. Len(e) - 1 : e[q + 1] = Pad

LEMMA OneMore ==
  ASSUME NEW E, NEW u \in Seq(E), NEW x \in E
  PROVE  /\ u \o <<x>> \in Seq(E) /\ Len(u \o <<x>>) = Len(u) + 1
         /\ \A i \in 1 .. Len(u) : (u \o <<x>>)[i] = u[i]
         /\ (u \o <<x>>)[Len(u) + 1] = x
  OBVIOUS

\* The sequences that u of length l becomes with two, three and four more elements.
Longer(E, u, l, x, y, z, w, u2, u3, u4) ==
  /\ u2 = u \o <<x>> \o <<y>> /\ u3 = u2 \o <<z>> /\ u4 = u3 \o <<w>>
  /\ u2 \in Seq(E) /\ u3 \in Seq(E) /\ u4 \in Seq(E)
  /\ Len(u2) = l + 2 /\ Len(u3) = l + 3 /\ Len(u4) = l + 4
  /\ \A i \in 1 .. l : u2[i] = u[i] /\ u3[i] = u[i] /\ u4[i] = u[i]
  /\ u2[l + 1] = x /\ u3[l + 1] = x /\ u4[l + 1] = x
  /\ u2[l + 2] = y /\ u3[l + 2] = y /\ u4[l + 2] = y
  /\ u3[l + 3] = z /\ u4[l + 3] = z
  /\ u4[l + 4] = w

LEMMA FourMore ==
  ASSUME NEW E, NEW u \in Seq(E), NEW l \in Nat, l = Len(u),
         NEW x \in E, NEW y \in E, NEW z \in E, NEW w \in E
  PROVE  \E u2, u3, u4 : Longer(E, u, l, x, y, z, w, u2, u3, u4)
<1>1. PICK u1 : u1 = u \o <<x>>
  OBVIOUS
<1>2. /\ u1 \in Seq(E) /\ Len(u1) = l + 1 /\ u1[l + 1] = x
      /\ \A i \in 1 .. l : u1[i] = u[i]
  BY <1>1, OneMore
<1>3. PICK u2 : u2 = u1 \o <<y>>
  OBVIOUS
<1>4. /\ u2 \in Seq(E) /\ Len(u2) = l + 2 /\ u2[l + 2] = y
      /\ \A i \in 1 .. l + 1 : u2[i] = u1[i]
  <2>1. /\ u1 \o <<y>> \in Seq(E) /\ Len(u1 \o <<y>>) = Len(u1) + 1
        /\ \A i \in 1 .. Len(u1) : (u1 \o <<y>>)[i] = u1[i]
        /\ (u1 \o <<y>>)[Len(u1) + 1] = y
    BY <1>2, OneMore
  <2>2. (l + 1) + 1 = l + 2
    OBVIOUS
  <2> QED BY <1>2, <1>3, <2>1, <2>2
<1>5. PICK u3 : u3 = u2 \o <<z>>
  OBVIOUS
<1>6. /\ u3 \in Seq(E) /\ Len(u3) = l + 3 /\ u3[l + 3] = z
      /\ \A i \in 1 .. l + 2 : u3[i] = u2[i]
  <2>1. /\ u2 \o <<z>> \in Seq(E) /\ Len(u2 \o <<z>>) = Len(u2) + 1
        /\ \A i \in 1 .. Len(u2) : (u2 \o <<z>>)[i] = u2[i]
        /\ (u2 \o <<z>>)[Len(u2) + 1] = z
    BY <1>4, OneMore
  <2>2. (l + 2) + 1 = l + 3
    OBVIOUS
  <2> QED BY <1>4, <1>5, <2>1, <2>2
<1>7. PICK u4 : u4 = u3 \o <<w>>
  OBVIOUS
<1>8. /\ u4 \in Seq(E) /\ Len(u4) = l + 4 /\ u4[l + 4] = w
      /\ \A i \in 1 .. l + 3 : u4[i] = u3[i]
  <2>1. /\ u3 \o <<w>> \in Seq(E) /\ Len(u3 \o <<w>>) = Len(u3) + 1
        /\ \A i \in 1 .. Len(u3) : (u3 \o <<w>>)[i] = u3[i]
        /\ (u3 \o <<w>>)[Len(u3) + 1] = w
    BY <1>6, OneMore
  <2>2. (l + 3) + 1 = l + 4
    OBVIOUS
  <2> QED BY <1>6, <1>7, <2>1, <2>2
<1>9. \A i \in 1 .. l : i \in 1 .. l + 1 /\ i \in 1 .. l + 2 /\ i \in 1 .. l + 3
  OBVIOUS
<1>10. /\ l + 1 \in 1 .. l + 1 /\ l + 1 \in 1 .. l + 2 /\ l + 1 \in 1 .. l + 3
       /\ l + 2 \in 1 .. l + 2 /\ l + 2 \in 1 .. l + 3 /\ l + 3 \in 1 .. l + 3
  OBVIOUS
<1>11. \A i \in 1 .. l : u2[i] = u[i] /\ u3[i] = u[i] /\ u4[i] = u[i]
  BY <1>2, <1>4, <1>6, <1>8, <1>9
<1>12. /\ u2[l + 1] = x /\ u3[l + 1] = x /\ u4[l + 1] = x
       /\ u2[l + 2] = y /\ u3[l + 2] = y /\ u4[l + 2] = y
       /\ u3[l + 3] = z /\ u4[l + 3] = z
  BY <1>2, <1>4, <1>6, <1>8, <1>10
<1>13. u2 = u \o <<x>> \o <<y>>
  BY <1>1, <1>3
<1>14. Longer(E, u, l, x, y, z, w, u2, u3, u4)
  BY <1>4, <1>5, <1>6, <1>7, <1>8, <1>11, <1>12, <1>13 DEF Longer
<1> QED BY <1>14

\* How many symbols there are, and how long the text is, for n bytes in t groups.
Counts(m, t, n) == \/ m = 4 * t /\ 3 * t =< n
                   \/ m = 4 * t - 1 /\ 3 * t = n + 1
                   \/ m = 4 * t - 2 /\ 3 * t = n + 2

LEMMA EncodesIntro ==
  ASSUME NEW e \in Seq(Characters), NEW m \in Nat, NEW t \in Nat, Counts(m, t, Len(data)),
         NEW l, l = Len(e), l = IF padding THEN 4 * t ELSE m,
         \A q \in 0 .. m - 1 : IsSymbol(e[q + 1], q),
         \A q \in m .. l - 1 : e[q + 1] = Pad
  PROVE  Encodes(e, m, t)
  BY DEF Encodes, Counts

\* A group more: all of its symbols, or those that the data reaches into.
LEMMA EncodesOneMore ==
  ASSUME data \in Seq(Codec!Bytes), NEW m, NEW t, Encodes(encoded, m, t), offset = 3 * t,
         Codec!EncodeGroup
  PROVE  \E k : Encodes(encoded', k, t + 1)
<1>1. PICK n \in Nat : n = Len(data)
  OBVIOUS
<1>2. PICK l \in Nat : l = 4 * t
  BY DEF Encodes
<1>3. /\ t \in Nat /\ 3 * t < n /\ m = l /\ Len(encoded) = l /\ encoded \in Seq(Characters)
      /\ \A q \in 0 .. l - 1 : IsSymbol(encoded[q + 1], q)
  <2>1. offset < Len(data)
    BY DEF Codec!EncodeGroup
  <2>2. t \in Nat /\ m \in Nat /\ encoded \in Seq(Characters)
    BY DEF Encodes
  <2>3. m = 4 * t
    BY <1>1, <2>1, <2>2 DEF Encodes
  <2>4. Len(encoded) = l /\ \A q \in 0 .. m - 1 : IsSymbol(encoded[q + 1], q)
    BY <1>2, <2>3 DEF Encodes
  <2> QED BY <1>1, <1>2, <2>1, <2>2, <2>3, <2>4
<1>4. PICK x, y, z, w :
        /\ x = Codec!Symbol(0) /\ y = Codec!Symbol(1)
        /\ z = (IF 3 * t + 1 < n THEN Codec!Symbol(2) ELSE Pad)
        /\ w = (IF 3 * t + 2 < n THEN Codec!Symbol(3) ELSE Pad)
  OBVIOUS
<1>5. /\ IsSymbol(x, l) /\ IsSymbol(y, l + 1)
      /\ 3 * t + 1 < n => IsSymbol(z, l + 2)
      /\ 3 * t + 2 < n => IsSymbol(w, l + 3)
  <2>1. \A p \in 0 .. 3 : IsSymbol(Codec!Symbol(p), 4 * t + p)
    BY <1>3, SymbolOfGroup
  <2>2. /\ IsSymbol(Codec!Symbol(0), 4 * t + 0) /\ IsSymbol(Codec!Symbol(1), 4 * t + 1)
        /\ IsSymbol(Codec!Symbol(2), 4 * t + 2) /\ IsSymbol(Codec!Symbol(3), 4 * t + 3)
    BY <2>1
  <2>3. 4 * t + 0 = l /\ 4 * t + 1 = l + 1 /\ 4 * t + 2 = l + 2 /\ 4 * t + 3 = l + 3
    BY <1>2
  <2> QED BY <1>4, <2>2, <2>3
<1>6. x \in Characters /\ y \in Characters /\ z \in Characters /\ w \in Characters
  BY <1>4, <1>5 DEF Characters, IsSymbol
<1>7. PICK u2, u3, u4 : Longer(Characters, encoded, l, x, y, z, w, u2, u3, u4)
  BY <1>3, <1>6, FourMore
<1>8. encoded' = encoded \o Codec!Place(0) \o Codec!Place(1) \o Codec!Place(2) \o Codec!Place(3)
  BY DEF Codec!EncodeGroup
<1>9. /\ Codec!Place(0) = <<x>> /\ Codec!Place(1) = <<y>>
      /\ Codec!Place(2) = (IF 3 * t + 1 < n \/ padding THEN <<z>> ELSE <<>>)
      /\ Codec!Place(3) = (IF 3 * t + 2 < n \/ padding THEN <<w>> ELSE <<>>)
  <2>1. offset + 2 - 1 = 3 * t + 1 /\ offset + 3 - 1 = 3 * t + 2
    BY <1>3
  <2>2. 0 < 2 /\ 1 < 2 /\ ~(2 < 2) /\ ~(3 < 2)
    OBVIOUS
  <2>3. Codec!Place(0) = <<x>> /\ Codec!Place(1) = <<y>>
    BY <1>4, <2>2 DEF Codec!Place
  <2>4. Codec!Place(2) = (IF 3 * t + 1 < n \/ padding THEN <<z>> ELSE <<>>)
    BY <1>1, <1>4, <2>1, <2>2 DEF Codec!Place
  <2>5. Codec!Place(3) = (IF 3 * t + 2 < n \/ padding THEN <<w>> ELSE <<>>)
    BY <1>1, <1>4, <2>1, <2>2 DEF Codec!Place
  <2> QED BY <2>3, <2>4, <2>5
<1>10. /\ u2 = encoded \o <<x>> \o <<y>> /\ u3 = u2 \o <<z>> /\ u4 = u3 \o <<w>>
       /\ u2 \in Seq(Characters) /\ u3 \in Seq(Characters) /\ u4 \in Seq(Characters)
       /\ Len(u2) = l + 2 /\ Len(u3) = l + 3 /\ Len(u4) = l + 4
  BY <1>7 DEF Longer
<1>11. ASSUME NEW q \in 0 .. l - 1
       PROVE  IsSymbol(u2[q + 1], q) /\ IsSymbol(u3[q + 1], q) /\ IsSymbol(u4[q + 1], q)
  <2>1. q + 1 \in 1 .. l
    OBVIOUS
  <2>2. u2[q + 1] = encoded[q + 1] /\ u3[q + 1] = encoded[q + 1] /\ u4[q + 1] = encoded[q + 1]
    BY <1>7, <2>1 DEF Longer
  <2> QED BY <1>3, <2>2
<1>12. /\ IsSymbol(u2[l + 1], l) /\ IsSymbol(u2[l + 2], l + 1)
       /\ IsSymbol(u3[l + 1], l) /\ IsSymbol(u3[l + 2], l + 1)
       /\ IsSymbol(u4[l + 1], l) /\ IsSymbol(u4[l + 2], l + 1)
       /\ u3[l + 3] = z /\ u4[l + 3] = z /\ u4[l + 4] = w
  BY <1>5, <1>7 DEF Longer
<1>13. /\ (l + 0) + 1 = l + 1 /\ (l + 1) + 1 = l + 2 /\ (l + 2) + 1 = l + 3 /\ (l + 3) + 1 = l + 4
       /\ l + 4 = 4 * (t + 1) /\ l + 3 = 4 * (t + 1) - 1 /\ l + 2 = 4 * (t + 1) - 2
       /\ t + 1 \in Nat
  BY <1>2, <1>3
<1>14. CASE 3 * t + 2 < n
  <2>0. 3 * t + 1 < n
    BY <1>3, <1>14
  <2>1. encoded' = u4
    <3>1. Codec!Place(2) = <<z>> /\ Codec!Place(3) = <<w>>
      BY <1>9, <1>14, <2>0
    <3> QED BY <1>8, <1>9, <1>10, <3>1
  <2>2. IsSymbol(u4[l + 3], l + 2) /\ IsSymbol(u4[l + 4], l + 3)
    BY <1>3, <1>5, <1>12, <1>14
  <2>3. \A q \in 0 .. (l + 4) - 1 : IsSymbol(u4[q + 1], q)
    <3>1. ASSUME NEW q \in 0 .. (l + 4) - 1
          PROVE  q \in 0 .. l - 1 \/ q = l \/ q = l + 1 \/ q = l + 2 \/ q = l + 3
      OBVIOUS
    <3> QED BY <1>11, <1>12, <1>13, <2>2, <3>1
  <2>4. Counts(l + 4, t + 1, n)
    <3>1. 3 * (t + 1) =< n
      BY <1>3, <1>14
    <3> QED BY <1>13, <3>1 DEF Counts
  <2>5. \A q \in l + 4 .. (l + 4) - 1 : u4[q + 1] = Pad
    OBVIOUS
  <2>6. Encodes(u4, l + 4, t + 1)
    <3>1. l + 4 \in Nat /\ (l + 4 = IF padding THEN 4 * (t + 1) ELSE l + 4)
      BY <1>13
    <3> QED BY <1>1, <1>10, <1>13, <2>3, <2>4, <2>5, <3>1, EncodesIntro
  <2> QED BY <2>1, <2>6
<1>15. CASE n = 3 * t + 2
  <2>0. 3 * t + 1 < n /\ ~(3 * t + 2 < n) /\ 3 * (t + 1) = n + 1
    BY <1>3, <1>15
  <2>1. w = Pad /\ IsSymbol(z, l + 2)
    BY <1>4, <1>5, <2>0
  <2>2. \A q \in 0 .. (l + 3) - 1 : IsSymbol(u3[q + 1], q) /\ IsSymbol(u4[q + 1], q)
    <3>1. ASSUME NEW q \in 0 .. (l + 3) - 1
          PROVE  q \in 0 .. l - 1 \/ q = l \/ q = l + 1 \/ q = l + 2
      OBVIOUS
    <3>2. IsSymbol(u3[l + 3], l + 2) /\ IsSymbol(u4[l + 3], l + 2)
      BY <1>12, <2>1
    <3> QED BY <1>11, <1>12, <1>13, <3>1, <3>2
  <2>3. CASE padding
    <3>1. encoded' = u4
      BY <1>8, <1>9, <1>10, <2>0, <2>3
    <3>2. ASSUME NEW q \in l + 3 .. (l + 4) - 1 PROVE u4[q + 1] = Pad
      <4>1. q = l + 3
        BY <1>10
      <4> QED BY <1>12, <1>13, <2>1, <4>1
    <3>3. Encodes(u4, l + 3, t + 1)
      <4>1. l + 3 \in Nat /\ (l + 4 = IF padding THEN 4 * (t + 1) ELSE l + 3)
        BY <1>13, <2>3
      <4>2. Counts(l + 3, t + 1, n)
        BY <1>13, <2>0 DEF Counts
      <4> QED BY <1>1, <1>10, <1>13, <2>2, <3>2, <4>1, <4>2, EncodesIntro
    <3> QED BY <3>1, <3>3
  <2>4. CASE ~padding
    <3>1. encoded' = u3
      <4>1. u3 \o <<>> = u3
        BY <1>10
      <4> QED BY <1>8, <1>9, <1>10, <2>0, <2>4, <4>1
    <3>2. \A q \in l + 3 .. (l + 3) - 1 : u3[q + 1] = Pad
      BY <1>10
    <3>3. Encodes(u3, l + 3, t + 1)
      <4>1. l + 3 \in Nat /\ (l + 3 = IF padding THEN 4 * (t + 1) ELSE l + 3)
        BY <1>13, <2>4
      <4>2. Counts(l + 3, t + 1, n)
        BY <1>13, <2>0 DEF Counts
      <4> QED BY <1>1, <1>10, <1>13, <2>2, <3>2, <4>1, <4>2, EncodesIntro
    <3> QED BY <3>1, <3>3
  <2> QED BY <2>3, <2>4
<1>16. CASE n = 3 * t + 1
  <2>0. ~(3 * t + 1 < n) /\ ~(3 * t + 2 < n) /\ 3 * (t + 1) = n + 2
    BY <1>3, <1>16
  <2>1. w = Pad /\ z = Pad
    BY <1>4, <2>0
  <2>2. \A q \in 0 .. (l + 2) - 1 : IsSymbol(u2[q + 1], q) /\ IsSymbol(u4[q + 1], q)
    <3>1. ASSUME NEW q \in 0 .. (l + 2) - 1
          PROVE  q \in 0 .. l - 1 \/ q = l \/ q = l + 1
      OBVIOUS
    <3> QED BY <1>11, <1>12, <1>13, <3>1
  <2>3. CASE padding
    <3>1. encoded' = u4
      BY <1>8, <1>9, <1>10, <2>0, <2>3
    <3>2. ASSUME NEW q \in l + 2 .. (l + 4) - 1 PROVE u4[q + 1] = Pad
      <4>1. q = l + 2 \/ q = l + 3
        BY <1>10
      <4> QED BY <1>12, <1>13, <2>1, <4>1
    <3>3. Encodes(u4, l + 2, t + 1)
      <4>1. l + 2 \in Nat /\ (l + 4 = IF padding THEN 4 * (t + 1) ELSE l + 2)
        BY <1>13, <2>3
      <4>2. Counts(l + 2, t + 1, n)
        BY <1>13, <2>0 DEF Counts
      <4> QED BY <1>1, <1>10, <1>13, <2>2, <3>2, <4>1, <4>2, EncodesIntro
    <3> QED BY <3>1, <3>3
  <2>4. CASE ~padding
    <3>1. encoded' = u2
      <4>1. u2 \o <<>> = u2
        BY <1>10
      <4> QED BY <1>8, <1>9, <1>10, <2>0, <2>4, <4>1
    <3>2. \A q \in l + 2 .. (l + 2) - 1 : u2[q + 1] = Pad
      BY <1>10
    <3>3. Encodes(u2, l + 2, t + 1)
      <4>1. l + 2 \in Nat /\ (l + 2 = IF padding THEN 4 * (t + 1) ELSE l + 2)
        BY <1>13, <2>4
      <4>2. Counts(l + 2, t + 1, n)
        BY <1>13, <2>0 DEF Counts
      <4> QED BY <1>1, <1>10, <1>13, <2>2, <3>2, <4>1, <4>2, EncodesIntro
    <3> QED BY <3>1, <3>3
  <2> QED BY <2>3, <2>4
<1> QED BY <1>3, <1>14, <1>15, <1>16

-------------------------------------------------------------------------------
\* What Base64UrlDecode reads.
TextBit(i) == Codec!BitOf(encoded, SymbolBits, i)

\* The symbols before offset are read: their bits are those of the output and, in
\* the word, those of a byte that is not whole.
Decodes ==
  /\ offset \in 0 .. Len(encoded) /\ buffer \in Nat /\ bits \in 0 .. ByteBits - 1
  /\ output \in Seq(Codec!Bytes)
  /\ SymbolBits * offset = ByteBits * Len(output) + bits
  /\ \A q \in 0 .. offset - 1 : encoded[q + 1] \in Codec!Symbols
  /\ \A q \in 0 .. Len(output) - 1 : \A r \in 0 .. ByteBits - 1 :
       Bit(output[q + 1], (ByteBits - 1) - r) = TextBit(ByteBits * q + r)
  /\ \A j \in 0 .. bits - 1 : Bit(buffer, j) = TextBit((SymbolBits * offset - 1) - j)

\* The symbol is shifted into the word below the bits it keeps.
LEMMA WordBitsRead ==
  ASSUME encoded \in Seq(Characters), Decodes, encoded[offset + 1] \in Codec!Symbols,
         buffer' = Codec!Shifted, NEW j \in Nat, j < bits + SymbolBits
  PROVE  buffer' \in Nat /\ Bit(buffer', j) = TextBit((SymbolBits * (offset + 1) - 1) - j)
<1>1. PICK c \in Nat : c = encoded[offset + 1] /\ c < P(SymbolBits)
  BY InRange
<1>2. PICK s \in Nat \ {0}, o \in Nat : s = SymbolBits /\ o = offset
  BY Widths DEF Decodes
<1>3. bits \in Nat /\ bits < ByteBits /\ buffer \in Nat
  BY Widths DEF Decodes
<1>4. PICK x \in Nat : x = buffer * P(SymbolBits) + c
  <2>1. PICK m \in Nat : m = P(SymbolBits)
    BY Widths, PowerIsNumber
  <2>2. buffer * m \in Nat
    BY <1>3
  <2> QED BY <2>1, <2>2
<1>5. buffer' = x % P(WordBits)
  BY <1>1, <1>4 DEF Codec!Shifted, Codec!Char, Codec!Word, P
<1>6. buffer' \in Nat
  BY <1>5, Widths, PowerIsNumber, Divided
<1>7. Bit(x % P(WordBits), j) = Bit(x, j)
  <2>1. j < WordBits
    BY <1>3, Widths
  <2> QED BY <2>1, Widths, BitKept
<1>8. Bit(x, j) = IF j < SymbolBits THEN Bit(c, j) ELSE Bit(buffer, j - SymbolBits)
  BY <1>1, <1>3, <1>4, Widths, BitShiftedIn
<1>9. PICK v \in Nat : v = s * o /\ s * (o + 1) = v + s
  OBVIOUS
<1>10. CASE j < s
  <2>1. PICK r \in Nat : r = (s - 1) - j /\ r < s /\ (s - 1) - r = j
    BY <1>10
  <2>2. PICK i : i = s * o + r
    OBVIOUS
  <2>3. Codec!BitOf(encoded, s, i) = Bit(encoded[o + 1], (s - 1) - r)
    BY <2>1, <2>2, BitOfAt
  <2>6. i = (s * (o + 1) - 1) - j
    BY <1>9, <2>1, <2>2
  <2>4. Bit(buffer', j) = Bit(c, j)
    BY <1>2, <1>5, <1>7, <1>8, <1>10
  <2>5. TextBit(i) = Bit(c, j)
    BY <1>1, <1>2, <2>1, <2>3 DEF TextBit
  <2> QED BY <1>2, <1>6, <2>4, <2>5, <2>6
<1>11. CASE ~(j < s)
  <2>1. PICK i \in Nat : i = j - s /\ i \in 0 .. bits - 1
    BY <1>2, <1>3, <1>11
  <2>2. Bit(buffer, i) = TextBit((s * o - 1) - i)
    BY <1>2, <2>1 DEF Decodes
  <2>3. (s * o - 1) - i = (s * (o + 1) - 1) - j
    BY <1>9, <2>1
  <2> QED BY <1>2, <1>4, <1>5, <1>6, <1>7, <1>8, <1>11, <2>1, <2>2, <2>3
<1> QED BY <1>10, <1>11

\* A symbol more is read, and with it a byte if it is whole.
LEMMA SymbolRead ==
  ASSUME encoded \in Seq(Characters), Decodes, offset < Len(encoded),
         encoded[offset + 1] \in Codec!Symbols, buffer' = Codec!Shifted, Codec!TakeByte,
         offset' = offset + 1, encoded' = encoded
  PROVE  Decodes'
<1>1. PICK s \in Nat \ {0}, b \in Nat \ {0}, o \in Nat, l \in Nat, k \in Nat, v \in Nat :
        /\ s = SymbolBits /\ b = ByteBits /\ o = offset /\ l = Len(output) /\ k = bits
        /\ s < b /\ k < b /\ v = s * o /\ s * (o + 1) = v + s /\ v = b * l + k
  <2>1. offset \in Nat /\ bits \in Nat /\ bits < ByteBits /\ output \in Seq(Codec!Bytes)
    BY Widths DEF Decodes
  <2>2. SymbolBits < ByteBits
    BY Widths
  <2>3. SymbolBits * offset \in Nat /\ SymbolBits * (offset + 1) = SymbolBits * offset + SymbolBits
    BY <2>1, Widths
  <2>4. SymbolBits * offset = ByteBits * Len(output) + bits
    BY DEF Decodes
  <2>5. Len(output) \in Nat
    BY <2>1
  <2>6. SymbolBits \in Nat \ {0} /\ ByteBits \in Nat \ {0}
    BY Widths
  <2>7. PICK v \in Nat : v = SymbolBits * offset
    BY <2>3
  <2>8. SymbolBits * (offset + 1) = v + SymbolBits /\ v = ByteBits * Len(output) + bits
    BY <2>3, <2>4, <2>7
  <2> QED BY <2>1, <2>2, <2>5, <2>6, <2>7, <2>8
<1>2. ASSUME NEW j \in Nat, j < k + s
      PROVE  Bit(buffer', j) = TextBit((s * (o + 1) - 1) - j)
  BY <1>1, <1>2, WordBitsRead
<1>3. buffer' \in Nat
  <2>1. 0 \in Nat /\ 0 < bits + SymbolBits
    BY <1>1
  <2> QED BY <2>1, WordBitsRead
<1>4. offset' \in 0 .. Len(encoded')
  BY <1>1
<1>5. \A q \in 0 .. offset' - 1 : encoded'[q + 1] \in Codec!Symbols
  <2>1. \A q \in 0 .. (o + 1) - 1 : q \in 0 .. o - 1 \/ q = o
    OBVIOUS
  <2> QED BY <1>1, <2>1 DEF Decodes
<1>6. ASSUME NEW i PROVE TextBit(i)' = TextBit(i)
  BY DEF TextBit, Codec!BitOf
<1>7. CASE k + s < b
  <2>1. bits' = k + s /\ output' = output
    BY <1>1, <1>7 DEF Codec!TakeByte
  <2>2. \A j \in 0 .. bits' - 1 : Bit(buffer', j) = TextBit((SymbolBits * offset' - 1) - j)
    BY <1>1, <1>2, <2>1
  <2>3. bits' \in 0 .. ByteBits - 1 /\ SymbolBits * offset' = ByteBits * Len(output') + bits'
    BY <1>1, <1>7, <2>1
  <2>4. \A q \in 0 .. Len(output') - 1 : \A r \in 0 .. ByteBits - 1 :
          Bit(output'[q + 1], (ByteBits - 1) - r) = TextBit(ByteBits * q + r)
    BY <2>1 DEF Decodes
  <2>5. output' \in Seq(Codec!Bytes)
    BY <2>1 DEF Decodes
  <2> QED BY <1>3, <1>4, <1>5, <1>6, <2>2, <2>3, <2>4, <2>5 DEF Decodes
<1>8. CASE k + s >= b
  <2>1. PICK e \in Nat : e = (k + s) - b /\ e < b
    BY <1>1, <1>8
  <2>2. PICK x : x = (buffer' \div P(e)) % P(b)
    OBVIOUS
  <2>3. bits' = e /\ output' = Append(output, x)
    BY <1>1, <1>8, <2>1, <2>2 DEF Codec!TakeByte, P
  <2>4. x \in Nat /\ x \in Codec!Bytes /\ \A j \in Nat : j < b => Bit(x, j) = Bit(buffer', e + j)
    <3>1. PICK h \in Nat : h = buffer' \div P(e)
      BY <1>3, PowerIsNumber, Divided
    <3>2. x \in Nat /\ x < P(b)
      BY <2>2, <3>1, PowerIsNumber, Divided
    <3>3. ASSUME NEW j \in Nat, j < b PROVE Bit(x, j) = Bit(buffer', e + j)
      <4>1. Bit(h % P(b), j) = Bit(h, j)
        BY <3>3, BitKept
      <4>2. Bit(h, j) = Bit(buffer', e + j)
        BY <1>3, <3>1, BitShiftedOut
      <4> QED BY <2>2, <3>1, <4>1, <4>2
    <3> QED BY <1>1, <3>2, <3>3, InRange
  <2>5. /\ output' \in Seq(Codec!Bytes) /\ Len(output') = l + 1 /\ output'[l + 1] = x
        /\ \A i \in 1 .. l : output'[i] = output[i]
    BY <1>1, <2>3, <2>4 DEF Decodes
  <2>6. PICK w \in Nat : w = b * l /\ b * (l + 1) = w + b
    OBVIOUS
  <2>7. SymbolBits * offset' = ByteBits * Len(output') + bits'
    <3>1. SymbolBits * offset' = s * (o + 1) /\ ByteBits * Len(output') + bits' = b * (l + 1) + e
      BY <1>1, <2>3, <2>5
    <3>2. s * (o + 1) = (w + k) + s
      BY <1>1, <2>6
    <3>3. b * (l + 1) + e = (w + k) + s
      BY <1>1, <2>1, <2>6
    <3> QED BY <3>1, <3>2, <3>3
  <2>8. ASSUME NEW j \in 0 .. bits' - 1
        PROVE  Bit(buffer', j) = TextBit((SymbolBits * offset' - 1) - j)
    <3>1. j \in Nat /\ j < k + s
      BY <1>1, <2>1, <2>3
    <3> QED BY <1>1, <1>2, <3>1
  <2>9. ASSUME NEW q \in 0 .. Len(output') - 1, NEW r \in 0 .. ByteBits - 1
        PROVE  Bit(output'[q + 1], (ByteBits - 1) - r) = TextBit(ByteBits * q + r)
    <3>1. CASE q = l
      <4>1. PICK j \in Nat : j = (b - 1) - r /\ j < b
        BY <1>1
      <4>2. Bit(x, j) = Bit(buffer', e + j)
        BY <2>4, <4>1
      <4>3. e + j \in Nat /\ e + j < k + s
        BY <2>1, <4>1
      <4>4. Bit(buffer', e + j) = TextBit((s * (o + 1) - 1) - (e + j))
        BY <1>2, <4>3
      <4>5. (s * (o + 1) - 1) - (e + j) = b * l + r
        BY <1>1, <2>1, <4>1
      <4> QED BY <1>1, <2>5, <3>1, <4>1, <4>2, <4>4, <4>5
    <3>2. CASE q # l
      <4>1. q \in 0 .. l - 1 /\ q + 1 \in 1 .. l
        BY <2>5, <3>2
      <4>2. output'[q + 1] = output[q + 1]
        BY <2>5, <4>1
      <4> QED BY <1>1, <4>1, <4>2 DEF Decodes
    <3> QED BY <3>1, <3>2
  <2>10. bits' \in 0 .. ByteBits - 1
    BY <1>1, <2>1, <2>3
  <2> QED BY <1>3, <1>4, <1>5, <1>6, <2>5, <2>7, <2>8, <2>9, <2>10 DEF Decodes
<1> QED BY <1>1, <1>7, <1>8

-------------------------------------------------------------------------------
\* The data are encoded whole, and what is returned was read to its end.
Whole == \E m, t : Encodes(encoded, m, t) /\ 3 * t >= Len(data)

CodecEnded ==
  /\ codec_phase = "invalid" => offset < Len(encoded) /\ encoded[offset + 1] = Other
                                /\ encoded[offset + 1] # Pad
  /\ codec_phase = "malformed" => Codec!AtEnd /\ Codec!Malformed
  /\ codec_phase = "done" => Codec!AtEnd /\ ~Codec!Malformed

CodecInv ==
  /\ data \in Seq(Codec!Bytes) /\ padding \in BOOLEAN /\ encoded \in Seq(Characters)
  /\ codec_phase \in {"encode", "decode", "invalid", "malformed", "done"}
  /\ codec_phase = "encode" => /\ buffer = 0 /\ bits = 0 /\ output = <<>>
                               /\ \E m, t : Encodes(encoded, m, t) /\ offset = 3 * t
  /\ codec_phase # "encode" => Decodes /\ (data # <<>> => Whole)
  /\ CodecEnded

\* What an encoding is depends on the data alone, what is read on the text alone.
LEMMA EncodesKept ==
  ASSUME UNCHANGED <<data, padding>>, NEW m, NEW t
  PROVE  Encodes(encoded, m, t)' <=> Encodes(encoded', m, t)
<1>1. ASSUME NEW i PROVE DataBit(i)' = DataBit(i)
  BY DEF DataBit, Codec!ByteAt
<1>2. ASSUME NEW q PROVE IsSymbol(encoded[q + 1], q)' <=> IsSymbol(encoded'[q + 1], q)
  BY <1>1 DEF IsSymbol
<1> QED BY <1>2 DEF Encodes

LEMMA DecodesKept ==
  ASSUME Decodes, UNCHANGED <<encoded, offset, buffer, bits, output>>
  PROVE  Decodes'
<1>1. ASSUME NEW i PROVE TextBit(i)' = TextBit(i)
  BY DEF TextBit, Codec!BitOf
<1> QED BY <1>1 DEF Decodes

LEMMA DecodesNothing ==
  ASSUME encoded \in Seq(Characters), offset = 0, buffer = 0, bits = 0, output = <<>>
  PROVE  Decodes
<1>1. /\ offset \in 0 .. Len(encoded) /\ buffer \in Nat /\ bits \in 0 .. ByteBits - 1
      /\ output \in Seq(Codec!Bytes) /\ Len(output) = 0
  BY Widths
<1>2. SymbolBits * offset = ByteBits * Len(output) + bits
  BY <1>1, Widths
<1> QED BY <1>1, <1>2 DEF Decodes

LEMMA CodecNothing == NoCodec => CodecInv
<1> SUFFICES ASSUME NoCodec PROVE CodecInv
  OBVIOUS
<1>1. /\ data = <<>> /\ padding = FALSE /\ encoded = <<>> /\ codec_phase = "done"
      /\ offset = 0 /\ buffer = 0 /\ bits = 0 /\ output = <<>>
  BY DEF NoCodec
<1>2. encoded \in Seq(Characters) /\ data \in Seq(Codec!Bytes) /\ Len(encoded) = 0
  BY <1>1
<1>3. Decodes
  BY <1>1, <1>2, DecodesNothing
<1>4. Codec!AtEnd /\ ~Codec!Malformed
  BY <1>1, <1>2, Widths DEF Codec!AtEnd, Codec!Malformed
<1> QED BY <1>1, <1>2, <1>3, <1>4 DEF CodecInv, CodecEnded

\* The invariant holds at first and at every step.
LEMMA CodecInit == Codec!Init => CodecInv
<1> SUFFICES ASSUME Codec!Init PROVE CodecInv
  OBVIOUS
<1>1. offset = 0 /\ buffer = 0 /\ bits = 0 /\ output = <<>>
  BY DEF Codec!Init
<1>2. CASE data \in Bodies /\ padding \in BOOLEAN /\ encoded = <<>> /\ codec_phase = "encode"
  <2>1. data \in Seq(Codec!Bytes) /\ Len(encoded) = 0
    BY <1>2, InputsAssumption DEF Codec!InputsFit
  <2>2. encoded \in Seq(Characters)
    BY <1>2
  <2>3. Encodes(encoded, 0, 0)
    <3>1. 0 = 4 * 0 /\ 3 * 0 =< Len(data) /\ 0 \in Nat
      BY <2>1
    <3>2. \A q \in 0 .. 0 - 1 : FALSE
      OBVIOUS
    <3>3. Len(encoded) = (IF padding THEN 4 * 0 ELSE 0)
      BY <2>1
    <3>4. \A q \in 0 .. Len(encoded) - 1 : FALSE
      BY <2>1
    <3> QED BY <2>2, <3>1, <3>2, <3>3, <3>4 DEF Encodes
  <2>4. \E m, t : Encodes(encoded, m, t) /\ offset = 3 * t
    <3>1. offset = 3 * 0
      BY <1>1
    <3> QED BY <2>3, <3>1
  <2> QED BY <1>1, <1>2, <2>1, <2>2, <2>4 DEF CodecInv, CodecEnded
<1>3. CASE data = <<>> /\ padding = FALSE /\ encoded \in Encodings /\ codec_phase = "decode"
  <2>1. encoded \in Seq(Characters) /\ data \in Seq(Codec!Bytes)
    BY <1>3, InputsAssumption DEF Codec!InputsFit, Characters
  <2>2. Decodes
    BY <1>1, <2>1, DecodesNothing
  <2> QED BY <1>1, <1>3, <2>1, <2>2 DEF CodecInv, CodecEnded
<1> QED BY <1>2, <1>3 DEF Codec!Init

LEMMA EncodeGroupKeeps ==
  ASSUME CodecInv, Codec!EncodeGroup
  PROVE  CodecInv'
<1>1. PICK m, t : Encodes(encoded, m, t) /\ offset = 3 * t
  BY DEF CodecInv, Codec!EncodeGroup
<1>2. t \in Nat
  BY <1>1 DEF Encodes
<1>3. data \in Seq(Codec!Bytes) /\ padding \in BOOLEAN
  BY DEF CodecInv
<1>4. PICK k : Encodes(encoded', k, t + 1)
  BY <1>1, <1>3, EncodesOneMore
<1>5. /\ UNCHANGED <<data, padding, buffer, bits, output, codec_phase>> /\ offset' = offset + 3
      /\ codec_phase = "encode"
  BY DEF Codec!EncodeGroup
<1>6. Encodes(encoded, k, t + 1)'
  BY <1>4, <1>5, EncodesKept
<1>7. offset' = 3 * (t + 1)
  BY <1>1, <1>2, <1>5
<1>8. encoded' \in Seq(Characters)
  BY <1>4 DEF Encodes
<1>9. (\E n, i : Encodes(encoded, n, i) /\ offset = 3 * i)'
  BY <1>6, <1>7
<1> QED BY <1>3, <1>5, <1>8, <1>9 DEF CodecInv, CodecEnded

LEMMA EncodedKeeps ==
  ASSUME CodecInv, Codec!Encoded
  PROVE  CodecInv'
<1>1. PICK m, t : Encodes(encoded, m, t) /\ offset = 3 * t
  BY DEF CodecInv, Codec!Encoded
<1>2. /\ data \in Seq(Codec!Bytes) /\ padding \in BOOLEAN /\ encoded \in Seq(Characters)
      /\ buffer = 0 /\ bits = 0 /\ output = <<>>
  BY DEF CodecInv, Codec!Encoded
<1>3. /\ UNCHANGED <<data, padding, encoded, buffer, bits, output>>
      /\ codec_phase' = "decode" /\ offset' = 0 /\ offset >= Len(data)
  BY DEF Codec!Encoded
<1>4. Whole'
  <2>1. Encodes(encoded, m, t)'
    BY <1>1, <1>3, EncodesKept
  <2>2. 3 * t >= Len(data)'
    BY <1>1, <1>3
  <2> QED BY <2>1, <2>2 DEF Whole
<1>5. Decodes'
  <2>1. /\ offset' \in 0 .. Len(encoded') /\ buffer' \in Nat /\ bits' \in 0 .. ByteBits - 1
        /\ output' \in Seq(Codec!Bytes) /\ Len(output') = 0
    BY <1>2, <1>3, Widths
  <2>2. SymbolBits * offset' = ByteBits * Len(output') + bits'
    BY <1>2, <1>3, <2>1, Widths
  <2> QED BY <1>2, <1>3, <2>1, <2>2 DEF Decodes
<1> QED BY <1>2, <1>3, <1>4, <1>5 DEF CodecInv, CodecEnded

\* Nothing moves what was encoded or what was read so far.
LEMMA WholeKept ==
  ASSUME data # <<>> => Whole, UNCHANGED <<data, padding, encoded>>
  PROVE  (data # <<>> => Whole)'
<1>1. ASSUME NEW m, NEW t, Encodes(encoded, m, t) PROVE Encodes(encoded, m, t)'
  BY <1>1, EncodesKept
<1> QED BY <1>1 DEF Whole

LEMMA DecodeCharKeeps ==
  ASSUME CodecInv, Codec!DecodeChar
  PROVE  CodecInv'
<1>1. /\ codec_phase = "decode" /\ ~Codec!AtEnd /\ UNCHANGED <<data, padding, encoded>>
  BY DEF Codec!DecodeChar
<1>2. /\ data \in Seq(Codec!Bytes) /\ padding \in BOOLEAN /\ encoded \in Seq(Characters)
      /\ Decodes /\ (data # <<>> => Whole)
  BY <1>1 DEF CodecInv
<1>3. offset < Len(encoded) /\ encoded[offset + 1] # Pad
  BY <1>1 DEF Codec!AtEnd, Codec!Char
<1>4. (data # <<>> => Whole)'
  BY <1>1, <1>2, WholeKept
<1>5. CASE encoded[offset + 1] = Other
  <2>1. codec_phase' = "invalid" /\ UNCHANGED <<offset, buffer, bits, output>>
    BY <1>5 DEF Codec!DecodeChar, Codec!Char
  <2>2. Decodes'
    BY <1>1, <1>2, <2>1, DecodesKept
  <2> QED BY <1>1, <1>2, <1>3, <1>4, <1>5, <2>1, <2>2 DEF CodecInv, CodecEnded
<1>6. CASE encoded[offset + 1] # Other
  <2>1. /\ buffer' = Codec!Shifted /\ Codec!TakeByte /\ offset' = offset + 1
        /\ codec_phase' = codec_phase
    BY <1>6 DEF Codec!DecodeChar, Codec!Char
  <2>2. encoded[offset + 1] \in Codec!Symbols
    <3>1. offset + 1 \in 1 .. Len(encoded)
      BY <1>2, <1>3 DEF Decodes
    <3>2. encoded[offset + 1] \in Characters
      BY <1>2, <3>1
    <3> QED BY <1>3, <1>6, <3>2 DEF Characters
  <2>3. Decodes'
    BY <1>1, <1>2, <1>3, <2>1, <2>2, SymbolRead
  <2> QED BY <1>1, <1>2, <1>4, <2>1, <2>3 DEF CodecInv, CodecEnded
<1> QED BY <1>5, <1>6

LEMMA DecodeEndsKeeps ==
  ASSUME CodecInv, Codec!DecodeEnds
  PROVE  CodecInv'
<1>1. /\ codec_phase = "decode" /\ Codec!AtEnd
      /\ codec_phase' = IF Codec!Malformed THEN "malformed" ELSE "done"
      /\ UNCHANGED <<data, padding, encoded, offset, buffer, bits, output>>
  BY DEF Codec!DecodeEnds
<1>2. /\ data \in Seq(Codec!Bytes) /\ padding \in BOOLEAN /\ encoded \in Seq(Characters)
      /\ Decodes /\ (data # <<>> => Whole)
  BY <1>1 DEF CodecInv
<1>3. Decodes' /\ (data # <<>> => Whole)'
  BY <1>1, <1>2, WholeKept, DecodesKept
<1>4. Codec!AtEnd' /\ (Codec!Malformed' <=> Codec!Malformed)
  BY <1>1 DEF Codec!AtEnd, Codec!Malformed, Codec!Char
<1>5. CodecEnded'
  BY <1>1, <1>4 DEF CodecEnded
<1> QED BY <1>1, <1>2, <1>3, <1>5 DEF CodecInv

LEMMA CodecStutters ==
  ASSUME CodecInv, UNCHANGED codec_vars
  PROVE  CodecInv'
<1>1. UNCHANGED <<data, padding, encoded, offset, buffer, bits, output, codec_phase>>
  BY DEF codec_vars
<1>2. codec_phase # "encode" => Decodes' /\ (data # <<>> => Whole)'
  BY <1>1, WholeKept, DecodesKept DEF CodecInv
<1>3. codec_phase = "encode" => (\E m, t : Encodes(encoded, m, t) /\ offset = 3 * t)'
  <2>1. ASSUME NEW m, NEW t, Encodes(encoded, m, t) PROVE Encodes(encoded, m, t)'
    BY <1>1, <2>1, EncodesKept
  <2> QED BY <1>1, <2>1 DEF CodecInv
<1>4. CodecEnded'
  <2>1. (Codec!AtEnd' <=> Codec!AtEnd) /\ (Codec!Malformed' <=> Codec!Malformed)
    BY <1>1 DEF Codec!AtEnd, Codec!Malformed, Codec!Char
  <2> QED BY <1>1, <2>1 DEF CodecInv, CodecEnded
<1> QED BY <1>1, <1>2, <1>3, <1>4 DEF CodecInv

LEMMA CodecNext == CodecInv /\ [Codec!Next]_codec_vars => CodecInv'
<1> SUFFICES ASSUME CodecInv, [Codec!Next]_codec_vars PROVE CodecInv'
  OBVIOUS
<1>1. Codec!Returned => UNCHANGED codec_vars
  BY DEF Codec!Returned, Codec!vars, codec_vars
<1> QED BY <1>1, EncodeGroupKeeps, EncodedKeeps, DecodeCharKeeps, DecodeEndsKeeps, CodecStutters
        DEF Codec!Next

-------------------------------------------------------------------------------
\* What the code promises of both, from what it keeps.
LEMMA PlaceIsBefore ==
  ASSUME NEW w \in Nat \ {0}, NEW n \in Nat, NEW q \in Nat, NEW r \in Nat, r < w
  PROVE  w * q + r < w * n <=> q < n
<1>1. PICK u \in Nat, v \in Nat : u = w * q /\ v = w * n
  OBVIOUS
<1>2. CASE q < n
  <2>1. u + w =< v
    BY <1>1, <1>2, LessTimes
  <2> QED BY <1>1, <1>2, <2>1
<1>3. CASE n < q
  <2>1. v + w =< u
    BY <1>1, <1>3, LessTimes
  <2> QED BY <1>1, <1>3, <2>1
<1>4. CASE n = q
  BY <1>1, <1>4
<1> QED BY <1>2, <1>3, <1>4

LEMMA PlaceOf ==
  ASSUME NEW w \in Nat \ {0}, NEW i \in Nat
  PROVE  \E q, r \in Nat : r < w /\ i = w * q + r
  BY Divided

\* The bits of the encoding are those of the data, and zeros behind them.
LEMMA TextIsData ==
  ASSUME NEW m, NEW t, Encodes(encoded, m, t), NEW i \in Nat, i < SymbolBits * m
  PROVE  TextBit(i) = DataBit(i)
<1>1. PICK s \in Nat \ {0} : s = SymbolBits
  BY Widths
<1>2. PICK q \in Nat, r \in Nat : r < s /\ i = s * q + r
  BY PlaceOf
<1>3. m \in Nat
  BY DEF Encodes
<1>4. q < m
  BY <1>1, <1>2, <1>3, PlaceIsBefore
<1>5. IsSymbol(encoded[q + 1], q)
  BY <1>2, <1>3, <1>4 DEF Encodes
<1>6. Bit(encoded[q + 1], (SymbolBits - 1) - r) = DataBit(SymbolBits * q + r)
  <2>1. r \in 0 .. SymbolBits - 1
    BY <1>1, <1>2
  <2> QED BY <1>5, <2>1 DEF IsSymbol
<1>7. Codec!BitOf(encoded, s, i) = Bit(encoded[q + 1], (s - 1) - r)
  BY <1>2, BitOfAt
<1> QED BY <1>1, <1>2, <1>6, <1>7 DEF TextBit

LEMMA NoBitsBehind ==
  ASSUME data \in Seq(Codec!Bytes), NEW i \in Nat, i >= ByteBits * Len(data)
  PROVE  DataBit(i) = 0
<1>1. PICK b \in Nat \ {0}, n \in Nat : b = ByteBits /\ n = Len(data)
  BY Widths
<1>2. PICK q \in Nat, r \in Nat : r < b /\ i = b * q + r
  BY PlaceOf
<1>3. ~(q < n)
  <2>1. b * n \in Nat /\ ~(i < b * n)
    BY <1>1
  <2> QED BY <1>2, <2>1, PlaceIsBefore
<1>4. Codec!ByteAt(q) = 0
  BY <1>1, <1>3 DEF Codec!ByteAt
<1>5. DataBit(i) = Bit(0, (b - 1) - r)
  BY <1>1, <1>2, <1>4, DataBitAt
<1>6. PICK j \in Nat : j = (b - 1) - r
  BY <1>2
<1>7. Bit(0, j) = 0
  <2>1. PICK p \in Nat \ {0} : p = P(j)
    BY PowerIsNumber
  <2>2. 0 \div p = 0
    BY <2>1
  <2> QED BY <2>1, <2>2 DEF Bit
<1> QED BY <1>5, <1>6, <1>7

\* What is accepted is the bits of the text.
LEMMA AcceptedIsExact ==
  ASSUME CodecInv, codec_phase = "done"
  PROVE  /\ \A i \in 0 .. Len(output) * ByteBits - 1 :
              Codec!BitOf(output, ByteBits, i) = Codec!BitOf(encoded, SymbolBits, i)
         /\ offset * SymbolBits - Len(output) * ByteBits \in 0 .. SymbolBits - 1
         /\ offset < Len(encoded) => encoded[offset + 1] = Pad
<1>1. Decodes /\ Codec!AtEnd /\ ~Codec!Malformed
  BY DEF CodecInv, CodecEnded
<1>2. PICK b \in Nat \ {0}, s \in Nat \ {0}, l \in Nat, o \in Nat :
        b = ByteBits /\ s = SymbolBits /\ l = Len(output) /\ o = offset
  <2>1. output \in Seq(Codec!Bytes) /\ offset \in 0 .. Len(encoded)
    BY <1>1 DEF Decodes
  <2>2. Len(output) \in Nat /\ offset \in Nat
    BY <2>1
  <2> QED BY <2>2, Widths
<1>3. bits \in Nat /\ bits < s /\ s * o = b * l + bits
  BY <1>1, <1>2 DEF Decodes, Codec!Malformed
<1>4. o * s - l * b \in 0 .. s - 1
  <2>1. PICK v \in Nat, w \in Nat : v = s * o /\ w = b * l /\ o * s = v /\ l * b = w
    OBVIOUS
  <2> QED BY <1>3, <2>1
<1>5. ASSUME NEW i \in 0 .. l * b - 1
      PROVE  Codec!BitOf(output, b, i) = TextBit(i)
  <2>1. PICK v \in Nat : v = b * l /\ l * b = v
    OBVIOUS
  <2>2. i \in Nat /\ i < v
    BY <2>1
  <2>3. PICK q \in Nat, r \in Nat : r < b /\ i = b * q + r
    BY <2>2, PlaceOf
  <2>4. q < l
    BY <2>1, <2>2, <2>3, PlaceIsBefore
  <2>5. Codec!BitOf(output, b, i) = Bit(output[q + 1], (b - 1) - r)
    BY <2>3, BitOfAt
  <2>6. q \in 0 .. Len(output) - 1 /\ r \in 0 .. ByteBits - 1
    BY <1>2, <2>3, <2>4
  <2>7. Bit(output[q + 1], (ByteBits - 1) - r) = TextBit(ByteBits * q + r)
    BY <1>1, <2>6 DEF Decodes
  <2> QED BY <1>2, <2>3, <2>5, <2>7
<1>6. offset < Len(encoded) => encoded[offset + 1] = Pad
  BY <1>1 DEF Codec!AtEnd, Codec!Char
<1> QED BY <1>2, <1>4, <1>5, <1>6 DEF TextBit

\* The encoding of some data is decoded to its end, and no bits that matter are left.
LEMMA WholeIsExact ==
  ASSUME CodecInv, data # <<>>, NEW m, NEW t, Encodes(encoded, m, t), 3 * t >= Len(data),
         NEW n \in Nat, n = Len(data)
  PROVE  /\ m \in Nat /\ t \in Nat /\ 3 * t - n \in 0 .. 2
         /\ Len(encoded) \in Nat /\ m =< Len(encoded) /\ Len(encoded) = (IF padding THEN 4 * t ELSE m)
         /\ \A q \in 0 .. m - 1 : encoded[q + 1] \notin {Pad, Other}
         /\ \A q \in m .. Len(encoded) - 1 : encoded[q + 1] = Pad
         /\ \E d \in Nat : SymbolBits * m = ByteBits * n + d /\ d < SymbolBits
         /\ Len(encoded) % 4 # 1
<1>1. m \in Nat /\ t \in Nat /\ encoded \in Seq(Characters) /\ Len(encoded) \in Nat
  BY DEF Encodes
<1>2. \/ m = 4 * t /\ 3 * t = n
      \/ m = 4 * t - 1 /\ 3 * t = n + 1
      \/ m = 4 * t - 2 /\ 3 * t = n + 2
  BY <1>1 DEF Encodes
<1>3. Len(encoded) = (IF padding THEN 4 * t ELSE m)
  BY DEF Encodes
<1>4. 3 * t - n \in 0 .. 2 /\ m =< Len(encoded)
  BY <1>1, <1>2, <1>3
<1>5. ASSUME NEW q \in 0 .. m - 1 PROVE encoded[q + 1] \notin {Pad, Other}
  <2>1. encoded[q + 1] \in Nat
    BY InRange DEF Encodes, IsSymbol
  <2> QED BY <2>1, InputsAssumption DEF Codec!InputsFit
<1>6. \A q \in m .. Len(encoded) - 1 : encoded[q + 1] = Pad
  BY DEF Encodes
<1>7. \E d \in Nat : SymbolBits * m = ByteBits * n + d /\ d < SymbolBits
  <2>1. PICK c \in Nat \ {0}, v \in Nat : c = Unit /\ v = c * t
    BY <1>1, Widths
  <2>2. SymbolBits = 3 * c /\ ByteBits = 4 * c
    BY <2>1, Widths
  <2>3. CASE m = 4 * t /\ 3 * t = n
    <3>1. (3 * c) * m = 12 * v /\ (4 * c) * n = 12 * v
      BY <1>1, <2>1, <2>3
    <3> QED BY <2>1, <2>2, <3>1
  <2>4. CASE m = 4 * t - 1 /\ 3 * t = n + 1
    <3>1. n = 3 * t - 1
      BY <1>1, <2>4
    <3>2. (3 * c) * m = 12 * v - 3 * c
      BY <1>1, <2>1, <2>4
    <3>3. (4 * c) * n = 12 * v - 4 * c
      BY <1>1, <2>1, <3>1
    <3>4. SymbolBits * m = 12 * v - 3 * c /\ ByteBits * n = 12 * v - 4 * c
      BY <2>2, <3>2, <3>3, Zenon
    <3>5. SymbolBits * m = ByteBits * n + c /\ c < SymbolBits
      BY <2>1, <2>2, <3>4
    <3> QED BY <2>1, <3>5
  <2>5. CASE m = 4 * t - 2 /\ 3 * t = n + 2
    <3>1. n = 3 * t - 2
      BY <1>1, <2>5
    <3>2. (3 * c) * m = 12 * v - 6 * c
      BY <1>1, <2>1, <2>5
    <3>3. (4 * c) * n = 12 * v - 8 * c
      BY <1>1, <2>1, <3>1
    <3>4. SymbolBits * m = 12 * v - 6 * c /\ ByteBits * n = 12 * v - 8 * c
      BY <2>2, <3>2, <3>3, Zenon
    <3>5. SymbolBits * m = ByteBits * n + 2 * c /\ 2 * c < SymbolBits /\ 2 * c \in Nat
      BY <2>1, <2>2, <3>4
    <3> QED BY <3>5
  <2> QED BY <1>2, <2>3, <2>4, <2>5
<1>8. Len(encoded) % 4 # 1
  <2>1. Len(encoded) \in {4 * t, 4 * t - 1, 4 * t - 2}
    BY <1>2, <1>3
  <2> QED BY <1>1, <2>1
<1> QED BY <1>1, <1>3, <1>4, <1>5, <1>6, <1>7, <1>8

\* What was encoded is never refused, and comes back.
LEMMA DataComeBack ==
  ASSUME CodecInv, data # <<>>, codec_phase # "encode"
  PROVE  codec_phase \notin {"invalid", "malformed"} /\ (codec_phase = "done" => output = data)
<1>1. Decodes /\ Whole /\ CodecEnded /\ data \in Seq(Codec!Bytes)
  BY DEF CodecInv
<1>2. PICK m, t : Encodes(encoded, m, t) /\ 3 * t >= Len(data)
  BY <1>1 DEF Whole
<1>3. PICK n \in Nat : n = Len(data)
  BY <1>1
<1>4. /\ m \in Nat /\ Len(encoded) \in Nat /\ m =< Len(encoded) /\ Len(encoded) % 4 # 1
      /\ \A q \in 0 .. m - 1 : encoded[q + 1] \notin {Pad, Other}
      /\ \A q \in m .. Len(encoded) - 1 : encoded[q + 1] = Pad
  BY <1>2, <1>3, WholeIsExact
<1>5. PICK d \in Nat : SymbolBits * m = ByteBits * n + d /\ d < SymbolBits
  BY <1>2, <1>3, WholeIsExact
<1>6. PICK o \in Nat : o = offset /\ o =< Len(encoded)
  BY <1>1, <1>4 DEF Decodes
<1>7. codec_phase # "invalid"
  <2> SUFFICES ASSUME codec_phase = "invalid" PROVE FALSE
    OBVIOUS
  <2>1. o < Len(encoded) /\ encoded[o + 1] = Other /\ encoded[o + 1] # Pad
    BY <1>1, <1>6 DEF CodecEnded
  <2>2. o \in 0 .. m - 1 \/ o \in m .. Len(encoded) - 1
    BY <1>4, <1>6, <2>1
  <2> QED BY <1>4, <2>1, <2>2
<1>8. ASSUME Codec!AtEnd
      PROVE  Len(output) = n /\ ~Codec!Malformed
  <2>1. o = m
    <3>1. CASE o < m
      <4>1. o \in 0 .. m - 1 /\ offset < Len(encoded)
        BY <1>4, <1>6, <3>1
      <4>2. encoded[o + 1] = Pad
        BY <1>6, <1>8, <4>1 DEF Codec!AtEnd, Codec!Char
      <4> QED BY <1>4, <4>1, <4>2
    <3>2. CASE m < o
      <4>1. m \in 0 .. o - 1 /\ m \in m .. Len(encoded) - 1
        BY <1>4, <1>6, <3>2
      <4>2. encoded[m + 1] \in Codec!Symbols
        BY <1>1, <1>6, <4>1 DEF Decodes
      <4>3. encoded[m + 1] \in Nat
        BY <4>2, InRange
      <4> QED BY <1>4, <4>1, <4>3, InputsAssumption DEF Codec!InputsFit
    <3> QED BY <1>4, <1>6, <3>1, <3>2
  <2>2. PICK b \in Nat \ {0}, l \in Nat : b = ByteBits /\ l = Len(output)
    <3>1. Len(output) \in Nat
      BY <1>1 DEF Decodes
    <3> QED BY <3>1, Widths
  <2>3. bits \in Nat /\ bits < b /\ d < b
    BY <1>1, <1>5, <2>2, Widths DEF Decodes
  <2>4. b * l + bits = b * n + d
    BY <1>1, <1>5, <1>6, <2>1, <2>2 DEF Decodes
  <2>5. (b * l + bits) \div b = l /\ (b * l + bits) % b = bits
    BY <2>2, <2>3, DividedOnce
  <2>6. (b * n + d) \div b = n /\ (b * n + d) % b = d
    BY <2>2, <2>3, DividedOnce
  <2>7. l = n /\ bits = d
    BY <2>4, <2>5, <2>6
  <2>8. ~(bits >= SymbolBits)
    BY <1>5, <2>7, Widths
  <2> QED BY <1>4, <2>2, <2>7, <2>8 DEF Codec!Malformed
<1>9. codec_phase # "malformed"
  BY <1>1, <1>8 DEF CodecEnded
<1>10. ASSUME codec_phase = "done" PROVE output = data
  <2>1. Len(output) = n /\ output \in Seq(Codec!Bytes)
    BY <1>1, <1>8, <1>10 DEF CodecEnded, Decodes
  <2>2. ASSUME NEW i \in 1 .. n PROVE output[i] = data[i]
    <3>1. PICK q \in Nat : q = i - 1 /\ q < n /\ q + 1 = i
      OBVIOUS
    <3>2. PICK b \in Nat \ {0} : b = ByteBits
      BY Widths
    <3>3. PICK x \in Nat, y \in Nat : x = output[i] /\ y = data[i] /\ x < P(b) /\ y < P(b)
      <4>1. output[i] \in Codec!Bytes /\ data[i] \in Codec!Bytes
        BY <1>1, <1>3, <2>1
      <4> QED BY <3>2, <4>1, InRange
    <3>4. ASSUME NEW j \in Nat, j < b PROVE Bit(x, j) = Bit(y, j)
      <4>1. PICK r \in Nat : r = (b - 1) - j /\ r < b /\ (b - 1) - r = j
        BY <3>4
      <4>2. Bit(x, j) = TextBit(b * q + r)
        <5>1. q \in 0 .. Len(output) - 1 /\ r \in 0 .. ByteBits - 1
          BY <2>1, <3>1, <3>2, <4>1
        <5>2. Bit(output[q + 1], (ByteBits - 1) - r) = TextBit(ByteBits * q + r)
          BY <1>1, <5>1 DEF Decodes
        <5> QED BY <3>1, <3>2, <3>3, <4>1, <5>2
      <4>3. TextBit(b * q + r) = DataBit(b * q + r)
        <5>1. b * q + r < b * n
          BY <3>1, <4>1, PlaceIsBefore
        <5>2. PICK k \in Nat : k = b * q + r
          OBVIOUS
        <5>3. k < SymbolBits * m
          <6>1. PICK w \in Nat : w = b * n
            OBVIOUS
          <6> QED BY <1>5, <3>2, <5>1, <5>2, <6>1
        <5> QED BY <1>2, <5>2, <5>3, TextIsData
      <4>4. DataBit(b * q + r) = Bit(Codec!ByteAt(q), j)
        <5>1. r < ByteBits
          BY <3>2, <4>1
        <5>2. DataBit(ByteBits * q + r) = Bit(Codec!ByteAt(q), (ByteBits - 1) - r)
          BY <5>1, DataBitAt
        <5> QED BY <3>2, <4>1, <5>2
      <4>5. Codec!ByteAt(q) = y
        <5>1. q < Len(data) /\ data[q + 1] = y
          BY <1>3, <3>1, <3>3
        <5> QED BY <5>1 DEF Codec!ByteAt
      <4> QED BY <4>2, <4>3, <4>4, <4>5
    <3>5. x = y
      BY <3>3, <3>4, SameBits
    <3> QED BY <3>3, <3>5
  <2> QED BY <1>1, <1>3, <2>1, <2>2
<1> QED BY <1>7, <1>9, <1>10

\* What is left of the last symbol is zero, and padding fills the last group.
LEMMA EncodingIsOne == CodecInv => Codec!OneEncoding
<1> SUFFICES ASSUME CodecInv, codec_phase # "encode", data # <<>>
             PROVE  /\ \A i \in {j \in 1 .. Len(encoded) : encoded[j] # Pad} :
                         \A i1 \in (i - 1) * SymbolBits .. i * SymbolBits - 1 :
                           i1 >= Len(data) * ByteBits => Codec!BitOf(encoded, SymbolBits, i1) = 0
                    /\ padding => Len(encoded) = 4 * ((Len(data) + 2) \div 3)
  BY DEF Codec!OneEncoding
<1>1. Whole /\ data \in Seq(Codec!Bytes)
  BY DEF CodecInv
<1>2. PICK m, t : Encodes(encoded, m, t) /\ 3 * t >= Len(data)
  BY <1>1 DEF Whole
<1>3. PICK n \in Nat : n = Len(data)
  BY <1>1
<1>4. /\ m \in Nat /\ t \in Nat /\ 3 * t - n \in 0 .. 2 /\ Len(encoded) \in Nat
      /\ Len(encoded) = (IF padding THEN 4 * t ELSE m)
      /\ \A q \in m .. Len(encoded) - 1 : encoded[q + 1] = Pad
  BY <1>2, <1>3, WholeIsExact
<1>5. ASSUME NEW i \in 1 .. Len(encoded), encoded[i] # Pad,
             NEW g \in (i - 1) * SymbolBits .. i * SymbolBits - 1, g >= n * ByteBits
      PROVE  Codec!BitOf(encoded, SymbolBits, g) = 0
  <2>1. PICK q \in Nat, s \in Nat \ {0}, b \in Nat \ {0} :
          q = i - 1 /\ s = SymbolBits /\ b = ByteBits
    BY <1>4, Widths
  <2>2. q < m
    <3>1. q \in m .. Len(encoded) - 1 => encoded[q + 1] = Pad
      BY <1>4
    <3> QED BY <1>4, <1>5, <2>1, <3>1
  <2>3. PICK v \in Nat : v = s * q /\ (i - 1) * s = v /\ i * s = v + s
    BY <1>4, <2>1
  <2>4. PICK k \in Nat : k = g /\ v =< k /\ k < v + s
    BY <2>1, <2>3
  <2>5. k < s * m
    <3>1. v + s =< s * m
      BY <1>4, <2>1, <2>2, <2>3, LessTimes
    <3>2. PICK w \in Nat : w = s * m
      BY <1>4
    <3> QED BY <2>4, <3>1, <3>2
  <2>6. TextBit(k) = DataBit(k)
    BY <1>2, <2>1, <2>5, TextIsData
  <2>7. k >= ByteBits * Len(data)
    BY <1>3, <1>5, <2>1, <2>4
  <2>8. DataBit(k) = 0
    BY <1>1, <2>7, NoBitsBehind
  <2> QED BY <2>4, <2>6, <2>8 DEF TextBit
<1>6. t = (n + 2) \div 3
  BY <1>4
<1>7. padding => Len(encoded) = 4 * ((Len(data) + 2) \div 3)
  BY <1>3, <1>4, <1>6
<1> QED BY <1>3, <1>5, <1>7

LEMMA CodecInvExact == CodecInv => Codec!CodecExact
<1>1. CodecInv => Codec!DecodesExactly
  BY AcceptedIsExact, DataComeBack DEF Codec!DecodesExactly
<1> QED BY <1>1, EncodingIsOne DEF Codec!CodecExact

\* Every sequence of bytes comes back from its one encoding, padded or not, and
\* whatever text is accepted, its bytes are its bits in order: for widths of byte,
\* symbol and word that fit, all data and all texts (Base64Encode, Base64UrlEncode
\* and Base64UrlDecode of crypto.cpp, on which signatures, checksums and every
\* body that crosses the C ABI rest).
THEOREM EncodingLosesNothing == Codec!Spec => []Codec!CodecExact
<1>1. UNCHANGED Codec!vars => UNCHANGED codec_vars
  BY DEF Codec!vars, codec_vars
<1>2. CodecInv /\ [Codec!Next]_(Codec!vars) => CodecInv'
  BY <1>1, CodecNext
<1> QED BY <1>2, CodecInit, CodecInvExact, PTL DEF Codec!Spec

LEMMA DigestNothing == NoDigest => DigestInv
  BY DEF NoDigest, DigestInv, Sha256!DigestSound

\* What is encoded, decoded, hashed and compared is exact together: bytes come back
\* from their one encoding, whatever is decoded is the bits of its text, and what
\* is signed or compared is the digest of its text (crypto.cpp).
THEOREM CryptoIsExact == TokenText => []CryptoExact
<1> DEFINE CryptoInv == CodecInv /\ DigestInv
<1>1. \/ Init /\ NoCodec /\ NoDigest /\ NoToken /\ NoClaims
      \/ NoInteger /\ Codec!Init /\ NoDigest /\ NoToken /\ NoClaims
      \/ NoInteger /\ NoCodec /\ Sha256!Init /\ NoToken /\ NoClaims
      \/ NoInteger /\ NoCodec /\ NoDigest /\ Token!Init /\ NoClaims
      \/ NoInteger /\ NoCodec /\ NoDigest /\ NoToken /\ Claims!Init
      => CryptoInv
  BY CodecNothing, CodecInit, DigestNothing, DigestInit
<1>2. CryptoInv /\ [\/ Next /\ UNCHANGED <<codec_vars, digest_vars, token_vars, claims_vars>>
                    \/ Codec!Next /\ UNCHANGED <<vars, digest_vars, token_vars, claims_vars>>
                    \/ Sha256!Next /\ UNCHANGED <<vars, codec_vars, token_vars, claims_vars>>
                    \/ Token!Next /\ UNCHANGED <<vars, codec_vars, digest_vars, claims_vars>>
                    \/ Claims!Next /\ UNCHANGED <<vars, codec_vars, digest_vars, token_vars>>
                   ]_<<vars, codec_vars, digest_vars, token_vars, claims_vars>>
      => CryptoInv'
  <2>1. CodecInv /\ (Codec!Next \/ UNCHANGED codec_vars) => CodecInv'
    BY CodecNext
  <2>2. DigestInv /\ (Sha256!Next \/ UNCHANGED digest_vars) => DigestInv'
    BY DigestNext
  <2> QED BY <2>1, <2>2
<1>3. CryptoInv => CryptoExact
  BY CodecInvExact DEF CryptoExact, DigestInv
<1> QED BY <1>1, <1>2, <1>3, PTL DEF TokenText
================================================================================
