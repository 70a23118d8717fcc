----------------------- MODULE WebhookVerificationProofs -----------------------
(***************************************************************************)
(* Proofs about WebhookVerification, for any number of calls and secrets,  *)
(* any leeway and any width of the time; and about WebhookEvents, for any  *)
(* times and members.                                                      *)
(*                                                                         *)
(* The inductive invariant says what each phase of a call may rely on: the *)
(* secret the key provider has now, and the one it returned, are among     *)
(* those it had during the call.                                           *)
(***************************************************************************)
EXTENDS MCWebhookVerification, SequenceTheorems, WellFoundedInduction, TLAPS

\* What a call that is under way may rely on.
Knows(c) ==
  /\ Running(c) => request[c] \in Requests /\ now[c] \in ClockTimes /\ outcome[c] = "none"
  /\ pc[c] = "idle" => outcome[c] = "none"
  /\ pc[c] = "lookup" => secret \in held[c]
  /\ pc[c] = "check" => found[c] \in held[c] \ {None}

\* What the properties say of it.
Right(c) == /\ outcome[c] \in {"event", "protocol"} => Vouched(c)
            /\ pc[c] = "ended" /\ Genuine(c) => outcome[c] = "event"

IInv == TypeOK /\ \A c \in Calls : Knows(c) /\ Right(c)

\* A clock time is a number that leaves room for the leeway.
LEMMA ClockNumbers ==
  ASSUME NEW t \in ClockTimes
  PROVE  t \in Int /\ t <= MaxTime - Leeway
  BY TimeAssumption DEF ClockTimes

\* An expiry that may pass is not over, even where the leeway overflows.
LEMMA ExpiryPasses ==
  ASSUME NEW c \in Calls, now[c] \in ClockTimes, NEW exp \in Times, FALSE \in Expired(c, exp)
  PROVE  now[c] <= exp + Leeway
<1>1. exp \in Int /\ MaxTime \in Int /\ Leeway \in Nat /\ now[c] \in Int /\ now[c] <= MaxTime - Leeway
  BY TimeAssumption, ClockNumbers
<1>2. exp + Leeway > MaxTime \/ ~(now[c] > exp + Leeway)
  BY DEF Expired
<1> QED BY <1>1, <1>2

\* An expiry that is not over and leaves room for the leeway passes.
LEMMA ExpiryInTime ==
  ASSUME NEW c \in Calls, now[c] \in ClockTimes, NEW exp \in Times,
         now[c] <= exp + Leeway, exp <= MaxTime - Leeway
  PROVE  TRUE \notin Expired(c, exp)
<1>1. exp \in Int /\ MaxTime \in Int /\ Leeway \in Nat /\ now[c] \in Int
  BY TimeAssumption, ClockNumbers
<1>2. ~(exp + Leeway > MaxTime) /\ ~(now[c] > exp + Leeway)
  BY <1>1
<1> QED BY <1>2 DEF Expired

\* The start of the validity passes exactly when it is not ahead.
LEMMA StartInTime ==
  ASSUME NEW c \in Calls, now[c] \in ClockTimes, NEW nbf \in Times
  PROVE  ~Early(c, nbf) <=> now[c] >= nbf - Leeway
<1>1. nbf \in Int /\ Leeway \in Nat /\ now[c] \in Int
  BY TimeAssumption, ClockNumbers
<1> QED BY <1>1 DEF Early

\* The expiry decides, one way or the other.
LEMMA ExpiryDecides ==
  ASSUME NEW c, NEW exp, NEW expired \in Expired(c, exp)
  PROVE  expired \in BOOLEAN
<1>1. CASE exp \notin Times
  <2>1. expired = (exp = Invalid)
    BY <1>1 DEF Expired
  <2> QED BY <2>1
<1>2. CASE exp \in Times /\ exp + Leeway > MaxTime
  BY <1>2 DEF Expired
<1>3. CASE exp \in Times /\ ~(exp + Leeway > MaxTime)
  <2>1. expired = (now[c] > exp + Leeway)
    BY <1>3 DEF Expired
  <2> QED BY <2>1
<1> QED BY <1>1, <1>2, <1>3

\* Claims that may pass are in time.
LEMMA PassedInTime ==
  ASSUME NEW c \in Calls, request[c] \in Requests, now[c] \in ClockTimes,
         FALSE \in Expired(c, request[c].exp), ~Early(c, request[c].nbf)
  PROVE  InTime(c)
<1> DEFINE exp == request[c].exp
           nbf == request[c].nbf
<1>1. exp \in Claims /\ nbf \in Claims
  BY DEF Requests
<1>2. exp # Invalid
  BY TimeAssumption DEF Expired
<1>3. nbf # Invalid
  BY TimeAssumption DEF Early
<1>4. exp \in Times => now[c] <= exp + Leeway
  BY ExpiryPasses
<1>5. nbf \in Times => now[c] >= nbf - Leeway
  BY StartInTime
<1> QED BY <1>2, <1>3, <1>4, <1>5 DEF InTime

\* Claims in time that leave room for the leeway pass.
LEMMA InTimePasses ==
  ASSUME NEW c \in Calls, request[c] \in Requests, now[c] \in ClockTimes, InTime(c),
         request[c].exp \in Times => request[c].exp <= MaxTime - Leeway
  PROVE  TRUE \notin Expired(c, request[c].exp) /\ ~Early(c, request[c].nbf)
<1> DEFINE exp == request[c].exp
           nbf == request[c].nbf
<1>1. TRUE \notin Expired(c, exp)
  <2>1. CASE exp \in Times
    BY <2>1, ExpiryInTime DEF InTime
  <2>2. CASE exp \notin Times
    BY <2>2 DEF Expired, InTime
  <2> QED BY <2>1, <2>2
<1>2. ~Early(c, nbf)
  <2>1. CASE nbf \in Times
    BY <2>1, StartInTime DEF InTime
  <2>2. CASE nbf \notin Times
    BY <2>2 DEF Early, InTime
  <2> QED BY <2>1, <2>2
<1> QED BY <1>1, <1>2

\* No call has begun.
LEMMA InitInv == Init => IInv
  BY DEF Init, IInv, TypeOK, Knows, Right, Running

\* A call keeps what it knows when nothing of it changes.
LEMMA CallKeeps ==
  ASSUME NEW c \in Calls, Knows(c), Right(c), pc[c] = "lookup" => secret' \in held'[c],
         held'[c] = held[c] \/ (Running(c) /\ held[c] \subseteq held'[c]),
         pc'[c] = pc[c], request'[c] = request[c], now'[c] = now[c],
         found'[c] = found[c], outcome'[c] = outcome[c]
  PROVE  Knows(c)' /\ Right(c)'
<1>1. Knows(c)'
  BY DEF Knows, Running
<1>2. outcome'[c] \in {"event", "protocol"} => Vouched(c)'
  BY DEF Right, Vouched, InTime
<1>3. pc'[c] = "ended" /\ Genuine(c)' => outcome'[c] = "event"
  BY DEF Right, Genuine, InTime, Running
<1> QED BY <1>1, <1>2, <1>3 DEF Right

\* The clock may move under every call.
LEMMA TickInv == IInv /\ Tick => IInv'
<1> SUFFICES ASSUME IInv, Tick PROVE IInv'
  OBVIOUS
<1>1. clock' \in ClockTimes /\ UNCHANGED <<secret, pc, request, now, found, outcome, held>>
  BY DEF Tick
<1>2. ASSUME NEW c \in Calls PROVE Knows(c)' /\ Right(c)'
  BY <1>1, CallKeeps DEF IInv, Knows
<1>3. TypeOK'
  BY <1>1 DEF IInv, TypeOK
<1> QED BY <1>2, <1>3 DEF IInv

\* A rotation adds to what the running calls have seen, and touches no ended one.
LEMMA RotateInv == IInv /\ Rotate => IInv'
<1> SUFFICES ASSUME IInv, Rotate PROVE IInv'
  OBVIOUS
<1>1. UNCHANGED <<clock, pc, request, now, found, outcome>> /\ secret' \in Secrets \cup {None}
  BY DEF Rotate
<1>2. \A c \in Calls : held'[c] = IF Running(c) THEN held[c] \cup {secret'} ELSE held[c]
  BY DEF Rotate
<1>3. TypeOK'
  <2>1. held' \in [Calls -> SUBSET (Secrets \cup {None})]
    BY <1>1 DEF Rotate, IInv, TypeOK
  <2> QED BY <1>1, <2>1 DEF IInv, TypeOK
<1>4. ASSUME NEW c \in Calls PROVE Knows(c)' /\ Right(c)'
  <2>1. held'[c] = held[c] \/ (Running(c) /\ held[c] \subseteq held'[c])
    BY <1>2
  <2>2. pc[c] = "lookup" => secret' \in held'[c]
    BY <1>2 DEF Running
  <2> QED BY <1>1, <2>1, <2>2, CallKeeps DEF IInv
<1> QED BY <1>3, <1>4 DEF IInv

\* A step of a call changes nothing of the others, and not the secret.
Alone(c) == /\ UNCHANGED <<clock, secret>>
            /\ \A d \in Calls \ {c} : /\ pc'[d] = pc[d] /\ request'[d] = request[d] /\ now'[d] = now[d]
                                      /\ found'[d] = found[d] /\ outcome'[d] = outcome[d]
                                      /\ held'[d] = held[d]

\* It is then enough to look at the call itself.
LEMMA OneCall ==
  ASSUME IInv, NEW c \in Calls, Alone(c), TypeOK', Knows(c)', Right(c)'
  PROVE  IInv'
<1>1. ASSUME NEW d \in Calls \ {c} PROVE Knows(d)' /\ Right(d)'
  <2>1. Knows(d) /\ Right(d) /\ (pc[d] = "lookup" => secret' \in held'[d])
    BY DEF IInv, Alone, Knows
  <2> QED BY <2>1, CallKeeps DEF Alone
<1> QED BY <1>1 DEF IInv

\* A request comes in: the call knows the secret of the moment.
LEMMA ReceiveInv ==
  ASSUME IInv, NEW c \in Calls, NEW r \in Requests, Receive(c, r)
  PROVE  IInv'
<1> USE DEF IInv
<1>1. Alone(c)
  BY DEF Receive, Goto, Ends, Alone, TypeOK
<1>2. /\ pc[c] = "idle" /\ pc'[c] = IF r.wellformed THEN "lookup" ELSE "ended"
      /\ request'[c] = r /\ now'[c] = clock /\ held'[c] = {secret} /\ secret' = secret
      /\ outcome'[c] = IF r.wellformed THEN outcome[c] ELSE "authentication"
  BY DEF Receive, Goto, Ends, TypeOK
<1>3. TypeOK'
  <2>1. pc' \in [Calls -> {"idle", "lookup", "check", "ended"}] /\ request' \in [Calls -> Requests \cup {None}]
    BY DEF Receive, Goto, TypeOK
  <2>2. now' \in [Calls -> ClockTimes \cup {None}] /\ held' \in [Calls -> SUBSET (Secrets \cup {None})]
    BY DEF Receive, TypeOK
  <2>3. outcome' \in [Calls -> {"none", "authentication", "protocol", "event"}]
    BY DEF Receive, Ends, TypeOK
  <2> QED BY <2>1, <2>2, <2>3 DEF Receive, TypeOK
<1>4. Knows(c)'
  BY <1>2 DEF Knows, Running, TypeOK
<1>5. Right(c)'
  <2>1. outcome'[c] \in {"none", "authentication"}
    BY <1>2 DEF Knows
  <2>2. pc'[c] = "ended" => ~request'[c].wellformed
    BY <1>2
  <2> QED BY <2>1, <2>2 DEF Right, Genuine
<1> QED BY <1>1, <1>3, <1>4, <1>5, OneCall

\* The key provider answers with the secret of the moment, which is held.
LEMMA LookUpInv ==
  ASSUME IInv, NEW c \in Calls, LookUp(c)
  PROVE  IInv'
<1> USE DEF IInv
<1>1. Alone(c)
  BY DEF LookUp, Goto, Ends, Alone, TypeOK
<1>2. /\ pc[c] = "lookup" /\ pc'[c] = IF secret = None THEN "ended" ELSE "check"
      /\ found'[c] = secret /\ UNCHANGED <<clock, secret, request, now, held>>
      /\ outcome'[c] = IF secret = None THEN "authentication" ELSE outcome[c]
  BY DEF LookUp, Goto, Ends, TypeOK
<1>3. TypeOK'
  <2>1. pc' \in [Calls -> {"idle", "lookup", "check", "ended"}] /\ found' \in [Calls -> Secrets \cup {None}]
    BY DEF LookUp, Goto, TypeOK
  <2>2. outcome' \in [Calls -> {"none", "authentication", "protocol", "event"}]
    BY DEF LookUp, Ends, TypeOK
  <2> QED BY <1>2, <2>1, <2>2 DEF TypeOK
<1>4. Knows(c)'
  BY <1>2 DEF Knows, Running
<1>5. Right(c)'
  <2>1. outcome'[c] \in {"none", "authentication"}
    BY <1>2 DEF Knows, Running
  <2>2. pc'[c] = "ended" => ~Genuine(c)'
    BY <1>2 DEF Knows, Genuine
  <2> QED BY <2>1, <2>2 DEF Right
<1> QED BY <1>1, <1>3, <1>4, <1>5, OneCall

\* A body is read only of a token whose claims passed, and a genuine one passes.
LEMMA CheckInv ==
  ASSUME IInv, NEW c \in Calls, Check(c)
  PROVE  IInv'
<1> USE DEF IInv
<1>1. Alone(c)
  BY DEF Check, Goto, Ends, Alone, TypeOK
<1>2. pc[c] = "check" /\ pc'[c] = "ended" /\ UNCHANGED <<clock, secret, request, now, found, held>>
  BY DEF Check, Goto, TypeOK
<1>3. request[c] \in Requests /\ now[c] \in ClockTimes /\ found[c] \in held[c] \ {None}
  BY <1>2 DEF Knows, Running
<1>4. \/ Matches(c) /\ \E expired \in Expired(c, request[c].exp) :
            Ends(c, Judge(request[c], expired \/ Early(c, request[c].nbf)))
      \/ ~Matches(c) /\ Ends(c, "authentication")
  BY DEF Check
<1>5. \A how : Ends(c, how) => outcome'[c] = how
  BY DEF Ends, TypeOK
<1>6. \A refused : Judge(request[c], refused) \in {"authentication", "protocol", "event"}
  BY DEF Judge
<1>7. TypeOK'
  <2>1. pc' \in [Calls -> {"idle", "lookup", "check", "ended"}]
    BY DEF Check, Goto, TypeOK
  <2>2. outcome' \in [Calls -> {"none", "authentication", "protocol", "event"}]
    BY <1>4, <1>6 DEF Ends, TypeOK
  <2> QED BY <1>2, <2>1, <2>2 DEF TypeOK
<1>8. Knows(c)'
  BY <1>2 DEF Knows, Running
<1>9. outcome'[c] \in {"event", "protocol"} => Vouched(c)
  <2> SUFFICES ASSUME outcome'[c] \in {"event", "protocol"} PROVE Vouched(c)
    OBVIOUS
  <2>1. Matches(c)
    BY <1>4, <1>5
  <2>2. PICK expired \in Expired(c, request[c].exp) :
          outcome'[c] = Judge(request[c], expired \/ Early(c, request[c].nbf))
    BY <1>4, <1>5, <2>1
  <2>3. ~(expired \/ Early(c, request[c].nbf)) /\ request[c].checksum
    BY <2>2 DEF Judge
  <2>4. FALSE \in Expired(c, request[c].exp)
    <3>1. expired \in BOOLEAN
      BY <2>2, ExpiryDecides
    <3>2. ~expired
      BY <2>3
    <3>3. expired = FALSE
      BY <3>1, <3>2
    <3> QED BY <2>2, <3>3
  <2>5. InTime(c)
    BY <1>3, <2>3, <2>4, PassedInTime
  <2> QED BY <1>3, <2>1, <2>3, <2>5 DEF Vouched, Matches
<1>10. Genuine(c) => outcome'[c] = "event"
  <2> SUFFICES ASSUME Genuine(c) PROVE outcome'[c] = "event"
    OBVIOUS
  <2>1. Matches(c)
    BY <1>3 DEF Genuine, Matches
  <2>2. TRUE \notin Expired(c, request[c].exp) /\ ~Early(c, request[c].nbf)
    BY <1>3, InTimePasses DEF Genuine
  <2>3. PICK expired \in Expired(c, request[c].exp) :
          outcome'[c] = Judge(request[c], expired \/ Early(c, request[c].nbf))
    BY <1>4, <1>5, <2>1
  <2>4. ~expired
    BY <2>2, <2>3 DEF Expired
  <2> QED BY <2>2, <2>3, <2>4 DEF Judge, Genuine
<1>11. Right(c)'
  BY <1>2, <1>9, <1>10 DEF Right, Vouched, Genuine, InTime
<1> QED BY <1>1, <1>7, <1>8, <1>11, OneCall

\* No step breaks the invariant.
LEMMA NextInv == IInv /\ [Next]_vars => IInv'
<1> SUFFICES ASSUME IInv, [Next]_vars PROVE IInv'
  OBVIOUS
<1>1. CASE UNCHANGED vars
  <2>1. ASSUME NEW c \in Calls PROVE Knows(c)' /\ Right(c)'
    BY <1>1, CallKeeps DEF IInv, Knows, vars
  <2> QED BY <1>1, <2>1 DEF IInv, TypeOK, vars
<1>2. CASE Tick \/ Rotate
  BY <1>2, TickInv, RotateInv
<1>3. CASE \E c \in Calls : Verify(c)
  BY <1>3, ReceiveInv, LookUpInv, CheckInv DEF Verify
<1> QED BY <1>1, <1>2, <1>3 DEF Next, AllEnded

\* What the theorems below rest on.
LEMMA Invariance == Spec => []IInv
  BY InitInv, NextInv, PTL DEF Spec

\* Whatever the key provider and the clock do, a body is read only when a
\* secret held during the call vouches for it.
THEOREM BodyVouched == Spec => []OnlyVouchedBodyRead
<1>1. IInv => OnlyVouchedBodyRead
  BY DEF IInv, Right, OnlyVouchedBodyRead
<1> QED BY <1>1, Invariance, PTL

\* No genuine request is refused, at either end of the leeway.
THEOREM GenuineServed == Spec => []GenuineAccepted
<1>1. IInv => GenuineAccepted
  BY DEF IInv, Right, GenuineAccepted
<1> QED BY <1>1, Invariance, PTL

\* Every error of a verification is one the header names.
THEOREM TypeCorrect == Spec => []TypeOK
<1>1. IInv => TypeOK
  BY DEF IInv
<1> QED BY <1>1, Invariance, PTL

-------------------------------------------------------------------------------
\* The time of an event is written in digits and read back.  The order of Nat is
\* well founded.
Less == {pair \in Nat \X Nat : pair[1] < pair[2]}

LEMMA LeastNumber ==
  ASSUME NEW T, T \subseteq Nat, T # {}
  PROVE  \E x \in T : \A y \in T : x =< y
<1>1. OpToRel(<, Nat) = Less
  BY DEF OpToRel, Less
<1>2. IsWellFoundedOn(Less, Nat)
  BY <1>1, NatLessThanWellFounded
<1>3. PICK x \in T : \A y \in T : ~(<<y, x>> \in Less)
  BY <1>2, WFMin, Zenon
<1>4. ASSUME NEW y \in T PROVE x =< y
  <2>1. ~(<<y, x>> \in Less)
    BY <1>3
  <2>2. ~(y < x)
    BY <2>1 DEF Less
  <2> QED BY <2>2
<1> QED BY <1>4

\* Induction over the numbers, for the set of those that have a property.
LEMMA SetInduction ==
  ASSUME NEW S, 0 \in S, \A n \in Nat : n \in S => n + 1 \in S
  PROVE  Nat \subseteq S
<1> SUFFICES ASSUME NEW m \in Nat, m \notin S PROVE FALSE
  OBVIOUS
<1> DEFINE T == {n \in Nat : n \notin S}
<1>1. PICK x \in T : \A y \in T : x =< y
  BY LeastNumber, m \in T
<1>2. x # 0 /\ x - 1 \in Nat /\ x - 1 \notin T
  BY <1>1
<1> QED BY <1>1, <1>2

\* The folds of the digits from each place on.
Values(v, digits) ==
  /\ v \in [1 .. Len(digits) + 1 -> Nat] /\ v[Len(digits) + 1] = 0
  /\ \A k \in 1 .. Len(digits) : v[k] = 10 * v[k + 1] + digits[k]

\* What the fold of stoll computes for the sets of places from n - m + 1 to n.
Folded(f, digits, m) ==
  f = [s \in SUBSET (Len(digits) - m + 1 .. Len(digits)) |->
         IF s = {} THEN 0 ELSE 10 * f[s \ {Event!Min(s)}] + digits[Event!Min(s)]]

\* The fold is defined.
LEMMA FoldStep ==
  ASSUME NEW digits \in Seq(Nat), NEW m \in Nat, m < Len(digits), NEW f, Folded(f, digits, m)
  PROVE  \E g : Folded(g, digits, m + 1)
<1> DEFINE n == Len(digits)
           j == n - m
           L == n - m + 1 .. n
           M == n - (m + 1) + 1 .. n
           g == [s \in SUBSET M |-> IF j \in s THEN 10 * f[s \ {j}] + digits[j] ELSE f[s]]
<1>1. n \in Nat /\ j \in M /\ M = L \cup {j} /\ j \notin L /\ \A x \in M : j =< x /\ x \in Int
  OBVIOUS
<1>2. ASSUME NEW s \in SUBSET L PROVE f[s] = IF s = {} THEN 0 ELSE 10 * f[s \ {Event!Min(s)}] + digits[Event!Min(s)]
  BY DEF Folded
<1> HIDE DEF j, L, M, n
<1>3. ASSUME NEW s \in SUBSET M
      PROVE  g[s] = IF s = {} THEN 0 ELSE 10 * g[s \ {Event!Min(s)}] + digits[Event!Min(s)]
  <2>1. CASE j \in s
    <3>1. Event!Min(s) = j
      <4>1. \A y \in s : j =< y /\ y \in Int
        BY <1>1
      <4>2. \A x \in s : (\A y \in s : x =< y) => x = j
        BY <2>1, <4>1
      <4> QED BY <2>1, <4>1, <4>2 DEF Event!Min
    <3>2. s \ {j} \in SUBSET M /\ j \notin s \ {j}
      OBVIOUS
    <3>3. g[s \ {j}] = f[s \ {j}]
      BY <3>2
    <3> QED BY <2>1, <3>1, <3>3
  <2>2. CASE j \notin s
    <3>1. s \in SUBSET L
      BY <1>1, <2>2
    <3>2. s \ {Event!Min(s)} \in SUBSET M /\ j \notin s \ {Event!Min(s)}
      BY <2>2
    <3>3. g[s] = f[s] /\ g[s \ {Event!Min(s)}] = f[s \ {Event!Min(s)}]
      BY <2>2, <3>2
    <3> HIDE DEF g
    <3> QED BY <1>2, <3>1, <3>3
  <2> QED BY <2>1, <2>2
<1>4. g = [s \in SUBSET M |-> g[s]]
  OBVIOUS
<1> HIDE DEF g
<1>5. g = [s \in SUBSET M |-> IF s = {} THEN 0 ELSE 10 * g[s \ {Event!Min(s)}] + digits[Event!Min(s)]]
  BY <1>3, <1>4
<1> QED BY <1>5 DEF Folded, M, n

LEMMA FoldExists ==
  ASSUME NEW digits \in Seq(Nat)
  PROVE  \E f : Folded(f, digits, Len(digits))
<1> DEFINE S == {m \in Nat : m =< Len(digits) => \E f : Folded(f, digits, m)}
<1>1. 0 \in S
  <2> DEFINE L == Len(digits) - 0 + 1 .. Len(digits)
             f == [s \in SUBSET L |-> 0]
  <2>1. L = {}
    OBVIOUS
  <2>2. f = [s \in SUBSET L |-> IF s = {} THEN 0 ELSE 10 * f[s \ {Event!Min(s)}] + digits[Event!Min(s)]]
    BY <2>1
  <2>3. Folded(f, digits, 0)
    BY <2>2 DEF Folded
  <2> HIDE DEF f
  <2> QED BY <2>3
<1>2. \A m \in Nat : m \in S => m + 1 \in S
  BY FoldStep
<1>3. Nat \subseteq S
  <2> HIDE DEF S
  <2> QED BY <1>1, <1>2, SetInduction
<1> QED BY <1>3

\* What the fold computes is the first value.
LEMMA FoldIsValue ==
  ASSUME NEW digits \in Seq(Nat), NEW v, Values(v, digits)
  PROVE  Event!FoldRight(LAMBDA d, n : 10 * n + d, digits, 0) = v[1]
<1> DEFINE n == Len(digits)
           iter == CHOOSE f : f = [s \in SUBSET DOMAIN digits |->
                     IF s = {} THEN 0 ELSE 10 * f[s \ {Event!Min(s)}] + digits[Event!Min(s)]]
<1>1. DOMAIN digits = 1 .. n /\ n \in Nat /\ n - n + 1 = 1
  OBVIOUS
<1>2. iter = [s \in SUBSET (1 .. n) |->
                IF s = {} THEN 0 ELSE 10 * iter[s \ {Event!Min(s)}] + digits[Event!Min(s)]]
  <2>1. PICK f : Folded(f, digits, n)
    BY FoldExists
  <2>2. n - n + 1 .. n = 1 .. n
    BY <1>1
  <2>3. f = [s \in SUBSET DOMAIN digits |->
               IF s = {} THEN 0 ELSE 10 * f[s \ {Event!Min(s)}] + digits[Event!Min(s)]]
    BY <1>1, <2>1, <2>2, Zenon DEF Folded
  <2>4. iter = [s \in SUBSET DOMAIN digits |->
                  IF s = {} THEN 0 ELSE 10 * iter[s \ {Event!Min(s)}] + digits[Event!Min(s)]]
    BY <2>3, Zenon
  <2> HIDE DEF iter
  <2> QED BY <1>1, <2>4, Zenon
<1>3. Event!FoldRight(LAMBDA d, m : 10 * m + d, digits, 0) = iter[1 .. n]
  BY <1>1 DEF Event!FoldRight, Event!MapThenFoldSet
<1> HIDE DEF iter
<1> DEFINE S == {m \in Nat : m =< n => iter[n - m + 1 .. n] = v[n - m + 1]}
<1>4. 0 \in S
  <2>1. n - 0 + 1 .. n = {} /\ n - 0 + 1 = n + 1
    BY <1>1
  <2>2. iter[{}] = 0
    BY <1>2
  <2> QED BY <1>1, <2>1, <2>2 DEF Values
<1>5. ASSUME NEW m \in Nat, m \in S PROVE m + 1 \in S
  <2> SUFFICES ASSUME m + 1 =< n PROVE iter[n - (m + 1) + 1 .. n] = v[n - (m + 1) + 1]
    OBVIOUS
  <2> DEFINE k == n - m
             s == k .. n
  <2>1. k \in 1 .. n /\ n - (m + 1) + 1 = k /\ n - m + 1 = k + 1
    BY <1>1
  <2>2. s \in SUBSET (1 .. n) /\ k \in s /\ s \ {k} = k + 1 .. n /\ \A y \in s : k =< y /\ y \in Int
    BY <1>1, <2>1
  <2>3. Event!Min(s) = k
    <3>1. \A x \in s : (\A y \in s : x =< y) => x = k
      BY <2>2
    <3> HIDE DEF s, k
    <3> QED BY <2>2, <3>1 DEF Event!Min
  <2>4. iter[s] = 10 * iter[k + 1 .. n] + digits[k]
    <3> HIDE DEF s, k
    <3> QED BY <1>2, <2>2, <2>3
  <2>5. iter[k + 1 .. n] = v[k + 1]
    <3>1. iter[n - m + 1 .. n] = v[n - m + 1]
      BY <1>5, <1>1
    <3> QED BY <2>1, <3>1
  <2>6. v[k] = 10 * v[k + 1] + digits[k]
    <3> HIDE DEF k
    <3> QED BY <2>1 DEF Values, n
  <2> HIDE DEF k
  <2> QED BY <2>1, <2>4, <2>5, <2>6
<1>6. Nat \subseteq S
  <2> HIDE DEF S
  <2> QED BY <1>4, <1>5, SetInduction
<1>7. iter[n - n + 1 .. n] = v[n - n + 1]
  BY <1>1, <1>6
<1> QED BY <1>1, <1>3, <1>7

\* The digits of the numbers up to n.
DigitsTo(f, n) == f = [i \in 0 .. n |-> IF i < 10 THEN <<i>> ELSE <<i % 10>> \o f[i \div 10]]

LEMMA Tenth ==
  ASSUME NEW n \in Nat, n >= 10
  PROVE  n \div 10 \in 0 .. n - 1 /\ n % 10 \in 0 .. 9 /\ n = 10 * (n \div 10) + (n % 10)
<1> DEFINE q == n \div 10
           r == n % 10
<1>1. r \in 0 .. 9
  OBVIOUS
<1>2. q \in Int /\ 10 * q =< n /\ n < 10 * q + 10
  OBVIOUS
<1>3. n = 10 * q + r
  OBVIOUS
<1> HIDE DEF q, r
<1>4. q \in 0 .. n - 1
  BY <1>2
<1> QED BY <1>1, <1>3, <1>4 DEF q, r

LEMMA DigitsToExist ==
  ASSUME NEW n \in Nat
  PROVE  \E f : DigitsTo(f, n)
<1> DEFINE S == {m \in Nat : \E f : DigitsTo(f, m)}
<1>1. 0 \in S
  <2> DEFINE f == [i \in 0 .. 0 |-> <<i>>]
  <2>1. f = [i \in 0 .. 0 |-> IF i < 10 THEN <<i>> ELSE <<i % 10>> \o f[i \div 10]]
    OBVIOUS
  <2>2. DigitsTo(f, 0)
    BY <2>1 DEF DigitsTo
  <2> HIDE DEF f
  <2> QED BY <2>2
<1>2. ASSUME NEW m \in Nat, m \in S PROVE m + 1 \in S
  <2>1. PICK f : DigitsTo(f, m)
    BY <1>2
  <2> DEFINE last == IF m + 1 < 10 THEN <<m + 1>> ELSE <<(m + 1) % 10>> \o f[(m + 1) \div 10]
             g == [i \in 0 .. m + 1 |-> IF i = m + 1 THEN last ELSE f[i]]
  <2>2. \A i \in 0 .. m : f[i] = IF i < 10 THEN <<i>> ELSE <<i % 10>> \o f[i \div 10]
    BY <2>1 DEF DigitsTo
  <2>3. g[m + 1] = last /\ \A i \in 0 .. m : g[i] = f[i]
    <3> HIDE DEF last
    <3> QED OBVIOUS
  <2>4. ASSUME NEW i \in 0 .. m + 1
        PROVE  g[i] = IF i < 10 THEN <<i>> ELSE <<i % 10>> \o g[i \div 10]
    <3>1. i >= 10 => i \div 10 \in 0 .. m
      BY Tenth
    <3>2. i >= 10 => g[i \div 10] = f[i \div 10]
      BY <2>3, <3>1
    <3>3. i = m + 1 \/ i \in 0 .. m
      OBVIOUS
    <3> HIDE DEF g
    <3> QED BY <2>2, <2>3, <3>2, <3>3
  <2>5. g = [i \in 0 .. m + 1 |-> g[i]]
    OBVIOUS
  <2> HIDE DEF g
  <2>6. g = [i \in 0 .. m + 1 |-> IF i < 10 THEN <<i>> ELSE <<i % 10>> \o g[i \div 10]]
    BY <2>4, <2>5
  <2>7. DigitsTo(g, m + 1)
    BY <2>6, Zenon DEF DigitsTo
  <2> QED BY <2>7
<1>3. Nat \subseteq S
  <2> HIDE DEF S
  <2> QED BY <1>1, <1>2, SetInduction
<1> QED BY <1>3

LEMMA DigitsToAgree ==
  ASSUME NEW m \in Nat, NEW n \in Nat, NEW f, NEW g, DigitsTo(f, m), DigitsTo(g, n),
         NEW i \in Nat, i =< m, i =< n
  PROVE  f[i] = g[i]
<1> SUFFICES ASSUME f[i] # g[i] PROVE FALSE
  OBVIOUS
<1> DEFINE T == {k \in Nat : k =< m /\ k =< n /\ f[k] # g[k]}
<1>1. PICK x \in T : \A y \in T : x =< y
  BY LeastNumber, i \in T
<1>2. /\ f[x] = IF x < 10 THEN <<x>> ELSE <<x % 10>> \o f[x \div 10]
      /\ g[x] = IF x < 10 THEN <<x>> ELSE <<x % 10>> \o g[x \div 10]
  <2>1. x \in 0 .. m /\ x \in 0 .. n
    OBVIOUS
  <2> QED BY <2>1 DEF DigitsTo
<1>3. x >= 10 => x \div 10 \in Nat /\ x \div 10 =< m /\ x \div 10 =< n /\ ~(x =< x \div 10)
  BY Tenth
<1>4. x >= 10 => f[x \div 10] = g[x \div 10]
  BY <1>1, <1>3
<1> QED BY <1>2, <1>4

LEMMA DigitsDefined ==
  ASSUME NEW n \in Nat
  PROVE  Event!Digits[n] = IF n < 10 THEN <<n>> ELSE <<n % 10>> \o Event!Digits[n \div 10]
<1> DEFINE to(m) == CHOOSE f : DigitsTo(f, m)
           D == [m \in Nat |-> to(m)[m]]
<1>1. \A m \in Nat : DigitsTo(to(m), m)
  BY DigitsToExist
<1> HIDE DEF to
<1>2. ASSUME NEW m \in Nat
      PROVE  D[m] = IF m < 10 THEN <<m>> ELSE <<m % 10>> \o D[m \div 10]
  <2>1. to(m)[m] = IF m < 10 THEN <<m>> ELSE <<m % 10>> \o to(m)[m \div 10]
    <3>1. m \in 0 .. m /\ DigitsTo(to(m), m)
      BY <1>1
    <3> QED BY <3>1 DEF DigitsTo
  <2>2. m >= 10 => m \div 10 \in Nat /\ m \div 10 =< m
    BY Tenth
  <2>3. m >= 10 => to(m)[m \div 10] = to(m \div 10)[m \div 10]
    BY <1>1, <2>2, DigitsToAgree
  <2> QED BY <2>1, <2>2, <2>3
<1>3. D = [m \in Nat |-> D[m]]
  OBVIOUS
<1> HIDE DEF D
<1>4. D = [m \in Nat |-> IF m < 10 THEN <<m>> ELSE <<m % 10>> \o D[m \div 10]]
  BY <1>2, <1>3
<1> DEFINE E == CHOOSE f : f = [m \in Nat |-> IF m < 10 THEN <<m>> ELSE <<m % 10>> \o f[m \div 10]]
<1>5. E = [m \in Nat |-> IF m < 10 THEN <<m>> ELSE <<m % 10>> \o E[m \div 10]]
  BY <1>4
<1>6. Event!Digits = E
  BY DEF Event!Digits
<1> HIDE DEF E
<1> QED BY <1>5, <1>6

\* The digits of a number, folded again.
LEMMA DigitsFold ==
  ASSUME NEW n \in Nat
  PROVE  Event!Digits[n] \in Seq(Nat) /\ \E v : Values(v, Event!Digits[n]) /\ v[1] = n
<1> DEFINE Good(m) == Event!Digits[m] \in Seq(Nat) /\ \E v : Values(v, Event!Digits[m]) /\ v[1] = m
           T == {m \in Nat : ~Good(m)}
<1> SUFFICES ASSUME T # {} PROVE FALSE
  OBVIOUS
<1>1. PICK x \in T : \A y \in T : x =< y
  <2>1. T \subseteq Nat
    OBVIOUS
  <2> HIDE DEF T
  <2> QED BY <2>1, LeastNumber
<1>2. x \in Nat /\ ~Good(x) /\ \A y \in Nat : y < x => Good(y)
  BY <1>1
<1> HIDE DEF T
<1>3. CASE x < 10
  <2>1. Event!Digits[x] = <<x>>
    BY <1>2, <1>3, DigitsDefined
  <2> DEFINE v == [k \in 1 .. 2 |-> IF k = 1 THEN x ELSE 0]
  <2>2. v \in [1 .. 2 -> Nat] /\ v[2] = 0 /\ v[1] = x
    BY <1>2
  <2>3. <<x>> \in Seq(Nat) /\ Len(<<x>>) = 1 /\ <<x>>[1] = x
    BY <1>2
  <2> HIDE DEF v
  <2>4. Values(v, <<x>>)
    BY <1>2, <2>2, <2>3 DEF Values
  <2>5. Good(x)
    BY <2>1, <2>2, <2>3, <2>4
  <2> HIDE DEF Good
  <2> QED BY <1>2, <2>5
<1>4. CASE x >= 10
  <2> DEFINE q == x \div 10
             r == x % 10
             s == Event!Digits[q]
  <2>1. q \in Nat /\ q < x /\ r \in Nat /\ x = 10 * q + r
    BY <1>2, <1>4, Tenth
  <2>2. Event!Digits[x] = <<r>> \o s
    <3>1. Event!Digits[x] = IF x < 10 THEN <<x>> ELSE <<x % 10>> \o Event!Digits[x \div 10]
      BY <1>2, DigitsDefined
    <3>2. ~(x < 10)
      BY <1>2, <1>4
    <3> QED BY <3>1, <3>2, Zenon
  <2> HIDE DEF q, r
  <2>3. s \in Seq(Nat) /\ \E v : Values(v, s) /\ v[1] = q
    BY <1>2, <2>1
  <2>4. PICK v : Values(v, s) /\ v[1] = q
    BY <2>3
  <2> HIDE DEF s
  <2> DEFINE t == <<r>> \o s
             w == [k \in 1 .. Len(s) + 2 |-> IF k = 1 THEN x ELSE v[k - 1]]
  <2>5. t \in Seq(Nat) /\ Len(t) = Len(s) + 1 /\ t[1] = r /\ Len(s) \in Nat
        /\ \A k \in 2 .. Len(s) + 1 : t[k] = s[k - 1]
    BY <2>1, <2>3
  <2>6. v \in [1 .. Len(s) + 1 -> Nat] /\ v[Len(s) + 1] = 0
        /\ \A k \in 1 .. Len(s) : v[k] = 10 * v[k + 1] + s[k]
    BY <2>4 DEF Values
  <2>7. w \in [1 .. Len(s) + 2 -> Nat] /\ w[1] = x /\ w[Len(s) + 2] = 0
        /\ \A k \in 2 .. Len(s) + 2 : w[k] = v[k - 1]
    <3>1. \A k \in 1 .. Len(s) + 2 : k # 1 => k - 1 \in 1 .. Len(s) + 1
      BY <2>5
    <3> QED BY <1>2, <2>5, <2>6, <3>1
  <2> HIDE DEF t, w
  <2>8. ASSUME NEW k \in 1 .. Len(t) PROVE w[k] = 10 * w[k + 1] + t[k]
    <3>1. CASE k = 1
      BY <2>1, <2>4, <2>5, <2>7, <3>1
    <3>2. CASE k # 1
      <4>1. k - 1 \in 1 .. Len(s) /\ k \in 2 .. Len(s) + 1 /\ k + 1 \in 2 .. Len(s) + 2
            /\ (k - 1) + 1 = k /\ (k + 1) - 1 = k
        BY <2>5, <3>2
      <4>2. w[k] = v[k - 1] /\ w[k + 1] = v[k] /\ t[k] = s[k - 1] /\ v[k - 1] = 10 * v[k] + s[k - 1]
        <5>1. v[k - 1] = 10 * v[(k - 1) + 1] + s[k - 1]
          BY <2>6, <4>1
        <5> QED BY <2>5, <2>7, <4>1, <5>1
      <4> QED BY <4>2
    <3> QED BY <3>1, <3>2
  <2>9. Values(w, t)
    <3>1. Len(t) + 1 = Len(s) + 2
      BY <2>5
    <3> QED BY <2>7, <2>8, <3>1 DEF Values
  <2>10. Good(x)
    BY <2>2, <2>5, <2>7, <2>9 DEF t
  <2> HIDE DEF Good
  <2> QED BY <1>2, <2>10
<1> QED BY <1>2, <1>3, <1>4

\* stoll reads what to_string writes.
LEMMA NumberReadBack ==
  ASSUME NEW n \in Int
  PROVE  Event!stoll(Event!to_string(n)) = n
<1> DEFINE m == IF n < 0 THEN -n ELSE n
           digits == Event!Digits[m]
           value == Event!FoldRight(LAMBDA d, k : 10 * k + d, digits, 0)
<1>1. m \in Nat
  OBVIOUS
<1>2. digits \in Seq(Nat) /\ \E v : Values(v, digits) /\ v[1] = m
  <2> HIDE DEF m
  <2> QED BY <1>1, DigitsFold
<1>3. value = m
  <2> HIDE DEF digits, m
  <2> QED BY <1>2, FoldIsValue
<1>4. Event!stoll(Event!to_string(n)) = IF n < 0 THEN -value ELSE value
  BY DEF Event!stoll, Event!to_string
<1> HIDE DEF value
<1> QED BY <1>3, <1>4

-------------------------------------------------------------------------------
\* The event

\* Members and parameters that are in the same order under different names.
SameOrder(members, components) ==
  /\ DOMAIN components = DOMAIN members
  /\ \A i, j \in DOMAIN members :
       members[i] = members[j] \/ components[i] = components[j] => i = j
  /\ \A i \in DOMAIN members : components[i] = Event!Camel(members[i])

LEMMA Spelling ==
  /\ Event!Camel("egress_id") = "egressId" /\ Event!Camel("room_id") = "roomId"
  /\ Event!Camel("room_name") = "roomName" /\ Event!Camel("ingress_id") = "ingressId"
  /\ Event!Camel("sid") = "sid" /\ Event!Camel("name") = "name"
  /\ Event!Camel("metadata") = "metadata" /\ Event!Camel("identity") = "identity"
  BY DEF Event!Camel

\* Java has the members of a part in the order of C++, under names of its own.
LEMMA InOrder ==
  ASSUME NEW p \in Event!Parts
  PROVE  SameOrder(Event!Members[p], Event!Components[p])
<1> DEFINE M == Event!Members[p]
           C == Event!Components[p]
<1>1. CASE p = "room"
  <2>1. M = <<"sid", "name", "metadata">>
    BY <1>1 DEF Event!Members, Event!Parts
  <2>2. C = <<"sid", "name", "metadata">>
    BY <1>1 DEF Event!Components, Event!Parts
  <2> HIDE DEF M, C
  <2>3. DOMAIN M = 1 .. 3 /\ DOMAIN C = 1 .. 3
    BY <2>1, <2>2
  <2>4. M[1] = "sid" /\ M[2] = "name" /\ M[3] = "metadata"
    BY <2>1
  <2>5. C[1] = "sid" /\ C[2] = "name" /\ C[3] = "metadata"
    BY <2>2
  <2>6. \A i \in 1 .. 3 : i = 1 \/ i = 2 \/ i = 3
    OBVIOUS
  <2>7. SameOrder(M, C)
    BY <2>3, <2>4, <2>5, <2>6, Spelling DEF SameOrder
  <2> QED BY <2>7 DEF M, C
<1>2. CASE p = "participant"
  <2>1. M = <<"sid", "identity", "name", "metadata">>
    BY <1>2 DEF Event!Members, Event!Parts
  <2>2. C = <<"sid", "identity", "name", "metadata">>
    BY <1>2 DEF Event!Components, Event!Parts
  <2> HIDE DEF M, C
  <2>3. DOMAIN M = 1 .. 4 /\ DOMAIN C = 1 .. 4
    BY <2>1, <2>2
  <2>4. M[1] = "sid" /\ M[2] = "identity" /\ M[3] = "name" /\ M[4] = "metadata"
    BY <2>1
  <2>5. C[1] = "sid" /\ C[2] = "identity" /\ C[3] = "name" /\ C[4] = "metadata"
    BY <2>2
  <2>6. \A i \in 1 .. 4 : i = 1 \/ i = 2 \/ i = 3 \/ i = 4
    OBVIOUS
  <2>7. SameOrder(M, C)
    BY <2>3, <2>4, <2>5, <2>6, Spelling DEF SameOrder
  <2> QED BY <2>7 DEF M, C
<1>3. CASE p = "track"
  <2>1. M = <<"sid", "name">>
    BY <1>3 DEF Event!Members, Event!Parts
  <2>2. C = <<"sid", "name">>
    BY <1>3 DEF Event!Components, Event!Parts
  <2> HIDE DEF M, C
  <2>3. DOMAIN M = 1 .. 2 /\ DOMAIN C = 1 .. 2
    BY <2>1, <2>2
  <2>4. M[1] = "sid" /\ M[2] = "name"
    BY <2>1
  <2>5. C[1] = "sid" /\ C[2] = "name"
    BY <2>2
  <2>6. \A i \in 1 .. 2 : i = 1 \/ i = 2
    OBVIOUS
  <2>7. SameOrder(M, C)
    BY <2>3, <2>4, <2>5, <2>6, Spelling DEF SameOrder
  <2> QED BY <2>7 DEF M, C
<1>4. CASE p = "egress"
  <2>1. M = <<"egress_id", "room_id", "room_name">>
    BY <1>4 DEF Event!Members, Event!Parts
  <2>2. C = <<"egressId", "roomId", "roomName">>
    BY <1>4 DEF Event!Components, Event!Parts
  <2> HIDE DEF M, C
  <2>3. DOMAIN M = 1 .. 3 /\ DOMAIN C = 1 .. 3
    BY <2>1, <2>2
  <2>4. M[1] = "egress_id" /\ M[2] = "room_id" /\ M[3] = "room_name"
    BY <2>1
  <2>5. C[1] = "egressId" /\ C[2] = "roomId" /\ C[3] = "roomName"
    BY <2>2
  <2>6. \A i \in 1 .. 3 : i = 1 \/ i = 2 \/ i = 3
    OBVIOUS
  <2>7. SameOrder(M, C)
    BY <2>3, <2>4, <2>5, <2>6, Spelling DEF SameOrder
  <2> QED BY <2>7 DEF M, C
<1>5. CASE p = "ingress"
  <2>1. M = <<"ingress_id", "name", "room_name">>
    BY <1>5 DEF Event!Members, Event!Parts
  <2>2. C = <<"ingressId", "name", "roomName">>
    BY <1>5 DEF Event!Components, Event!Parts
  <2> HIDE DEF M, C
  <2>3. DOMAIN M = 1 .. 3 /\ DOMAIN C = 1 .. 3
    BY <2>1, <2>2
  <2>4. M[1] = "ingress_id" /\ M[2] = "name" /\ M[3] = "room_name"
    BY <2>1
  <2>5. C[1] = "ingressId" /\ C[2] = "name" /\ C[3] = "roomName"
    BY <2>2
  <2>6. \A i \in 1 .. 3 : i = 1 \/ i = 2 \/ i = 3
    OBVIOUS
  <2>7. SameOrder(M, C)
    BY <2>3, <2>4, <2>5, <2>6, Spelling DEF SameOrder
  <2> QED BY <2>7 DEF M, C
<1> QED BY <1>1, <1>2, <1>3, <1>4, <1>5 DEF Event!Parts

\* The event as C++ and JNI build it, by place, and as the others have it, by name.
ByPlace == [p \in DOMAIN event_body.set |->
              [i \in DOMAIN Event!Members[p] |-> Event!Parsed(p, Event!Members[p][i])]]
Named == [p \in DOMAIN event_body.set |->
            [m \in Event!Range(Event!Members[p]) |-> Event!Parsed(p, m)]]

\* What the event is at each stage; on its way through the C ABI its time is a text.
EventInv ==
  /\ event_body.created_at \in Int /\ DOMAIN event_body.set \subseteq Event!Parts
  /\ event_stage \in {"verified", "received", "result", "delivered", "java"}
  /\ event_stage = "received" =>
       event = [created_at |-> event_body.created_at, raw_body |-> Raw, parts |-> ByPlace]
  /\ event_stage = "result" =>
       event = [created_at |-> Event!to_string(event_body.created_at), raw_body |-> Raw, parts |-> Named]
  /\ event_stage = "delivered" =>
       event = [created_at |-> event_body.created_at, raw_body |-> Raw, parts |-> Named]
  /\ event_stage = "java" =>
       event = [created_at |-> event_body.created_at, raw_body |-> Raw, parts |-> ByPlace]

LEMMA EventInit == Event!Init => EventInv
<1> SUFFICES ASSUME Event!Init PROVE EventInv
  OBVIOUS
<1>1. PICK present \in SUBSET Event!Parts, p \in Event!Parts, t \in EventTimes :
        \E members \in SUBSET Event!Range(Event!Members[p]) :
          event_body = [set |-> [q \in present |-> IF q = p THEN members ELSE Event!Range(Event!Members[q])],
                        created_at |-> t]
  BY DEF Event!Init
<1>2. PICK members : event_body = [set |-> [q \in present |-> IF q = p THEN members ELSE Event!Range(Event!Members[q])],
                        created_at |-> t]
  BY <1>1
<1>3. event_body.created_at = t /\ DOMAIN event_body.set = present
  BY <1>2
<1>4. t \in Int
  BY EventAssumption DEF Event!TimesFit
<1>5. event_stage = "verified"
  BY DEF Event!Init
<1> QED BY <1>3, <1>4, <1>5 DEF EventInv

\* The member is named by the place it has.
LEMMA NamedByPlace ==
  ASSUME NEW p \in Event!Parts, NEW values,
         \A i \in DOMAIN Event!Members[p] : values[i] = Event!Parsed(p, Event!Members[p][i])
  PROVE  Event!Named(p, values) = [m \in Event!Range(Event!Members[p]) |-> Event!Parsed(p, m)]
<1> DEFINE M == Event!Members[p]
<1>1. ASSUME NEW m \in Event!Range(M)
      PROVE  values[CHOOSE i \in DOMAIN M : M[i] = m] = Event!Parsed(p, m)
  <2>1. \E i \in DOMAIN M : M[i] = m
    BY DEF Event!Range
  <2> DEFINE j == CHOOSE i \in DOMAIN M : M[i] = m
  <2>2. j \in DOMAIN M /\ M[j] = m
    BY <2>1
  <2> HIDE DEF j
  <2>3. values[j] = Event!Parsed(p, M[j])
    BY <2>2
  <2>4. values[j] = Event!Parsed(p, m)
    BY <2>2, <2>3
  <2> QED BY <2>4 DEF j
<1> QED BY <1>1 DEF Event!Named

LEMMA ResultInv ==
  ASSUME EventInv, Event!Result
  PROVE  EventInv'
<1>1. /\ event_stage = "received" /\ event_stage' = "result" /\ event_body' = event_body
      /\ event' = [created_at |-> Event!Time(event.created_at), raw_body |-> event.raw_body,
                   parts |-> [p \in DOMAIN event.parts |-> Event!Named(p, event.parts[p])]]
  BY DEF Event!Result, Event!Goto
<1>2. event = [created_at |-> event_body.created_at, raw_body |-> Raw, parts |-> ByPlace]
  BY <1>1 DEF EventInv
<1>3. event.created_at = event_body.created_at /\ event.raw_body = Raw /\ event.parts = ByPlace
  BY <1>2
<1>4. DOMAIN ByPlace = DOMAIN event_body.set
  BY DEF ByPlace
<1>5. ASSUME NEW p \in DOMAIN event_body.set
      PROVE  Event!Named(p, ByPlace[p]) = [m \in Event!Range(Event!Members[p]) |-> Event!Parsed(p, m)]
  <2>1. p \in Event!Parts
    BY DEF EventInv
  <2>2. \A i \in DOMAIN Event!Members[p] : ByPlace[p][i] = Event!Parsed(p, Event!Members[p][i])
    BY DEF ByPlace
  <2> QED BY <2>1, <2>2, NamedByPlace
<1>6. [p \in DOMAIN ByPlace |-> Event!Named(p, ByPlace[p])] = Named
  BY <1>4, <1>5 DEF Named
<1>7. event' = [created_at |-> Event!to_string(event_body.created_at), raw_body |-> Raw, parts |-> Named]
  BY <1>1, <1>3, <1>6 DEF Event!Time
<1>8. Named' = Named
  BY <1>1 DEF Named, Event!Parsed
<1> QED BY <1>1, <1>7, <1>8 DEF EventInv

LEMMA RecordInv ==
  ASSUME EventInv, Event!Record
  PROVE  EventInv'
<1>1. /\ event_stage = "result" /\ event_stage' = "java" /\ event_body' = event_body
      /\ event' = [created_at |-> Event!stoll(event.created_at), raw_body |-> event.raw_body,
                   parts |-> [p \in DOMAIN event.parts |->
                                [i \in DOMAIN Event!Members[p] |-> event.parts[p][Event!Members[p][i]]]]]
  BY DEF Event!Record, Event!Goto
<1>2. event = [created_at |-> Event!to_string(event_body.created_at), raw_body |-> Raw, parts |-> Named]
  BY <1>1 DEF EventInv
<1>3. /\ event.created_at = Event!to_string(event_body.created_at) /\ event.raw_body = Raw
      /\ event.parts = Named
  BY <1>2
<1>4. Event!stoll(event.created_at) = event_body.created_at
  BY <1>3, NumberReadBack DEF EventInv
<1>5. DOMAIN Named = DOMAIN event_body.set
  BY DEF Named
<1>6. ASSUME NEW p \in DOMAIN event_body.set, NEW i \in DOMAIN Event!Members[p]
      PROVE  Named[p][Event!Members[p][i]] = Event!Parsed(p, Event!Members[p][i])
  <2>1. Event!Members[p][i] \in Event!Range(Event!Members[p])
    BY DEF Event!Range
  <2> QED BY <2>1 DEF Named
<1>7. [p \in DOMAIN Named |-> [i \in DOMAIN Event!Members[p] |-> Named[p][Event!Members[p][i]]]] = ByPlace
  BY <1>5, <1>6 DEF ByPlace
<1>8. event' = [created_at |-> event_body.created_at, raw_body |-> Raw, parts |-> ByPlace]
  BY <1>1, <1>3, <1>4, <1>7
<1>9. ByPlace' = ByPlace
  BY <1>1 DEF ByPlace, Event!Parsed
<1> QED BY <1>1, <1>8, <1>9 DEF EventInv

LEMMA OtherEventInv ==
  ASSUME EventInv, Event!ReceiveAt \/ Event!ByName \/ UNCHANGED event_vars
  PROVE  EventInv'
<1>1. event_body' = event_body
  BY DEF Event!ReceiveAt, Event!ByName, Event!Goto, event_vars
<1>2. ByPlace' = ByPlace /\ Named' = Named
  BY <1>1 DEF ByPlace, Named, Event!Parsed
<1>3. CASE Event!ReceiveAt
  <2>1. event_stage' = "received"
    BY <1>3 DEF Event!ReceiveAt, Event!Goto
  <2>2. event' = [created_at |-> event_body.created_at, raw_body |-> Raw, parts |-> ByPlace]
    BY <1>3 DEF Event!ReceiveAt, ByPlace
  <2> QED BY <1>1, <1>2, <2>1, <2>2 DEF EventInv
<1>4. CASE Event!ByName
  <2>1. event_stage = "result" /\ event_stage' = "delivered"
    BY <1>4 DEF Event!ByName, Event!Goto
  <2>2. event = [created_at |-> Event!to_string(event_body.created_at), raw_body |-> Raw, parts |-> Named]
    BY <2>1 DEF EventInv
  <2>3. event' = [event EXCEPT !.created_at = Event!stoll(event.created_at)]
    BY <1>4 DEF Event!ByName
  <2>4. event' = [created_at |-> Event!stoll(Event!to_string(event_body.created_at)), raw_body |-> Raw, parts |-> Named]
    BY <2>2, <2>3
  <2>5. Event!stoll(Event!to_string(event_body.created_at)) = event_body.created_at
    BY NumberReadBack DEF EventInv
  <2> QED BY <1>1, <1>2, <2>1, <2>4, <2>5 DEF EventInv
<1>5. CASE UNCHANGED event_vars
  BY <1>1, <1>2, <1>5 DEF event_vars, EventInv
<1> QED BY <1>3, <1>4, <1>5

LEMMA EventNext == EventInv /\ [Event!Next]_event_vars => EventInv'
  BY ResultInv, RecordInv, OtherEventInv DEF Event!Next, Event!Delivered, Event!vars, event_vars

\* What the handler finds.
LEMMA EventEnds == EventInv => EventDelivered
<1> SUFFICES ASSUME EventInv, event_stage \in {"delivered", "java"} PROVE EventDelivered
  BY DEF EventDelivered, Event!EventDelivered
<1>1. event.created_at = event_body.created_at /\ event.raw_body = Raw
      /\ event.parts = IF event_stage = "java" THEN ByPlace ELSE Named
  BY DEF EventInv
<1>2. DOMAIN event.parts = DOMAIN event_body.set
  BY <1>1 DEF ByPlace, Named
<1>3. ASSUME NEW p \in DOMAIN event_body.set, NEW m \in Event!Range(Event!Members[p])
      PROVE  Event!Told(p, m) = Event!Parsed(p, m)
  <2>1. CASE event_stage = "delivered"
    BY <1>1, <2>1 DEF Event!Told, Named
  <2>2. CASE event_stage = "java"
    <3> DEFINE C == Event!Components[p]
               M == Event!Members[p]
               k == CHOOSE i \in DOMAIN C : C[i] = Event!Camel(m)
    <3>1. PICK j \in DOMAIN M : m = M[j]
      BY DEF Event!Range
    <3>2. SameOrder(M, C)
      BY InOrder DEF EventInv
    <3> HIDE DEF C, M
    <3>3. j \in DOMAIN C /\ C[j] = Event!Camel(m) /\ \A i \in DOMAIN C : C[i] = Event!Camel(m) => i = j
      BY <3>1, <3>2 DEF SameOrder
    <3>4. k = j
      BY <3>3
    <3> HIDE DEF k
    <3>5. Event!Told(p, m) = ByPlace[p][k]
      BY <1>1, <2>2 DEF Event!Told, k, C
    <3>6. ByPlace[p][j] = Event!Parsed(p, m)
      BY <3>1 DEF ByPlace, M
    <3> QED BY <3>4, <3>5, <3>6
  <2> QED BY <2>1, <2>2
<1> QED BY <1>1, <1>2, <1>3 DEF EventDelivered, Event!EventDelivered, Event!Parsed

\* For every body and every time a handler is told what the server wrote, by the
\* events of every binding: what ReceiveAt parses, what the C ABI writes as JSON and
\* what JNI builds by place.
THEOREM HandlerIsTold == Event!Spec => []EventDelivered
  BY EventInit, EventNext, EventEnds, PTL DEF Event!Spec, Event!vars, event_vars
================================================================================
