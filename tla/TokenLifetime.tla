----------------------------- MODULE TokenLifetime -----------------------------
(***************************************************************************)
(* The times of an access token: the builder of a host takes a lifetime    *)
(* and a time of signing, Sign of the C ABI (src/c_api.cpp) checks that    *)
(* the clock can hold their sum, and AccessToken::ToJwt (src/              *)
(* access_token.cpp) writes nbf and exp.  A C++ application calls the      *)
(* AccessToken itself, without the check.                                  *)
(*                                                                         *)
(* Times and lifetimes are asked in ticks of the clock.  The clock counts  *)
(* its ticks in the same integer, of at most MaxInteger, that seconds are  *)
(* counted in.                                                             *)
(***************************************************************************)
EXTENDS Integers

CONSTANTS MaxInteger, TicksPerSecond,
          Asked        \* the times and lifetimes an application may ask for

ClockFits == MaxInteger \in Nat /\ TicksPerSecond \in Nat \ {0} /\ Asked \subseteq Int

VARIABLES host, lifetime, now,   \* what the application asks for
          keys,                  \* it has a key and a secret
          phase, ttl, time,      \* what the AccessToken signs, in seconds and in ticks
          nbf, exp               \* what it wrote

vars == <<host, lifetime, now, keys, phase, ttl, time, nbf, exp>>

Hosts == {"cpp", "python", "rust", "zig", "dotnet", "php", "ruby", "java"}

Seconds(ticks) == ticks \div TicksPerSecond
Whole(ticks) == ticks % TicksPerSecond = 0

\* What the types of a host can say: only Python and Ruby have integers beyond
\* 64 bits, and only some take a lifetime with a fraction.
Expressible ==
  /\ host \notin {"python", "ruby"} => Seconds(lifetime) <= MaxInteger /\ Seconds(now) <= MaxInteger
  /\ host \notin {"python", "dotnet", "java"} => Whole(lifetime)
  /\ host = "cpp" => now <= MaxInteger

Init == /\ host \in Hosts /\ lifetime \in Asked /\ now \in Asked /\ keys \in BOOLEAN
        /\ Expressible
        /\ phase = "asked" /\ ttl = 0 /\ time = 0 /\ nbf = 0 /\ exp = 0

-------------------------------------------------------------------------------
\* The builders: each checks the sign of the seconds, two refuse a fraction and
\* Java drops it; Rust also refuses a time before the epoch.
Builds(h, accepted) ==
  /\ phase = "asked" /\ host = h
  /\ phase' = IF accepted THEN "native" ELSE "refused"
  /\ UNCHANGED <<host, lifetime, now, keys, ttl, time, nbf, exp>>

Positive == Seconds(lifetime) > 0

PythonToken == Builds("python", Whole(lifetime) /\ Positive)
DotNetToken == Builds("dotnet", Whole(lifetime) /\ Positive)
JavaToken   == Builds("java", Positive)
ZigToken    == Builds("zig", Positive)
PhpToken    == Builds("php", Positive)
RubyToken   == Builds("ruby", Positive)
RustToken   == Builds("rust", Positive /\ now >= 0)

-------------------------------------------------------------------------------
\* Sign

MaxSeconds == Seconds(MaxInteger)

\* Integer: the text of the number has to fit.
Readable(seconds) == seconds <= MaxInteger

\* Mutant: the sum is not looked at.
OutOfRangeAlone(valid_for, signed_at) ==
  signed_at < 0 \/ valid_for <= 0 \/ valid_for > MaxSeconds \/ signed_at > MaxSeconds

OutOfRange(valid_for, signed_at) ==
  signed_at < 0 \/ valid_for <= 0 \/ valid_for > MaxSeconds \/ signed_at > MaxSeconds - valid_for

Sign ==
  /\ phase = "native"
  /\ LET valid_for == Seconds(lifetime)
         signed_at == Seconds(now)
     IN IF ~Readable(valid_for) \/ ~Readable(signed_at) \/ OutOfRange(valid_for, signed_at)
        THEN phase' = "refused" /\ UNCHANGED <<ttl, time>>
        ELSE /\ phase' = "token"
             /\ ttl' = valid_for /\ time' = signed_at * TicksPerSecond
  /\ UNCHANGED <<host, lifetime, now, keys, nbf, exp>>

\* A C++ application sets the lifetime and gives a time_point.
SetValidFor ==
  /\ phase = "asked" /\ host = "cpp"
  /\ IF Seconds(lifetime) <= 0 THEN phase' = "refused" /\ UNCHANGED <<ttl, time>>
     ELSE phase' = "token" /\ ttl' = Seconds(lifetime) /\ time' = now
  /\ UNCHANGED <<host, lifetime, now, keys, nbf, exp>>

\* duration_cast rounds towards zero.
IssuedAt == IF time >= 0 THEN Seconds(time) ELSE -Seconds(-time)

\* A sum beyond the integer is undefined: on the machines at hand it wraps.
Sum(a, b) == IF a + b > MaxInteger THEN a + b - 2 * (MaxInteger + 1) ELSE a + b

ToJwt ==
  /\ phase = "token"
  /\ IF keys THEN /\ phase' = "signed"
                  /\ nbf' = IssuedAt /\ exp' = Sum(IssuedAt, ttl)
     ELSE phase' = "unauthenticated" /\ UNCHANGED <<nbf, exp>>
  /\ UNCHANGED <<host, lifetime, now, keys, ttl, time>>

Returned == phase \in {"refused", "unauthenticated", "signed"} /\ UNCHANGED vars

Next == \/ PythonToken \/ DotNetToken \/ JavaToken \/ ZigToken \/ PhpToken \/ RubyToken \/ RustToken
        \/ Sign \/ SetValidFor \/ ToJwt
        \/ Returned

Spec == Init /\ [][Next]_vars

-------------------------------------------------------------------------------
\* A token a binding gets is valid for the whole seconds it asked for, from the
\* second it named to one the clock can hold; and it is refused only a lifetime
\* or a time for which there is no such token.
LifetimeFits == host # "cpp" =>
  /\ phase = "signed" => /\ nbf = Seconds(now) /\ exp = nbf + Seconds(lifetime)
                         /\ 0 <= nbf /\ nbf < exp /\ exp <= MaxSeconds
  /\ phase = "refused" => \/ Seconds(now) < 0 \/ Seconds(lifetime) <= 0
                          \/ ~Whole(lifetime)
                          \/ Seconds(now) + Seconds(lifetime) > MaxSeconds
================================================================================
