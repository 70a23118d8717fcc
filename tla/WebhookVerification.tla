------------------------- MODULE WebhookVerification -------------------------
(***************************************************************************)
(* WebhookReceiver::Receive (src/webhook_receiver.cpp) by threads whose    *)
(* key provider may take its time and whose secrets are rotated meanwhile. *)
(* WebhookReceiver has its outcome as a choice; here is what decides it.   *)
(*                                                                         *)
(* Receive reads the clock, then ReceiveAt takes the token apart, asks the *)
(* key provider for the secret of the issuer, and checks signature, time   *)
(* claims and checksum, in this order, before it reads the body.           *)
(*                                                                         *)
(* Times are seconds; MaxTime is the largest std::int64_t.                 *)
(***************************************************************************)
EXTENDS Integers

CONSTANTS Calls, Secrets, MaxTime,
          None, Invalid,
          Leeway,    \* token_leeway
          Times      \* the times the clock and the claims may have

ASSUME CallAssumption == None \notin Calls
ASSUME SecretAssumption == None \notin Secrets
ASSUME TimeAssumption ==
  /\ MaxTime \in Nat /\ Leeway \in 0 .. MaxTime
  /\ Times \subseteq (-MaxTime) .. MaxTime /\ {None, Invalid} \cap Times = {} /\ None # Invalid

VARIABLES clock,      \* std::chrono::system_clock, in seconds
          secret,     \* what the key provider knows for the issuer, None for nothing
          pc,         \* where each call is
          request,    \* the request it verifies
          now,        \* the time Receive read
          found,      \* the secret the key provider returned
          outcome,    \* the event, or the code of the Error
          held        \* history: the secrets the provider had during the call

vars == <<clock, secret, pc, request, now, found, outcome, held>>

\* A claim is a time, None when it is absent, or Invalid when
\* JsonIntegerField throws.  signed is the secret the signature was made with,
\* None when it is no signature of this token.
Claims == Times \cup {None, Invalid}
Requests == [wellformed : BOOLEAN, signed : Secrets \cup {None}, exp : Claims, nbf : Claims,
             checksum : BOOLEAN, json : BOOLEAN]

\* The clock of a machine that is set has room for the leeway.
ClockTimes == {t \in Times : t >= 0 /\ t <= MaxTime - Leeway}

Init == /\ clock \in ClockTimes
        /\ secret \in Secrets \cup {None}
        /\ pc = [c \in Calls |-> "idle"]
        /\ request = [c \in Calls |-> None]
        /\ now = [c \in Calls |-> None]
        /\ found = [c \in Calls |-> None]
        /\ outcome = [c \in Calls |-> "none"]
        /\ held = [c \in Calls |-> {}]

-------------------------------------------------------------------------------
Running(c) == pc[c] \in {"lookup", "check"}

\* The clock runs, or is set.
Tick == /\ \E t \in ClockTimes : t # clock /\ clock' = t
        /\ UNCHANGED <<secret, pc, request, now, found, outcome, held>>

\* The application rotates the secret its key provider hands out.
Rotate == /\ \E s \in Secrets \cup {None} : s # secret /\ secret' = s
          /\ held' = [c \in Calls |-> IF Running(c) THEN held[c] \cup {secret'} ELSE held[c]]
          /\ UNCHANGED <<clock, pc, request, now, found, outcome>>

Goto(c, from, to) == pc[c] = from /\ pc' = [pc EXCEPT ![c] = to]
Ends(c, how) == outcome' = [outcome EXCEPT ![c] = how]

\* No bearer token, no three parts, no base64url, no HS256, no issuer.
Receive(c, r) ==
  /\ Goto(c, "idle", IF r.wellformed THEN "lookup" ELSE "ended")
  /\ request' = [request EXCEPT ![c] = r]
  /\ now' = [now EXCEPT ![c] = clock]
  /\ held' = [held EXCEPT ![c] = {secret}]
  /\ IF r.wellformed THEN UNCHANGED outcome ELSE Ends(c, "authentication")
  /\ UNCHANGED <<clock, secret, found>>

\* The key provider returns what it knows, an empty secret for nothing.
LookUp(c) ==
  /\ Goto(c, "lookup", IF secret = None THEN "ended" ELSE "check")
  /\ found' = [found EXCEPT ![c] = secret]
  /\ IF secret = None THEN Ends(c, "authentication") ELSE UNCHANGED outcome
  /\ UNCHANGED <<clock, secret, request, now, held>>

\* Whether the expiry refuses the token, in what ways the build may decide: a
\* sum beyond MaxTime overflows and may compare either way.
\* Mutant: the leeway is taken off.
ExpiredStrict(c, exp) == {IF exp \in Times THEN now[c] > exp - Leeway ELSE exp = Invalid}

Expired(c, exp) == IF exp \notin Times THEN {exp = Invalid}
                   ELSE IF exp + Leeway > MaxTime THEN BOOLEAN ELSE {now[c] > exp + Leeway}

Early(c, nbf) == IF nbf \in Times THEN now[c] + Leeway < nbf ELSE nbf = Invalid

\* What ReceiveAt makes of a token whose signature is right.
\* Mutant: the body is parsed before the checksum is compared.
JudgeBodyEarly(r, refused) ==
  IF refused THEN "authentication"
  ELSE IF ~r.json THEN "protocol"
  ELSE IF ~r.checksum THEN "authentication" ELSE "event"

Judge(r, refused) ==
  IF refused \/ ~r.checksum THEN "authentication"
  ELSE IF ~r.json THEN "protocol" ELSE "event"

Matches(c) == request[c].signed = found[c]

Check(c) ==
  /\ Goto(c, "check", "ended")
  /\ IF Matches(c)
     THEN \E expired \in Expired(c, request[c].exp) :
            Ends(c, Judge(request[c], expired \/ Early(c, request[c].nbf)))
     ELSE Ends(c, "authentication")
  /\ UNCHANGED <<clock, secret, request, now, found, held>>

Verify(c) == (\E r \in Requests : Receive(c, r)) \/ LookUp(c) \/ Check(c)

AllEnded == (\A c \in Calls : pc[c] = "ended") /\ UNCHANGED vars

Next == Tick \/ Rotate \/ (\E c \in Calls : Verify(c)) \/ AllEnded

Spec == Init /\ [][Next]_vars

-------------------------------------------------------------------------------
TypeOK == /\ clock \in ClockTimes
          /\ secret \in Secrets \cup {None}
          /\ pc \in [Calls -> {"idle", "lookup", "check", "ended"}]
          /\ request \in [Calls -> Requests \cup {None}]
          /\ now \in [Calls -> ClockTimes \cup {None}]
          /\ found \in [Calls -> Secrets \cup {None}]
          /\ outcome \in [Calls -> {"none", "authentication", "protocol", "event"}]
          /\ held \in [Calls -> SUBSET (Secrets \cup {None})]

\* The token was valid when the request came in, give or take the leeway.
InTime(c) == /\ request[c].exp \in Times => now[c] <= request[c].exp + Leeway
             /\ request[c].nbf \in Times => now[c] >= request[c].nbf - Leeway
             /\ Invalid \notin {request[c].exp, request[c].nbf}

\* A secret the application held during this very call vouches for the body, at
\* the time the request came in.
Vouched(c) == /\ request[c].signed \in held[c] \ {None}
              /\ request[c].checksum
              /\ InTime(c)

\* "never process the unverified body": a body is read, be it to fail with a
\* protocol error, only when it is vouched for.  A rotated secret vouches for
\* nothing that comes in afterwards.
OnlyVouchedBodyRead == \A c \in Calls : outcome[c] \in {"event", "protocol"} => Vouched(c)

\* Signed with the one secret the provider had during the call, in time, with
\* its own body, and no claim so large that the leeway overflows.
Genuine(c) == /\ request[c].wellformed /\ held[c] = {request[c].signed} /\ request[c].signed # None
              /\ InTime(c) /\ request[c].checksum /\ request[c].json
              /\ request[c].exp \in Times => request[c].exp <= MaxTime - Leeway

\* A genuine request is not refused.
GenuineAccepted == \A c \in Calls : pc[c] = "ended" /\ Genuine(c) => outcome[c] = "event"
================================================================================
