---------------------------- MODULE WebhookEvents ----------------------------
(***************************************************************************)
(* What a handler of webhooks is told.  WebhookReceiver::Receive makes a   *)
(* WebhookEvent of a body it has verified, Receive of the C ABI an object  *)
(* of it, and the binding an event of its own, which JNI builds by place   *)
(* and the others by name.                                                 *)
(*                                                                         *)
(* A text is named by where the server wrote it: <<part, member>>, or      *)
(* Empty.  The whole body, with what only newer servers write, is Raw.     *)
(***************************************************************************)
EXTENDS Integers, SequencesExt

CONSTANTS Times,     \* when an event may have been created
          MaxExact,  \* 2^53, beyond which a double holds even numbers only
          Empty, Raw

TimesFit == Times \subseteq Int /\ MaxExact \in Nat

VARIABLES body,   \* what the server wrote: the members it set, by part, and the time
          stage,  \* where the event is
          event   \* what it is there

vars == <<body, stage, event>>

Parts == {"room", "participant", "track", "egress", "ingress"}

\* The members of WebhookRoom and the others, in their order.
Members == [p \in Parts |->
  CASE p = "room" -> <<"sid", "name", "metadata">>
    [] p = "participant" -> <<"sid", "identity", "name", "metadata">>
    [] p = "track" -> <<"sid", "name">>
    [] p = "egress" -> <<"egress_id", "room_id", "room_name">>
    [] p = "ingress" -> <<"ingress_id", "name", "room_name">>]

\* The parameters of the Java records, in theirs.
Components == [p \in Parts |->
  CASE p = "room" -> <<"sid", "name", "metadata">>
    [] p = "participant" -> <<"sid", "identity", "name", "metadata">>
    [] p = "track" -> <<"sid", "name">>
    [] p = "egress" -> <<"egressId", "roomId", "roomName">>
    [] p = "ingress" -> <<"ingressId", "name", "roomName">>]

\* A body has any of the parts, and one of them any of its members.
Init == /\ \E present \in SUBSET Parts, p \in Parts, t \in Times :
             \E members \in SUBSET Range(Members[p]) :
               body = [set |-> [q \in present |-> IF q = p THEN members ELSE Range(Members[q])],
                       created_at |-> t]
        /\ stage = "verified" /\ event = <<>>

\* A number as JSON texts have it: the sign and the decimal digits, the lowest
\* first.
Digits[n \in Nat] == IF n < 10 THEN <<n>> ELSE <<n % 10>> \o Digits[n \div 10]
to_string(n) == [negative |-> n < 0, digits |-> Digits[IF n < 0 THEN -n ELSE n]]
stoll(text) == LET value == FoldRight(LAMBDA d, n : 10 * n + d, text.digits, 0)
               IN IF text.negative THEN -value ELSE value

Goto(from, to) == stage = from /\ stage' = to /\ UNCHANGED body

-------------------------------------------------------------------------------
\* ReceiveAt reads a member that is not set as empty, and fills the members in
\* by their place.
Parsed(p, m) == IF m \in body.set[p] THEN <<p, m>> ELSE Empty

ReceiveAt ==
  /\ Goto("verified", "received")
  /\ event' = [created_at |-> body.created_at, raw_body |-> Raw,
               parts |-> [p \in DOMAIN body.set |->
                            [i \in DOMAIN Members[p] |-> Parsed(p, Members[p][i])]]]

\* Receive of the C ABI names the members, and writes the time as a text.
\* Mutant: as a number, which JSON reads as a double.
TimeAsNumber(n) == to_string(IF n \in -MaxExact .. MaxExact THEN n ELSE n - (n % 2))

Time(n) == to_string(n)

Named(p, values) == [m \in Range(Members[p]) |->
                       values[CHOOSE i \in DOMAIN Members[p] : Members[p][i] = m]]

Result ==
  /\ Goto("received", "result")
  /\ event' = [created_at |-> Time(event.created_at), raw_body |-> event.raw_body,
               parts |-> [p \in DOMAIN event.parts |-> Named(p, event.parts[p])]]

\* The bindings other than Java take the members by their names.
ByName ==
  /\ Goto("result", "delivered")
  /\ event' = [event EXCEPT !.created_at = stoll(@)]

\* JNI puts them in their places again, which are those of the Java records.
Record ==
  /\ Goto("result", "java")
  /\ event' = [created_at |-> stoll(event.created_at), raw_body |-> event.raw_body,
               parts |-> [p \in DOMAIN event.parts |->
                            [i \in DOMAIN Members[p] |-> event.parts[p][Members[p][i]]]]]

Delivered == stage \in {"delivered", "java"} /\ UNCHANGED vars

Next == ReceiveAt \/ Result \/ ByName \/ Record \/ Delivered

Spec == Init /\ [][Next]_vars

-------------------------------------------------------------------------------
\* The names of Java for the members.
Camel(m) == CASE m = "egress_id" -> "egressId" [] m = "room_id" -> "roomId"
              [] m = "room_name" -> "roomName" [] m = "ingress_id" -> "ingressId"
              [] OTHER -> m

\* What the handler finds in a member.
Told(p, m) == IF stage = "delivered" THEN event.parts[p][m]
              ELSE event.parts[p][CHOOSE i \in DOMAIN Components[p] : Components[p][i] = Camel(m)]

\* A handler is told what the server wrote: the parts that are there and no
\* others, every member under its own name, the exact time and the whole body.
EventDelivered == stage \in {"delivered", "java"} =>
  /\ event.created_at = body.created_at
  /\ event.raw_body = Raw
  /\ DOMAIN event.parts = DOMAIN body.set
  /\ \A p \in DOMAIN body.set : \A m \in Range(Members[p]) :
       Told(p, m) = IF m \in body.set[p] THEN <<p, m>> ELSE Empty
===============================================================================
