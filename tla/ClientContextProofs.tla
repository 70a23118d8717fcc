------------------------- MODULE ClientContextProofs -------------------------
(***************************************************************************)
(* ClientContext for any number of calls and any URLs, and ServiceCalls    *)
(* above it for any rooms, nonces and dispatches.                          *)
(*                                                                         *)
(* The constructor is the only writer of the credentials (ConfigInv), so a *)
(* token a Call makes is made of them (BearerInv); what an outcome says of *)
(* the server rests on where the transport stands at each step of a Call   *)
(* (CallInv).  Of a method of a service the request and its token are      *)
(* right from when a client makes them (ServiceInv): nothing changes what  *)
(* the caller asked for after that.                                        *)
(***************************************************************************)
EXTENDS MCServiceCalls, FiniteSetTheorems, TLAPS

ConfigInv == context # None => context.credential = Resolve /\ Complete(Resolve)

BearerInv == \A c \in Calls :
  /\ pc[c] # "idle" => context # None
  /\ pc[c] \in {"sending", "answered"} \/ c \in sent =>
       context # None /\ bearer[c] = TokenParts /\ None \notin TokenParts

CallInv == \A c \in Calls :
  /\ pc[c] = "idle" => c \notin sent
  /\ pc[c] \in {"idle", "sending"} => answer[c] = None
  /\ pc[c] = "answered" => c \in sent /\ answer[c] = c
  /\ pc[c] # "ended" => outcome[c] = "none" /\ response[c] = "untouched"
  /\ outcome[c] = "ok" => c \in sent /\ answer[c] = c
  /\ outcome[c] = "http" => c \in sent
  /\ c \in sent /\ context.transport = "libcurl" => Sendable(context.url)

Inv == ConfigInv /\ BearerInv /\ CallInv /\ NoLateAuthentication /\ RejectedUnsent
IInv == TypeOK /\ Inv

-------------------------------------------------------------------------------
\* With enough to make a token, a token is made of enough.
LEMMA CompleteMakesToken ==
  ASSUME context # None, ConfigInv
  PROVE  None \notin TokenParts
  BY DEF ConfigInv, Complete, TokenParts

\* A token is made of credentials of one origin.
LEMMA OneOrigin ==
  ASSUME TypeOK, context # None, ConfigInv
  PROVE  TokenParts = {IF options.given # {} THEN "options" ELSE "environment"}
<1> DEFINE origin == IF options.given # {} THEN "options" ELSE "environment"
<1>1. \A k \in Credentials : Resolve[k] \in {origin, None}
  BY DEF Resolve, Given
<1>2. {"access_token", "api_key", "api_secret"} \subseteq Credentials
  BY DEF Credentials
<1>3. None \notin TokenParts
  BY CompleteMakesToken
<1> QED BY <1>1, <1>2, <1>3 DEF ConfigInv, TokenParts

\* Before the constructor ran there are no calls.
LEMMA InitInv == Init => IInv
  BY CallAssumption
     DEF Init, IInv, TypeOK, Inv, ConfigInv, BearerInv, CallInv, NoLateAuthentication,
         RejectedUnsent, Transport!Init

\* What the constructor leaves behind.
LEMMA ConstructInv ==
  ASSUME IInv, Construct
  PROVE  IInv'
<1> USE DEF IInv, Inv
<1>1. context = None /\ UNCHANGED <<options, environment, calls, transport>>
  BY DEF Construct, Throws
<1>2. \A c \in Calls : pc[c] = "idle" /\ c \notin sent /\ outcome[c] = "none"
  <2>1. \A c \in Calls : pc[c] \in {"idle", "sending", "answered", "ended"}
    BY DEF TypeOK
  <2> QED BY <1>1, <2>1 DEF BearerInv, CallInv
<1>3. CASE UNCHANGED context /\ thrown' \in {"invalid_argument", "authentication", "transport"}
  BY <1>1, <1>2, <1>3
     DEF TypeOK, ConfigInv, BearerInv, CallInv, NoLateAuthentication, RejectedUnsent, calls,
         transport, Resolve, TokenParts
<1>4. CASE /\ Url # None /\ Url.scheme # "other" /\ Complete(Resolve)
           /\ context' = [url |-> NormalizeUrl(Url), credential |-> Resolve,
                          transport |-> IF options.transport = None THEN "libcurl" ELSE "host"]
           /\ UNCHANGED thrown
  <2>1. Url \in Urls
    BY <1>4 DEF TypeOK, ApiOptions, Environments, Url
  <2>2. NormalizeUrl(Url) \in [scheme : {"http", "https"}, lower : BOOLEAN, host : BOOLEAN]
    BY <1>4, <2>1, UrlAssumption DEF NormalizeUrl
  <2>3. Resolve \in [Credentials -> Origins \cup {None}]
    BY DEF Resolve, Given, Origins
  <2>4. context' \in Contexts
    BY <1>4, <2>2, <2>3 DEF Contexts
  <2>5. TypeOK'
    BY <1>1, <1>4, <2>4 DEF TypeOK, calls, transport
  <2>6. Resolve' = Resolve /\ context'.credential = Resolve /\ Complete(Resolve)'
    BY <1>1, <1>4 DEF Resolve, Complete
  <2>7. ConfigInv'
    BY <2>6 DEF ConfigInv
  <2> QED BY <1>1, <1>2, <2>5, <2>7
          DEF calls, transport, BearerInv, CallInv, NoLateAuthentication, RejectedUnsent
<1> QED BY <1>3, <1>4 DEF Construct, Throws

\* A Call moves nothing but itself: each step keeps what is said of it.
LEMMA CallsInv ==
  ASSUME IInv, NEW c \in Calls,
         Prepare(c) \/ Transmit(c) \/ SendThrows(c) \/ Respond(c) \/ Judge(c)
  PROVE  IInv'
<1> USE DEF IInv, Inv
<1>1. UNCHANGED configured
  BY DEF Prepare, Transmit, SendThrows, Respond, Judge
<1>2. ConfigInv' /\ (TokenParts' = TokenParts)
  BY <1>1 DEF configured, ConfigInv, Resolve, Complete, TokenParts
<1>3. CASE Prepare(c)
  <2>1. TokenParts \subseteq Origins \cup {None}
    BY <1>3 DEF Prepare, TypeOK, Contexts, TokenParts, Credentials
  <2>2. None \notin TokenParts
    BY <1>3, CompleteMakesToken DEF Prepare
  <2>3. TypeOK'
    BY <1>3, <2>1, <2>2 DEF Prepare, TypeOK, Goto, Ends, configured, transport
  <2> QED BY <1>1, <1>2, <1>3, <2>2, <2>3
          DEF Prepare, TypeOK, Goto, Ends, configured, transport, BearerInv, CallInv,
              NoLateAuthentication, RejectedUnsent
<1>4. CASE Transmit(c)
  BY <1>1, <1>2, <1>4
     DEF Transmit, Transport!Transmit, TypeOK, configured, calls, BearerInv, CallInv,
         NoLateAuthentication, RejectedUnsent
<1>5. CASE SendThrows(c)
  <2>1. context # None
    BY <1>5 DEF SendThrows, Goto, BearerInv
  <2>2. TypeOK'
    BY <1>1, <1>5 DEF SendThrows, Transport!Fail, TypeOK, Goto, Ends, configured
  <2> QED BY <1>1, <1>2, <1>5, <2>1, <2>2
          DEF SendThrows, Transport!Fail, TypeOK, Goto, Ends, configured, BearerInv, CallInv,
              NoLateAuthentication, RejectedUnsent
<1>6. CASE Respond(c)
  <2>1. TypeOK'
    BY <1>1, <1>6 DEF Respond, Transport!Respond, TypeOK, Goto, configured
  <2> QED BY <1>1, <1>2, <1>6, <2>1
          DEF Respond, Transport!Respond, TypeOK, Goto, configured, BearerInv, CallInv,
              NoLateAuthentication, RejectedUnsent
<1>7. CASE Judge(c)
  <2>1. TypeOK'
    BY <1>1, <1>7 DEF Judge, Parse, TypeOK, Goto, Ends, configured, transport
  <2> QED BY <1>1, <1>2, <1>7, <2>1
          DEF Judge, Parse, TypeOK, Goto, Ends, configured, transport, BearerInv, CallInv,
              NoLateAuthentication, RejectedUnsent
<1> QED BY <1>3, <1>4, <1>5, <1>6, <1>7

\* No step breaks the invariant.
LEMMA NextInv == IInv /\ [Next]_vars => IInv'
<1> SUFFICES ASSUME IInv, [Next]_vars PROVE IInv'
  OBVIOUS
<1>1. CASE UNCHANGED vars
  BY <1>1 DEF vars, configured, transport, calls, IInv, TypeOK, Inv, ConfigInv, BearerInv, CallInv,
              NoLateAuthentication, RejectedUnsent, Resolve, TokenParts
<1> QED BY <1>1, ConstructInv, CallsInv DEF Next, Done

\* What the theorems below rest on.
LEMMA Invariance == Spec => []IInv
  BY InitInv, NextInv, PTL DEF Spec

\* The variables of the RPC layer keep their types.
THEOREM TypeCorrect == Spec => []TypeOK
  BY Invariance, PTL DEF IInv

\* Credentials of the environment are never mixed into explicit ones, on any
\* request that went out.
THEOREM OneOriginSent == Spec => []ExplicitCredentials
<1>1. IInv => ExplicitCredentials
  BY OneOrigin DEF IInv, Inv, TypeOK, BearerInv, ExplicitCredentials
<1> QED BY <1>1, Invariance, PTL

\* A Call over libcurl never fails for want of credentials.
THEOREM AuthenticationIsEarly == Spec => []NoLateAuthentication
  BY Invariance, PTL DEF IInv, Inv

\* What libcurl's transport rejects as invalid the server never saw.
THEOREM RejectedNeverSent == Spec => []RejectedUnsent
  BY Invariance, PTL DEF IInv, Inv

-------------------------------------------------------------------------------
\* The refinement

Verdicts == [c \in Calls |-> Verdict(c)]
Filled == {c \in Calls : response[c] = "answer"}

\* A Call that ends changes its own verdict and no other.
LEMMA OneVerdict ==
  ASSUME IInv, NEW c \in Calls, pc[c] # "ended", UNCHANGED sent,
         \A d \in Calls \ {c} : /\ pc'[d] = pc[d] /\ outcome'[d] = outcome[d]
                                /\ answer'[d] = answer[d]
  PROVE  /\ Verdicts[c] = "pending"
         /\ Verdicts' = [Verdicts EXCEPT ![c] = Verdict(c)']
<1>1. \A d \in Calls \ {c} : Verdict(d)' = Verdict(d)
  BY DEF Verdict
<1>2. Verdict(c) = "pending"
  BY DEF Verdict
<1> QED BY <1>1, <1>2 DEF Verdicts

\* A step that ends no Call and gives no verdict another ground.
LEMMA SameVerdicts ==
  ASSUME \A d \in Calls : Verdict(d)' = Verdict(d), UNCHANGED response
  PROVE  Verdicts' = Verdicts /\ Filled' = Filled
  BY DEF Verdicts, Filled

\* Only a success fills the caller's response.
LEMMA OnlySuccessFills ==
  ASSUME IInv, NEW c \in Calls, Judge(c)
  PROVE  Filled' = IF outcome'[c] = "ok" THEN Filled \cup {c} ELSE Filled
<1> USE DEF IInv, TypeOK, Inv, CallInv, Judge, Parse, Goto, Ends
<1>1. response[c] = "untouched"
  OBVIOUS
<1>2. \A d \in Calls \ {c} : response'[d] = response[d]
  OBVIOUS
<1>3. outcome'[c] = "ok" <=> response'[c] = "answer"
  BY <1>1
<1> QED BY <1>1, <1>2, <1>3 DEF Filled

\* At first nothing is sent and no Call has ended.
LEMMA RpcInit == Init => Rpc!Init
  BY DEF Init, Transport!Init, Rpc!Init, Verdict

\* Each step of a Call is a step of an RPC or leaves it alone.
LEMMA CallRefines ==
  ASSUME IInv, IInv', NEW c \in Calls,
         Prepare(c) \/ Transmit(c) \/ SendThrows(c) \/ Respond(c) \/ Judge(c)
  PROVE  [Rpc!Next]_(Rpc!vars)
<1> USE DEF IInv, TypeOK, Inv, CallInv, Goto, Ends
<1>1. CASE Prepare(c) /\ pc'[c] = "ended"
  <2>1. /\ pc[c] = "idle" /\ c \notin sent /\ UNCHANGED <<sent, response>>
        /\ outcome'[c] \in {"invalid_argument", "transport", "protocol", "authentication",
                          "bad_alloc"}
        /\ \A d \in Calls \ {c} : /\ pc'[d] = pc[d] /\ outcome'[d] = outcome[d]
                                  /\ answer'[d] = answer[d]
    BY <1>1 DEF Prepare, transport
  <2>2. /\ Verdicts[c] = "pending" /\ Filled' = Filled
        /\ Verdicts' = [Verdicts EXCEPT ![c] = Verdict(c)']
    BY <2>1, OneVerdict DEF Filled
  <2>3. Verdict(c)' \in {"rejected", "failed"}
    BY <1>1, <2>1 DEF Verdict
  <2>4. Rpc!Reject(c) \/ Rpc!Fail(c)
    BY <2>1, <2>2, <2>3 DEF Rpc!Reject, Rpc!Fail, Rpc!End, Verdicts, Filled
  <2> QED BY <2>4 DEF Rpc!Next
<1>2. CASE Prepare(c) /\ pc'[c] # "ended"
  <2>1. \A d \in Calls : Verdict(d)' = Verdict(d)
    BY <1>2 DEF Prepare, transport, Verdict
  <2> QED BY <1>2, <2>1, SameVerdicts DEF Prepare, transport, Rpc!vars, Verdicts, Filled
<1>3. CASE Transmit(c)
  <2>1. pc[c] = "sending" /\ c \notin sent /\ sent' = sent \cup {c} /\ UNCHANGED <<calls, answer>>
    BY <1>3 DEF Transmit, Transport!Transmit
  <2>2. \A d \in Calls : Verdict(d)' = Verdict(d)
    BY <2>1 DEF Verdict, calls
  <2>3. Verdicts' = Verdicts /\ Filled' = Filled /\ Verdicts[c] = "pending"
    BY <2>1, <2>2, SameVerdicts DEF calls, Verdicts, Verdict
  <2>4. Rpc!Serve(c)
    BY <2>1, <2>3 DEF Rpc!Serve, Verdicts, Filled
  <2> QED BY <2>4 DEF Rpc!Next
<1>4. CASE SendThrows(c)
  <2>1. /\ pc[c] = "sending" /\ pc'[c] = "ended" /\ UNCHANGED <<sent, response>>
        /\ outcome'[c] \in {"transport", "invalid_argument", "authentication", "bad_alloc"}
        /\ \A d \in Calls \ {c} : /\ pc'[d] = pc[d] /\ outcome'[d] = outcome[d]
                                  /\ answer'[d] = answer[d]
    BY <1>4 DEF SendThrows, Transport!Fail
  <2>2. /\ Verdicts[c] = "pending" /\ Filled' = Filled
        /\ Verdicts' = [Verdicts EXCEPT ![c] = Verdict(c)']
    BY <2>1, OneVerdict DEF Filled
  <2>3. (Verdict(c)' = "rejected" /\ c \notin sent) \/ Verdict(c)' = "failed"
    BY <2>1 DEF Verdict
  <2>4. Rpc!Reject(c) \/ Rpc!Fail(c)
    BY <2>1, <2>2, <2>3 DEF Rpc!Reject, Rpc!Fail, Rpc!End, Verdicts, Filled
  <2> QED BY <2>4 DEF Rpc!Next
<1>5. CASE Respond(c)
  <2>1. /\ pc[c] = "sending" /\ pc'[c] = "answered" /\ UNCHANGED <<sent, response>>
        /\ \A d \in Calls \ {c} : /\ pc'[d] = pc[d] /\ outcome'[d] = outcome[d]
                                  /\ answer'[d] = answer[d]
    BY <1>5 DEF Respond, Transport!Respond
  <2>2. \A d \in Calls : Verdict(d)' = Verdict(d)
    BY <2>1 DEF Verdict
  <2> QED BY <2>1, <2>2, SameVerdicts DEF Rpc!vars, Verdicts, Filled
<1>6. CASE Judge(c)
  <2>1. /\ pc[c] = "answered" /\ pc'[c] = "ended" /\ UNCHANGED <<sent, answer>>
        /\ outcome'[c] \in {"ok", "http", "protocol"}
        /\ \A d \in Calls \ {c} : /\ pc'[d] = pc[d] /\ outcome'[d] = outcome[d]
                                  /\ answer'[d] = answer[d]
    BY <1>6 DEF Judge, transport
  <2>2. c \in sent /\ answer'[c] = c
    BY <2>1
  <2>3. /\ Verdicts[c] = "pending"
        /\ Verdicts' = [Verdicts EXCEPT ![c] = Verdict(c)']
    BY <2>1, OneVerdict
  <2>4. Filled' = IF outcome'[c] = "ok" THEN Filled \cup {c} ELSE Filled
    BY <1>6, OnlySuccessFills
  <2>5. Verdict(c)' = IF outcome'[c] = "ok" THEN "answered"
                      ELSE IF outcome'[c] = "http" THEN "refused" ELSE "failed"
    BY <2>1, <2>2 DEF Verdict
  <2>6. Rpc!Answer(c) \/ Rpc!Refuse(c) \/ Rpc!Fail(c)
    BY <2>1, <2>2, <2>3, <2>4, <2>5
       DEF Rpc!Answer, Rpc!Refuse, Rpc!Fail, Rpc!End, Verdicts, Filled
  <2> QED BY <2>6 DEF Rpc!Next
<1> QED BY <1>1, <1>2, <1>3, <1>4, <1>5, <1>6

\* So is every step.
LEMMA NextRefines == IInv /\ IInv' /\ [Next]_vars => [Rpc!Next]_(Rpc!vars)
<1> SUFFICES ASSUME IInv, IInv', [Next]_vars PROVE [Rpc!Next]_(Rpc!vars)
  OBVIOUS
<1>1. CASE UNCHANGED <<calls, transport>>
  <2>1. \A d \in Calls : Verdict(d)' = Verdict(d)
    BY <1>1 DEF Verdict, calls, transport
  <2> QED BY <1>1, <2>1, SameVerdicts DEF calls, transport, Rpc!vars, Verdicts, Filled
<1> QED BY <1>1, CallRefines DEF Next, Done, vars, Construct, Throws

\* Calls of any number of threads over a shared transport implement unary
\* RPCs.
THEOREM RpcImplemented == Spec => ImplementsRpc
  BY RpcInit, NextRefines, Invariance, PTL DEF Spec, ImplementsRpc, Rpc!Spec

-------------------------------------------------------------------------------
\* ServiceCalls

\* What SentAsAsked says of the request, from when a client has made it.
AsAsked ==
  /\ \/ wire.request = Services!Request
     \/ /\ operation = <<"Room", "SendData">> /\ Services!Request.nonce = Blank
        /\ wire.request = [Services!Request EXCEPT !.nonce = Fresh]
  /\ token \/ Services!TokenFits(wire.bearer)

ServiceInv ==
  /\ step \in {"client", "calling"} => asked \in Services!Requests \cup {Blank}
  /\ step \in {"asked", "native"} => asked \in Services!Requests \cup {Blank}
  /\ step \in {"idle", "asked", "native", "client"} => seen = {}
  /\ step = "calling" \/ seen # {} => AsAsked

\* A request has a room, a destination and a nonce, also when none was given.
LEMMA RequestHasFields ==
  ASSUME asked \in Services!Requests \cup {Blank}
  PROVE  /\ DOMAIN Services!Request = {"room", "destination", "nonce"}
         /\ Services!Request = [room |-> Services!Request.room,
                                destination |-> Services!Request.destination,
                                nonce |-> Services!Request.nonce]
  BY DEF Services!Requests, Services!Request, Services!EmptyRequest

\* ServiceCalls counts as this module does.
LEMMA SameCardinality == \A S : Services!Cardinality(S) = Cardinality(S)
  BY Zenon DEF Services!Cardinality, Cardinality

\* With one power besides the administration of the room there are two powers
\* or fewer.
LEMMA OnePower ==
  ASSUME NEW power, NEW powers, powers \subseteq {power, "room_admin"}
  PROVE  Services!Cardinality(powers \ {"room_admin"}) <= 1
<1>1. powers \ {"room_admin"} = {} \/ powers \ {"room_admin"} = {power}
  OBVIOUS
<1>2. Cardinality({}) = 0 /\ Cardinality({power}) = 1
  BY FS_EmptySet, FS_Singleton
<1>3. Cardinality(powers \ {"room_admin"}) \in {0, 1}
  BY <1>1, <1>2
<1> QED BY <1>3, SameCardinality

\* TokenFits, of a grant for the request that was asked for.
Fits(grant) ==
  /\ grant.room \in {Blank, Services!Request.room}
  /\ grant.destination \in {Blank, Services!Request.destination}
  /\ "room_admin" \in grant.powers => grant.room = Services!Request.room
  /\ Services!Cardinality(grant.powers \ {"room_admin"}) <= 1
  /\ grant.powers = {} => Services!Request.room = Blank

\* A grant of one power of a service, or of the administration of the room of
\* the request, or of both.
LEMMA GrantFits ==
  ASSUME NEW power, NEW powers, powers \subseteq {power, "room_admin"},
         NEW room \in {Blank, Services!Request.room},
         NEW destination \in {Blank, Services!Request.destination},
         "room_admin" \in powers => room = Services!Request.room,
         powers = {} => Services!Request.room = Blank
  PROVE  Fits(Services!Grant(powers, room, destination))
  BY OnePower DEF Fits, Services!Grant

\* The grant of a method of a room.
LEMMA RoomGrantFits ==
  ASSUME NEW create \in BOOLEAN, NEW list \in BOOLEAN, ~(create /\ list),
         NEW room \in {Blank, Services!Request.room},
         NEW destination \in {Blank, Services!Request.destination},
         create \/ list \/ room = Services!Request.room
  PROVE  Fits(Services!RoomGrant(create, list, room, destination))
<1> DEFINE power == IF create THEN "room_create" ELSE "room_list"
           powers == (IF create THEN {"room_create"} ELSE {})
                       \cup (IF list THEN {"room_list"} ELSE {})
                       \cup (IF room # Blank THEN {"room_admin"} ELSE {})
<1>1. powers \subseteq {power, "room_admin"}
  OBVIOUS
<1>2. /\ "room_admin" \in powers => room = Services!Request.room
      /\ powers = {} => Services!Request.room = Blank
  OBVIOUS
<1>3. Fits(Services!Grant(powers, room, destination))
  <2> HIDE DEF powers, power
  <2> QED BY <1>1, <1>2, GrantFits
<1> QED BY <1>3 DEF Services!RoomGrant

\* The grant of a call of SIP.
LEMMA CallGrantFits ==
  ASSUME NEW room \in {Blank, Services!Request.room}
  PROVE  Fits(Services!CallGrant(room))
<1> DEFINE powers == {"sip_call"} \cup (IF room # Blank THEN {"room_admin"} ELSE {})
<1>1. /\ powers \subseteq {"sip_call", "room_admin"} /\ powers # {}
      /\ "room_admin" \in powers => room = Services!Request.room
  OBVIOUS
<1>2. Fits(Services!Grant(powers, room, Blank))
  <2> HIDE DEF powers
  <2> QED BY <1>1, GrantFits
<1> QED BY <1>2 DEF Services!CallGrant

\* What a client sends is what was asked for, but for a nonce of its own, with a
\* grant that fits.
LEMMA SendsInv ==
  ASSUME ServiceInv, step = "client", NEW route, NEW request, NEW grant,
         Services!Sends(route, request, grant), Fits(grant),
         \/ request = Services!Request
         \/ /\ operation = <<"Room", "SendData">> /\ Services!Request.nonce = Blank
            /\ request = [Services!Request EXCEPT !.nonce = Fresh]
  PROVE  ServiceInv'
<1>1. asked \in Services!Requests \cup {Blank} /\ seen = {}
  BY DEF ServiceInv
<1>2. UNCHANGED <<asked, operation, token, seen>> /\ Services!Request' = Services!Request
  BY DEF Services!Sends, Services!input, Services!rpc, Services!Request,
         Services!EmptyRequest
<1>3. /\ request.room = Services!Request.room
      /\ request.destination = Services!Request.destination
  BY <1>1, RequestHasFields
<1>4. step' = "calling" /\ wire'.request = request /\ (~token => wire'.bearer = grant)
  BY DEF Services!Sends
<1>5. token' \/ Services!TokenFits(wire.bearer)'
  BY <1>2, <1>3, <1>4 DEF Services!TokenFits, Fits
<1>6. AsAsked'
  BY <1>2, <1>4, <1>5 DEF AsAsked
<1> QED BY <1>1, <1>2, <1>4, <1>6 DEF ServiceInv

\* Every client makes of what it was asked for a request and a token that fit.
LEMMA ClientInv ==
  ASSUME ServiceInv, step = "client", Services!ClientCalls
  PROVE  ServiceInv'
<1> DEFINE R == Services!Request
<1>1. asked \in Services!Requests \cup {Blank} /\ seen = {}
  BY DEF ServiceInv
<1>2. CASE Services!NotTheMessage \/ Services!NonceThrows
  BY <1>1, <1>2 DEF Services!NotTheMessage, Services!NonceThrows, Services!Ends,
                    Services!rpc, ServiceInv
<1>3. CASE Services!RoomServiceCall
  <2> DEFINE method == operation[2]
             grant == IF method \in {"CreateRoom", "DeleteRoom"}
                      THEN Services!RoomGrant(TRUE, FALSE, Blank, Blank)
                      ELSE IF method = "ListRooms"
                           THEN Services!RoomGrant(FALSE, TRUE, Blank, Blank)
                      ELSE IF method \in {"ForwardParticipant", "MoveParticipant"}
                           THEN Services!RoomGrant(FALSE, FALSE, R.room, R.destination)
                      ELSE Services!RoomGrant(FALSE, FALSE, R.room, Blank)
  <2>1. PICK request \in IF method = "SendData" THEN Services!WithNonce(R) ELSE {R} :
          Services!Sends(<<"RoomService", method>>, request, grant)
    BY <1>3 DEF Services!RoomServiceCall
  <2>2. \/ request = R
        \/ /\ operation = <<"Room", "SendData">> /\ R.nonce = Blank
           /\ request = [R EXCEPT !.nonce = Fresh]
    <3>1. method = "SendData" => operation = <<"Room", "SendData">>
      BY <1>3 DEF Services!RoomServiceCall, Services!RoomOperations, Services!Of
    <3>2. R.nonce = Blank => [R EXCEPT !.nonce = Blank] = R
      BY <1>1, RequestHasFields
    <3> QED BY <2>1, <3>1, <3>2 DEF Services!WithNonce
  <2>3. Fits(grant)
    BY RoomGrantFits
  <2> HIDE DEF grant
  <2> QED BY <2>1, <2>2, <2>3, SendsInv
<1>4. CASE Services!EgressCall
  <2>1. Fits(Services!Grant({"room_record"}, Blank, Blank))
    BY GrantFits
  <2> QED BY <1>4, <2>1, SendsInv DEF Services!EgressCall
<1>5. CASE Services!IngressCall
  <2>1. Fits(Services!Grant({"ingress_admin"}, Blank, Blank))
    BY GrantFits
  <2> QED BY <1>5, <2>1, SendsInv DEF Services!IngressCall
<1>6. CASE Services!SipCall
  <2>1. Fits(Services!AdminGrant)
    BY GrantFits DEF Services!AdminGrant
  <2>2. \A room \in {Blank, R.room} : Fits(Services!CallGrant(room))
    BY CallGrantFits
  <2>3. CASE Services!Sends(<<"SIP", Services!SipMethod[operation[2]]>>, R, Services!AdminGrant)
    BY <2>1, <2>3, SendsInv
  <2>4. CASE Services!Sends(<<"SIP", Services!SipMethod[operation[2]]>>, R,
               Services!CallGrant(IF operation[2] = "TransferParticipant" THEN R.room ELSE Blank))
    BY <2>2, <2>4, SendsInv
  <2> QED BY <1>6, <2>3, <2>4 DEF Services!SipCall
<1>7. CASE Services!AgentDispatchCall
  <2>1. Fits(Services!Grant({"room_admin"}, R.room, Blank))
    BY GrantFits
  <2> QED BY <1>7, <2>1, SendsInv DEF Services!AgentDispatchCall
<1>8. CASE Services!ConnectorCall
  <2>1. \A room \in {Blank, R.room} : Fits(Services!Grant({"room_create"}, room, Blank))
    BY GrantFits
  <2> QED BY <1>8, <2>1, SendsInv DEF Services!ConnectorCall
<1> QED BY <1>2, <1>3, <1>4, <1>5, <1>6, <1>7, <1>8 DEF Services!ClientCalls

\* Nothing was asked before the call began.
LEMMA ServiceInitInv == Services!Init => ServiceInv
  BY DEF Services!Init, Services!Rpc!Init, ServiceInv

\* One case for each disjunct of Next; what was sent is not sent again.
LEMMA ServiceNextInv == ServiceInv /\ [Services!Next]_(Services!vars) => ServiceInv'
<1> SUFFICES ASSUME ServiceInv, [Services!Next]_(Services!vars) PROVE ServiceInv'
  OBVIOUS
<1>1. CASE Services!HostAsks
  <2>1. /\ step = "idle" /\ step' = "asked" /\ UNCHANGED seen
        /\ asked' \in Services!Requests \cup {Blank}
    BY <1>1 DEF Services!HostAsks, Services!CppAsks, Services!PythonAsks, Services!DotNetAsks,
                Services!PhpAsks, Services!RubyAsks, Services!JavaAsks, Services!RustAsks,
                Services!ZigAsks, Services!Asks, Services!rpc
  <2> QED BY <2>1 DEF ServiceInv, Services!Requests
<1>2. ASSUME UNCHANGED <<operation, asked, token, wire, seen>>,
             \/ step' = step
             \/ step \in {"asked", "native"} /\ step' \in {"native", "client", "ended"}
             \/ step \in {"calling", "answered"} /\ step' \in {"answered", "ended"}
      PROVE  ServiceInv'
  BY <1>2 DEF ServiceInv, AsAsked, Services!Requests, Services!Request, Services!EmptyRequest,
              Services!TokenFits
<1>3. CASE Services!HostCalls \/ Services!Execute
  BY <1>2, <1>3 DEF Services!HostCalls, Services!CppCalls, Services!PythonCalls,
     Services!DotNetCalls, Services!PhpCalls, Services!RubyCalls, Services!JavaCalls,
     Services!RustCalls, Services!ZigCalls, Services!LiveKitApi, Services!Execute,
     Services!Ends, Services!input, Services!rpc
<1>4. CASE Services!ClientCalls
  <2>1. step = "client"
    BY <1>4 DEF Services!ClientCalls, Services!NotTheMessage, Services!RoomServiceCall,
         Services!NonceThrows, Services!EgressCall, Services!IngressCall, Services!SipCall,
         Services!AgentDispatchCall, Services!ConnectorCall, Services!Sends
  <2> QED BY <1>4, <2>1, ClientInv
<1>5. CASE Services!Serve
  BY <1>5 DEF Services!Serve, Services!Rpc!Serve, Services!input, ServiceInv, AsAsked,
     Services!Requests, Services!Request, Services!EmptyRequest, Services!TokenFits
<1>6. CASE Services!Answered \/ Services!Failed \/ Services!Return
  BY <1>2, <1>6 DEF Services!Answered, Services!Failed, Services!Return, Services!Ends,
     Services!Rpc!Answer, Services!Rpc!Refuse, Services!Rpc!Reject, Services!Rpc!Fail,
     Services!Rpc!End, Services!input, Services!rpc
<1>7. CASE UNCHANGED Services!vars
  BY <1>2, <1>7 DEF Services!vars, Services!input, Services!rpc
<1> QED BY <1>1, <1>3, <1>4, <1>5, <1>6, <1>7 DEF Services!Next, Services!Done

\* Of every operation, in every host and for any rooms, the server sees what the
\* caller asked for, with a token that is for it and no more.
THEOREM RequestSentAsAsked == Services!Spec => []SentAsAsked
<1>1. ServiceInv => SentAsAsked
  BY DEF ServiceInv, AsAsked, SentAsAsked, Services!SentAsAsked
<1> QED BY <1>1, ServiceInitInv, ServiceNextInv, PTL DEF Services!Spec
================================================================================
