------------------------------ MODULE ServiceCalls ------------------------------
(***************************************************************************)
(* A method of one of the six services, called in C++ or through one of    *)
(* the seven bindings: the binding checks what it is given and passes the  *)
(* name of the operation and the request to the C ABI (src/c_api.cpp),     *)
(* whose dispatch table (src/detail/dispatch.inc) calls the client, which  *)
(* chooses the route of the request and the grant of its token             *)
(* (src/*_client.cpp).  The RPC layer below is a UnaryRpc of one call.     *)
(*                                                                         *)
(* Of a request only the rooms it names and the nonce are kept.            *)
(***************************************************************************)
EXTENDS Naturals, Sequences, FiniteSets, TLC

CONSTANTS Rooms,      \* the names of rooms a request may have
          Blank,      \* an empty string, an absent request
          Nonces,     \* what the caller may give SendData
          Fresh,      \* a nonce the client makes
          Dispatches  \* what the server may have of agent dispatches

VARIABLES host, operation, asked,  \* who calls what, with which request
          timeout, checked,        \* of its options; whether its types are right
          token,                   \* the context has an access token, not keys
          pc, wire,                \* where the call is, the request that was made
          seen, verdict, filled,   \* the RPC layer
          found, result            \* the dispatches of an answer, what the caller gets

input == <<host, operation, asked, timeout, checked, token>>
rpc == <<seen, verdict, filled>>
vars == <<input, pc, wire, rpc, found, result>>

Rpc == INSTANCE UnaryRpc WITH Calls <- {"call"}

Named == Rooms \cup {Blank}
Requests == [room : Named, destination : Named, nonce : Nonces \cup {Blank}]
EmptyRequest == [room |-> Blank, destination |-> Blank, nonce |-> Blank]

-------------------------------------------------------------------------------
\* The dispatch table: the operations of the C ABI.
Of(service, methods) == {<<service, m>> : m \in methods}

RoomOperations == Of("Room",
  {"CreateRoom", "ListRooms", "DeleteRoom", "ListParticipants", "GetParticipant",
   "RemoveParticipant", "MutePublishedTrack", "UpdateParticipant", "UpdateSubscriptions",
   "SendData", "UpdateRoomMetadata", "ForwardParticipant", "MoveParticipant", "PerformRpc"})

EgressOperations == Of("Egress",
  {"StartEgress", "StartRoomCompositeEgress", "StartWebEgress", "StartParticipantEgress",
   "StartTrackCompositeEgress", "StartTrackEgress", "UpdateLayout", "UpdateStream",
   "ListEgress", "StopEgress"})

IngressOperations == Of("Ingress",
  {"CreateIngress", "UpdateIngress", "ListIngress", "DeleteIngress"})

TrunkOperations == Of("Sip",
  {"CreateInboundTrunk", "CreateOutboundTrunk", "UpdateInboundTrunk", "UpdateOutboundTrunk",
   "GetInboundTrunk", "GetOutboundTrunk", "ListTrunks", "ListInboundTrunks",
   "ListOutboundTrunks", "DeleteTrunk", "CreateDispatchRule", "UpdateDispatchRule",
   "ListDispatchRules", "DeleteDispatchRule"})

SipCallOperations == Of("Sip", {"CreateParticipant", "TransferParticipant"})

AgentOperations == Of("AgentDispatch", {"CreateDispatch", "DeleteDispatch", "ListDispatch"})

ConnectorOperations == Of("Connector",
  {"DialWhatsAppCall", "DisconnectWhatsAppCall", "ConnectWhatsAppCall", "AcceptWhatsAppCall",
   "ConnectTwilioCall"})

Dispatched == RoomOperations \cup EgressOperations \cup IngressOperations \cup TrunkOperations
              \cup SipCallOperations \cup AgentOperations \cup ConnectorOperations

\* GetDispatch of the agent client has an operation of its own.
GetDispatch == <<"AgentDispatch", "GetDispatch">>

Operations == Dispatched \cup {GetDispatch}

\* What the types of a host can say: an integer beyond 64 bits, and an argument
\* of a wrong type or null.
Expressible(h) == /\ timeout = "beyond" => h \in {"python", "ruby", "java"}
                  /\ ~checked => h \in {"python", "ruby", "dotnet", "java"}

Init == /\ host = Blank /\ operation = Blank /\ asked = Blank
        /\ timeout \in {"zero", "fits", "beyond"} /\ checked \in BOOLEAN /\ token \in BOOLEAN
        /\ pc = "idle" /\ wire = Blank
        /\ Rpc!Init
        /\ found = <<>> /\ result = "none"

-------------------------------------------------------------------------------
\* The service classes of a host: a caller names an operation by the method it
\* calls, with a request or, for ListRooms where the host has the default,
\* without one.
Meaningful(request, o) ==
  /\ request.nonce # Blank => o = <<"Room", "SendData">>
  /\ request.destination # Blank => o[2] \in {"ForwardParticipant", "MoveParticipant"}

Asks(h, default) ==
  /\ pc = "idle" /\ pc' = "asked"
  /\ Expressible(h) /\ host' = h
  /\ operation' \in Operations
  /\ \/ asked' \in {r \in Requests : Meaningful(r, operation')}
     \/ default /\ operation' = <<"Room", "ListRooms">> /\ asked' = Blank
  /\ UNCHANGED <<timeout, checked, token, wire, rpc, found, result>>

CppAsks    == Asks("cpp", TRUE)
PythonAsks == Asks("python", TRUE)
DotNetAsks == Asks("dotnet", TRUE)
PhpAsks    == Asks("php", TRUE)
RubyAsks   == Asks("ruby", TRUE)
JavaAsks   == Asks("java", TRUE)
RustAsks   == Asks("rust", FALSE)
ZigAsks    == Asks("zig", FALSE)

Request == IF asked = Blank THEN EmptyRequest ELSE asked

Ends(how) == pc' = "ended" /\ result' = how

\* Its LiveKitApi, with options that were checked when they were built.
LiveKitApi(h, accepted, next) ==
  /\ pc = "asked" /\ host = h
  /\ IF accepted THEN pc' = next /\ UNCHANGED result ELSE Ends("refused")
  /\ UNCHANGED <<input, wire, rpc, found>>

CppCalls    == LiveKitApi("cpp", timeout # "zero", "client")
PythonCalls == LiveKitApi("python", timeout = "fits" /\ checked, "native")
RubyCalls   == LiveKitApi("ruby", timeout = "fits" /\ checked, "native")
JavaCalls   == LiveKitApi("java", timeout = "fits" /\ checked, "native")
DotNetCalls == LiveKitApi("dotnet", timeout # "zero" /\ checked, "native")
PhpCalls    == LiveKitApi("php", timeout # "zero", "native")
RustCalls   == LiveKitApi("rust", timeout # "zero", "native")
ZigCalls    == LiveKitApi("zig", timeout # "zero", "native")

\* Execute of the C ABI, which may find its options refused by the ClientContext.
Execute ==
  /\ pc = "native"
  /\ \/ operation \in Operations /\ pc' = "client" /\ UNCHANGED result
     \/ Ends("refused")
  /\ UNCHANGED <<input, wire, rpc, found>>

-------------------------------------------------------------------------------
\* The clients

Grant(powers, room, destination) == [powers |-> powers, room |-> room, destination |-> destination]

Sends(route, request, grant) ==
  /\ pc = "client" /\ pc' = "calling"
  /\ wire' = [route |-> route, request |-> request,
              bearer |-> IF token THEN "access_token" ELSE grant]
  /\ UNCHANGED <<input, rpc, found, result>>

\* FromModel: the JSON of a model may not be that of its message.
NotTheMessage == /\ pc = "client" /\ operation # GetDispatch
                 /\ Ends("refused")
                 /\ UNCHANGED <<input, wire, rpc, found>>

\* Admin of the room, when there is one.
\* Mutant: the room is moved from before it is asked whether it is empty.
RoomGrantMoved(create, list, room, destination) ==
  Grant((IF create THEN {"room_create"} ELSE {}) \cup (IF list THEN {"room_list"} ELSE {}),
        room, destination)

RoomGrant(create, list, room, destination) ==
  Grant((IF create THEN {"room_create"} ELSE {}) \cup (IF list THEN {"room_list"} ELSE {})
          \cup (IF room # Blank THEN {"room_admin"} ELSE {}),
        room, destination)

\* SendData: a nonce of its own, or none where the system has no random bytes.
WithNonce(request) == IF request.nonce # Blank THEN {request}
                      ELSE {[request EXCEPT !.nonce = n] : n \in {Fresh, Blank}}

RoomServiceCall ==
  /\ operation \in RoomOperations
  /\ LET method == operation[2]
         grant == IF method \in {"CreateRoom", "DeleteRoom"} THEN RoomGrant(TRUE, FALSE, Blank, Blank)
                  ELSE IF method = "ListRooms" THEN RoomGrant(FALSE, TRUE, Blank, Blank)
                  ELSE IF method \in {"ForwardParticipant", "MoveParticipant"}
                       THEN RoomGrant(FALSE, FALSE, Request.room, Request.destination)
                  ELSE RoomGrant(FALSE, FALSE, Request.room, Blank)
     IN \E request \in IF method = "SendData" THEN WithNonce(Request) ELSE {Request} :
          Sends(<<"RoomService", method>>, request, grant)

\* std::random_device may throw.
NonceThrows ==
  /\ pc = "client" /\ operation = <<"Room", "SendData">> /\ Request.nonce = Blank
  /\ Ends("error")
  /\ UNCHANGED <<input, wire, rpc, found>>

EgressCall == /\ operation \in EgressOperations
              /\ Sends(operation, Request, Grant({"room_record"}, Blank, Blank))

IngressCall == /\ operation \in IngressOperations
               /\ Sends(operation, Request, Grant({"ingress_admin"}, Blank, Blank))

\* The server has other names for the methods of SIP.
SipMethod ==
  "CreateInboundTrunk" :> "CreateSIPInboundTrunk" @@ "CreateOutboundTrunk" :> "CreateSIPOutboundTrunk" @@
  "UpdateInboundTrunk" :> "UpdateSIPInboundTrunk" @@ "UpdateOutboundTrunk" :> "UpdateSIPOutboundTrunk" @@
  "GetInboundTrunk" :> "GetSIPInboundTrunk" @@ "GetOutboundTrunk" :> "GetSIPOutboundTrunk" @@
  "ListTrunks" :> "ListSIPTrunk" @@ "ListInboundTrunks" :> "ListSIPInboundTrunk" @@
  "ListOutboundTrunks" :> "ListSIPOutboundTrunk" @@ "DeleteTrunk" :> "DeleteSIPTrunk" @@
  "CreateDispatchRule" :> "CreateSIPDispatchRule" @@ "UpdateDispatchRule" :> "UpdateSIPDispatchRule" @@
  "ListDispatchRules" :> "ListSIPDispatchRule" @@ "DeleteDispatchRule" :> "DeleteSIPDispatchRule" @@
  "CreateParticipant" :> "CreateSIPParticipant" @@ "TransferParticipant" :> "TransferSIPParticipant"

AdminGrant == Grant({"sip_admin"}, Blank, Blank)

CallGrant(room) == Grant({"sip_call"} \cup (IF room # Blank THEN {"room_admin"} ELSE {}), room, Blank)

SipCall ==
  \/ /\ operation \in TrunkOperations
     /\ Sends(<<"SIP", SipMethod[operation[2]]>>, Request, AdminGrant)
  \/ /\ operation \in SipCallOperations
     /\ Sends(<<"SIP", SipMethod[operation[2]]>>, Request,
              CallGrant(IF operation[2] = "TransferParticipant" THEN Request.room ELSE Blank))

\* Admin of the room even when there is none; GetDispatch is a ListDispatch.
AgentDispatchCall ==
  /\ operation \in AgentOperations \cup {GetDispatch}
  /\ Sends(<<"AgentDispatchService", IF operation = GetDispatch THEN "ListDispatch" ELSE operation[2]>>,
           Request, Grant({"room_admin"}, Request.room, Blank))

ConnectorCall ==
  /\ operation \in ConnectorOperations
  /\ Sends(operation, Request,
           Grant({"room_create"},
                 IF operation[2] \in {"DisconnectWhatsAppCall", "ConnectWhatsAppCall"}
                 THEN Blank ELSE Request.room, Blank))

-------------------------------------------------------------------------------
\* What the RPC layer makes of it; the answer to a ListDispatch has dispatches.
Serve == pc = "calling" /\ Rpc!Serve("call") /\ UNCHANGED <<input, pc, wire, found, result>>

Answered ==
  /\ pc = "calling" /\ pc' = "answered"
  /\ Rpc!Answer("call")
  /\ found' \in IF wire.route = <<"AgentDispatchService", "ListDispatch">>
                THEN UNION {[1 .. n -> Dispatches] : n \in 0 .. Cardinality(Dispatches)} ELSE {<<>>}
  /\ UNCHANGED <<input, wire, result>>

Failed ==
  /\ pc = "calling"
  /\ Rpc!Refuse("call") \/ Rpc!Reject("call") \/ Rpc!Fail("call")
  /\ Ends("error")
  /\ UNCHANGED <<input, wire, found>>

\* GetDispatch returns the first of the dispatches or nothing.
Return ==
  /\ pc = "answered"
  /\ Ends(IF operation # GetDispatch THEN "answer" ELSE IF found = <<>> THEN "nothing" ELSE Head(found))
  /\ UNCHANGED <<input, wire, rpc, found>>

Done == pc = "ended" /\ UNCHANGED vars

HostAsks == \/ CppAsks \/ PythonAsks \/ DotNetAsks \/ PhpAsks
            \/ RubyAsks \/ JavaAsks \/ RustAsks \/ ZigAsks

HostCalls == \/ CppCalls \/ PythonCalls \/ DotNetCalls \/ PhpCalls
             \/ RubyCalls \/ JavaCalls \/ RustCalls \/ ZigCalls

ClientCalls == \/ NotTheMessage \/ RoomServiceCall \/ NonceThrows \/ EgressCall \/ IngressCall
               \/ SipCall \/ AgentDispatchCall \/ ConnectorCall

Next == HostAsks \/ HostCalls \/ Execute \/ ClientCalls \/ Serve \/ Answered \/ Failed \/ Return \/ Done

Spec == Init /\ [][Next]_vars

-------------------------------------------------------------------------------
\* The token of a request is for what the request is about: it names no room but
\* the request's, makes nobody admin of another, has one power of a service and
\* no more; and to a request that names a room it gives a power.
TokenFits(grant) ==
  /\ grant.room \in {Blank, wire.request.room}
  /\ grant.destination \in {Blank, wire.request.destination}
  /\ "room_admin" \in grant.powers => grant.room = wire.request.room
  /\ Cardinality(grant.powers \ {"room_admin"}) <= 1
  /\ grant.powers = {} => wire.request.room = Blank

\* Whatever the host, the server sees the request the caller made, but for the
\* nonce of a SendData without one; and a token made from the keys fits it.
SentAsAsked == "call" \in seen =>
  /\ \/ wire.request = Request
     \/ /\ operation = <<"Room", "SendData">> /\ Request.nonce = Blank
        /\ wire.request = [Request EXCEPT !.nonce = Fresh]
  /\ token \/ TokenFits(wire.bearer)
================================================================================
