--------------------------------- MODULE CAbi ---------------------------------
(***************************************************************************)
(* One call of lks_invoke (src/c_api.cpp): the input is read, the SDK does *)
(* what it names, at most once it asks the host, and whatever happens      *)
(* comes back as an envelope or as NULL.  Calls share nothing, so one is   *)
(* enough; what a host does around it is HostInvoke.                       *)
(*                                                                         *)
(* A field of the input, or of what the host answers, is "mistyped" when   *)
(* it is of another kind than it has to be.  Memory can run out in any     *)
(* step.                                                                   *)
(***************************************************************************)
EXTENDS Integers

CONSTANTS Call, None

VARIABLES input,       \* what the host passes
          pc,          \* where lks_invoke is
          answer,      \* what the callback did, None before
          response,    \* the envelope: "value", an ErrorCode, "none" before
          http_status, \* its HTTP status
          output,      \* what was returned: "none" before, "null" or "envelope"
          length       \* *output_length, 0 or not

vars == <<input, pc, answer, response, http_status, output, length>>

ErrorCode == {"invalid_argument", "authentication", "transport", "http", "protocol", "unknown"}

\* Whether the host is to be asked is use_transport or, of a webhook,
\* use_key_provider.
Inputs == [buffer : {"null", "oversize", "junk", "object"},
           operation : {"mistyped", "token", "webhook", "get_dispatch", "rpc", "unknown"},
           options : {"mistyped", "object"},
           ask : {"mistyped", "true", "false"},
           callback : BOOLEAN, output_length : BOOLEAN]

Statuses == {99, 100, 200, 299, 404, 599, 600}

\* A callback returns nonzero, throws, or answers with a buffer.
Responses == [kind : {"object"}, error : {"mistyped", "true", "false"},
              status_code : Statuses \cup {None}, body : {"mistyped", "junk", "reply", "other"},
              secret : {"mistyped", "empty", "wrong", "right"}]
Answers == [kind : {"nonzero", "throws", "null", "oversize", "junk"}] \cup Responses

\* Assumed where the constants get their values.
NoneIsDistinct == None \notin {Call} \cup Int \cup Answers

Init == /\ input \in Inputs
        /\ pc = "called" /\ answer = None /\ response = "none" /\ http_status = 0
        /\ output = "none" /\ length = 1

-------------------------------------------------------------------------------
\* The call goes on, succeeds, or throws an Error that becomes the envelope.
Goes(to) == pc' = to /\ UNCHANGED <<answer, response, http_status, output, length>>
Envelope(what, status) == /\ pc' = "copy" /\ response' = what /\ http_status' = status
                          /\ UNCHANGED <<answer, output, length>>
Succeeds == Envelope("value", 0)
Throws(code) == Envelope(code, 0)

At(where) == pc = where /\ UNCHANGED input

lks_invoke ==
  /\ At("called")
  /\ pc' = "parse"
  /\ length' = IF input.output_length THEN 0 ELSE length
  /\ UNCHANGED <<answer, response, http_status, output>>

Parse ==
  /\ At("parse")
  /\ IF input.buffer # "object" THEN Throws("invalid_argument") ELSE Goes("execute")

Execute ==
  /\ At("execute")
  /\ IF "mistyped" \in {input.operation, input.options} THEN Throws("invalid_argument")
     ELSE CASE input.operation = "token" -> Goes("sign")
            [] input.operation = "webhook" -> Goes("receive")
            [] OTHER -> Goes("options")

\* Fields of another kind, times out of range; no key, no digest.
Sign == At("sign") /\ (Succeeds \/ Throws("invalid_argument") \/ Throws("authentication"))

\* ... and the constructor of LiveKitApi.
Options ==
  /\ At("options")
  /\ IF input.ask = "mistyped" THEN Throws("invalid_argument")
     ELSE \/ Goes("prepare")
          \/ Throws("invalid_argument") \/ Throws("authentication")
          \/ input.ask = "false" /\ Throws("transport")

\* The table of operations, the request and what it needs.
Dispatch ==
  /\ At("prepare")
  /\ IF input.operation = "unknown" THEN Throws("invalid_argument")
     ELSE \/ Goes(IF input.ask = "true" THEN "exchange" ELSE "send")
          \/ \E code \in {"invalid_argument", "authentication", "transport", "protocol"} :
               Throws(code)

\* The default transport (CurlTransport, WinHttpTransport).
Send ==
  /\ At("send")
  /\ \/ Succeeds
     \/ \E code \in {"invalid_argument", "transport", "protocol"} : Throws(code)
     \/ \E status \in {s \in Statuses : s \notin 200 .. 299} : Envelope("http", status)

Verify == Succeeds \/ Throws("authentication") \/ Throws("protocol")

\* The token's form is looked at before the host is asked for the secret.
Receive ==
  /\ At("receive")
  /\ IF input.ask = "mistyped" THEN Throws("invalid_argument")
     ELSE \/ Throws("invalid_argument") \/ Throws("authentication")
          \/ IF input.ask = "true" THEN Goes("exchange") ELSE Verify

Exchange ==
  /\ At("exchange")
  /\ IF ~input.callback THEN Throws("invalid_argument")
     ELSE Goes("host") \/ Throws("protocol")

\* Only the fields that will be looked at vary.
Callback ==
  /\ At("host")
  /\ \E a \in Answers :
       /\ a.kind = "object" => IF input.operation = "webhook"
                               THEN a.status_code = None /\ a.body = "mistyped"
                               ELSE a.secret = "mistyped"
       /\ answer' = a
  /\ pc' = "answered"
  /\ UNCHANGED <<response, http_status, output, length>>

-------------------------------------------------------------------------------
\* CallbackTransport::Send after the exchange, and what the RPC makes of it.
\* Mutant: the range of the status is not looked at.
ReadResponseAnyStatus ==
  IF answer.status_code = None \/ answer.body = "mistyped" THEN Throws("invalid_argument")
  ELSE IF answer.body = "junk" THEN Throws("authentication")
  ELSE IF answer.status_code \notin 200 .. 299 THEN Envelope("http", answer.status_code)
  ELSE IF answer.body = "other" THEN Throws("protocol")
  ELSE Succeeds

ReadResponse ==
  IF answer.status_code = None THEN Throws("invalid_argument")
  ELSE IF answer.status_code < 100 \/ answer.status_code > 599 THEN Throws("transport")
  ELSE IF answer.body = "mistyped" THEN Throws("invalid_argument")
  ELSE IF answer.body = "junk" THEN Throws("authentication")
  ELSE IF answer.status_code \notin 200 .. 299 THEN Envelope("http", answer.status_code)
  ELSE IF answer.body = "other" THEN Throws("protocol")
  ELSE Succeeds

\* The key provider of Receive, and the verification.
ReadSecret ==
  CASE answer.secret = "mistyped" -> Throws("invalid_argument")
    [] answer.secret = "right" -> Verify
    [] OTHER -> Throws("authentication")

Read == IF input.operation = "webhook" THEN ReadSecret ELSE ReadResponse

\* Mutant: what the callback returns is not looked at.
AnsweredWhateverReturned ==
  /\ At("answered")
  /\ CASE answer.kind = "throws" -> Throws("unknown")
       [] answer.kind \in {"null", "oversize"} -> Throws("transport")
       [] answer.kind = "nonzero" -> Succeeds
       [] answer.kind = "junk" -> Throws("invalid_argument")
       [] OTHER -> Read

Answered ==
  /\ At("answered")
  /\ CASE answer.kind = "throws" -> Throws("unknown")
       [] answer.kind \in {"nonzero", "null", "oversize"} -> Throws("transport")
       [] answer.kind = "junk" -> Throws("invalid_argument")
       [] answer.kind = "object" ->
            CASE answer.error = "mistyped" -> Throws("invalid_argument")
              [] answer.error = "true" -> Throws("transport")
              [] answer.error = "false" -> Read

OutOfMemory == pc \notin {"called", "host", "copy", "returned"} /\ UNCHANGED input
               /\ Throws("unknown")

\* NULL when the envelope cannot be made, encoded or copied.
Copy ==
  /\ At("copy")
  /\ pc' = "returned"
  /\ \/ output' = "null" /\ UNCHANGED length
     \/ output' = "envelope" /\ length' = 1
  /\ UNCHANGED <<answer, response, http_status>>

Returned == pc = "returned" /\ UNCHANGED vars

Next == \/ lks_invoke \/ Parse \/ Execute \/ Sign \/ Options \/ Dispatch \/ Send \/ Receive
        \/ Exchange \/ Callback \/ Answered \/ OutOfMemory \/ Copy \/ Returned

Spec == Init /\ [][Next]_vars

-------------------------------------------------------------------------------
TypeOK ==
  /\ input \in Inputs
  /\ pc \in {"called", "parse", "execute", "sign", "options", "prepare", "send", "receive",
             "exchange", "host", "answered", "copy", "returned"}
  /\ answer \in Answers \cup {None}
  /\ response \in {"none", "value"} \cup ErrorCode
  /\ http_status \in Statuses \cup {0}
  /\ output \in {"none", "null", "envelope"}
  /\ length \in {0, 1}

\* The host kept to docs/c-abi.md: it failed, or it answered what it was asked.
Failed == answer.kind # "object" \/ answer.error = "true"
Contract ==
  /\ answer.kind \in {"nonzero", "object"}
  /\ ~Failed => /\ answer.error = "false"
                /\ IF input.operation = "webhook" THEN answer.secret # "mistyped"
                   ELSE answer.status_code \in 100 .. 599 /\ answer.body \in {"reply", "other"}

\* Of the host's answer the call makes what it says: an RPC whose request went
\* out over a host's transport succeeds, or is refused, exactly when the server
\* did so, and is called invalid or unauthenticated, as if nothing had been
\* sent, only when the host broke the contract; and a broken answer is never a
\* success nor an answer of the server.  Memory may always run out.
HostAnswerDecides ==
  pc = "returned" /\ answer # None /\ response # "unknown" =>
    IF input.operation = "webhook"
    THEN response = "value" => Contract /\ ~Failed /\ answer.secret = "right"
    ELSE /\ response \in {"value", "protocol"} => Contract /\ ~Failed /\ answer.status_code \in 200 .. 299
         /\ response = "http" => Contract /\ ~Failed /\ http_status = answer.status_code
         /\ response \in {"invalid_argument", "authentication"} => ~Contract
         /\ Contract /\ Failed => response = "transport"

\* "NULL means native allocation/encoding failure; output_length is then zero",
\* and otherwise the length is told (c_api.h).
LengthTold ==
  pc = "returned" /\ input.output_length => (length = 0 <=> output = "null")

\* The envelope is what its pointer and its length say, and says of the call
\* what the host's answer makes of it.
EnvelopeTrue == HostAnswerDecides /\ LengthTold

\* What a host sees of the call: lks_invoke asks it at most once, on the way,
\* and returns no value once the callback failed.
Host == INSTANCE HostInvoke WITH
  Calls <- {Call},
  pc <- [c \in {Call} |-> CASE pc = "called" -> "leased"
                            [] pc = "host" -> "callback"
                            [] pc = "returned" -> "returned"
                            [] OTHER -> IF answer = None THEN "native" ELSE "resumed"],
  parent <- [c \in {Call} |-> None],
  failure <- [c \in {Call} |-> answer # None /\ answer.kind \in {"nonzero", "throws"}],
  result <- [c \in {Call} |-> CASE output = "none" -> "none"
                                [] output = "null" -> "null"
                                [] OTHER -> IF response = "value" THEN "value" ELSE "failure"],
  heap <- [c \in {Call} |-> IF output = "envelope" THEN "allocated" ELSE "none"],
  outcome <- [c \in {Call} |-> "none"]

ImplementsHostInvoke == [][Host!Work(Call)]_(Host!callVars)
================================================================================
