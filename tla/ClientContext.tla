---------------------------- MODULE ClientContext ----------------------------
(***************************************************************************)
(* The RPC layer below every service client (src/detail/client_context.cpp)*)
(* as a build with libcurl has it: the constructor takes the URL, the      *)
(* credentials and the transport from the options and the environment;     *)
(* then threads Call over the shared transport, of which only the promise  *)
(* HttpTransport is used.                                                  *)
(*                                                                         *)
(* A credential is what it came from, "options" or "environment", or None  *)
(* when it is the empty string; of a URL only what decides who accepts it  *)
(* is kept.                                                                *)
(***************************************************************************)
CONSTANTS Calls, None,
          Urls      \* the URLs the options and LIVEKIT_URL may have

ASSUME CallAssumption == None \notin Calls
ASSUME UrlAssumption ==
  /\ Urls \subseteq [scheme : {"http", "https", "ws", "wss", "other"}, lower : BOOLEAN,
                     host : BOOLEAN]
  /\ None \notin Urls

VARIABLES options,      \* ApiOptions
          environment,  \* the LIVEKIT_* variables
          context,      \* the ClientContext, None while there is none
          thrown,       \* what its constructor threw
          pc,           \* where each Call is
          bearer,       \* the Authorization of its request
          reply,        \* the HTTP response to it
          response,     \* what the caller's response object holds
          outcome,      \* how the Call ended
          sent, answer  \* the transport

configured == <<options, environment, context, thrown>>
transport == <<sent, answer>>
calls == <<pc, bearer, reply, response, outcome>>
vars == <<configured, calls, transport>>

\* libcurl follows no redirects; what the transport of a host does is its own.
Transport == INSTANCE HttpTransport WITH
  Sends <- Calls, Nothing <- None, MaxRedirects <- 0, followed <- [c \in Calls |-> 0]

Credentials == {"access_token", "api_key", "api_secret"}
Origins == {"options", "environment"}

\* An empty option or variable is one that is not there.
ApiOptions == [url : Urls \cup {None}, given : SUBSET Credentials,
               timeout_positive : BOOLEAN, transport : {None, "host"}]
Environments == [url : Urls \cup {None}, set : SUBSET Credentials]

Init == /\ options \in ApiOptions
        /\ environment \in Environments
        /\ context = None /\ thrown = "none"
        /\ pc = [c \in Calls |-> "idle"]
        /\ bearer = [c \in Calls |-> {}]
        /\ reply = [c \in Calls |-> None]
        /\ response = [c \in Calls |-> "untouched"]
        /\ outcome = [c \in Calls |-> "none"]
        /\ Transport!Init

-------------------------------------------------------------------------------
\* The constructor

Url == IF options.url = None THEN environment.url ELSE options.url

\* ws and wss become http and https, in lower case; http and https are left as
\* they are spelled.  Of a URL without a host the slashes go, the "//" too.
NormalizeUrl(url) ==
  IF url.scheme = "ws" THEN [url EXCEPT !.scheme = "http", !.lower = TRUE]
  ELSE IF url.scheme = "wss" THEN [url EXCEPT !.scheme = "https", !.lower = TRUE]
  ELSE url

Given(origin, some) == [k \in Credentials |-> IF k \in some THEN origin ELSE None]

\* Mutant: every empty option falls back on its variable.
ResolveEach == [k \in Credentials |-> IF k \in options.given THEN "options"
                                      ELSE IF k \in environment.set THEN "environment" ELSE None]

\* Any credential in the options rules out the environment; there a token
\* rules out the key and the secret.
Resolve == IF options.given # {} THEN Given("options", options.given)
           ELSE IF "access_token" \in environment.set
                THEN Given("environment", {"access_token"})
           ELSE Given("environment", environment.set)

\* Mutant: a key without a secret will do.
CompleteWithKey(credential) ==
  credential["access_token"] # None \/ credential["api_key"] # None

Complete(credential) ==
  \/ credential["access_token"] # None
  \/ credential["api_key"] # None /\ credential["api_secret"] # None

Throws(why) == thrown' = why /\ UNCHANGED <<options, environment, context, calls, transport>>

\* libcurl cannot be had when CreateDefaultHttpTransport throws.
Construct ==
  /\ context = None /\ thrown = "none"
  /\ IF Url = None THEN Throws("invalid_argument")
     ELSE IF Url.scheme = "other" THEN Throws("invalid_argument")
     ELSE IF ~Complete(Resolve) THEN Throws("authentication")
     ELSE IF ~options.timeout_positive THEN Throws("invalid_argument")
     ELSE \/ options.transport = None /\ Throws("transport")
          \/ /\ context' = [url |-> NormalizeUrl(Url), credential |-> Resolve,
                            transport |-> IF options.transport = None THEN "libcurl" ELSE "host"]
             /\ UNCHANGED <<options, environment, thrown, calls, transport>>

-------------------------------------------------------------------------------
\* A Call, its outcome "ok", the code of the Error it throws or "bad_alloc"

Goto(c, from, to) == pc[c] = from /\ pc' = [pc EXCEPT ![c] = to]
Ends(c, how) == outcome' = [outcome EXCEPT ![c] = how]

\* Of what the credentials of the context make a token: TokenFor takes the
\* access token or signs with the key and the secret.
TokenParts == IF context.credential["access_token"] # None
              THEN {context.credential["access_token"]}
              ELSE {context.credential["api_key"], context.credential["api_secret"]}

\* A null response is refused first; then the token, the request id or the
\* body cannot be made; else the request is ready.
Prepare(c) ==
  /\ context # None
  /\ \/ /\ Goto(c, "idle", "sending")
        /\ None \notin TokenParts
        /\ bearer' = [bearer EXCEPT ![c] = TokenParts]
        /\ UNCHANGED outcome
     \/ /\ Goto(c, "idle", "ended")
        /\ \E why \in {"invalid_argument", "transport", "protocol", "bad_alloc"} \cup
                      (IF None \in TokenParts THEN {"authentication"} ELSE {}) : Ends(c, why)
        /\ UNCHANGED bearer
  /\ UNCHANGED <<configured, transport, reply, response>>

\* CurlTransport::Send takes a URL that starts with "http://" or "https://".
Sendable(url) == url.lower /\ url.host

Transmit(c) ==
  /\ pc[c] = "sending"
  /\ context.transport = "libcurl" => Sendable(context.url)
  /\ Transport!Transmit(c)
  /\ UNCHANGED <<configured, calls>>

\* Send throws: CurlTransport rejects a URL or a header before it sends
\* anything; the transport of a host (CallbackTransport) may send and then
\* find the answer malformed.
SendThrows(c) ==
  /\ Goto(c, "sending", "ended")
  /\ Transport!Fail(c)
  /\ IF context.transport = "host"
     THEN \E why \in {"transport", "invalid_argument", "authentication", "bad_alloc"} : Ends(c, why)
     ELSE IF ~Sendable(context.url) THEN Ends(c, "invalid_argument")
     ELSE \/ c \notin sent /\ Ends(c, "invalid_argument")
          \/ \E why \in {"transport", "bad_alloc"} : Ends(c, why)
  /\ UNCHANGED <<configured, bearer, reply, response>>

Replies == [ok : BOOLEAN, parses : BOOLEAN]

Respond(c) ==
  /\ Goto(c, "sending", "answered")
  /\ Transport!Respond(c)
  /\ \E r \in Replies : reply' = [reply EXCEPT ![c] = r]
  /\ UNCHANGED <<configured, bearer, response, outcome>>

Parse(c) == response' = [response EXCEPT ![c] = IF reply[c].parses THEN "answer" ELSE "partial"]

\* Mutant: the response is parsed into before the status is looked at.
JudgeBodyFirst(c) ==
  /\ Goto(c, "answered", "ended")
  /\ Parse(c)
  /\ IF ~reply[c].parses THEN Ends(c, "protocol")
     ELSE IF ~reply[c].ok THEN Ends(c, "http") ELSE Ends(c, "ok")
  /\ UNCHANGED <<configured, transport, bearer, reply>>

\* Mutant: an answer that does not parse is an invalid argument.
JudgeBlamesCaller(c) ==
  /\ Goto(c, "answered", "ended")
  /\ IF ~reply[c].ok THEN Ends(c, "http") /\ UNCHANGED response
     ELSE Parse(c) /\ Ends(c, IF reply[c].parses THEN "ok" ELSE "invalid_argument")
  /\ UNCHANGED <<configured, transport, bearer, reply>>

Judge(c) ==
  /\ Goto(c, "answered", "ended")
  /\ IF ~reply[c].ok THEN Ends(c, "http") /\ UNCHANGED response
     ELSE Parse(c) /\ Ends(c, IF reply[c].parses THEN "ok" ELSE "protocol")
  /\ UNCHANGED <<configured, transport, bearer, reply>>

Done == /\ thrown # "none" \/ \A c \in Calls : pc[c] = "ended"
        /\ UNCHANGED vars

Next == \/ Construct
        \/ \E c \in Calls : Prepare(c) \/ Transmit(c) \/ SendThrows(c) \/ Respond(c) \/ Judge(c)
        \/ Done

Spec == Init /\ [][Next]_vars

-------------------------------------------------------------------------------
Contexts == [url : [scheme : {"http", "https"}, lower : BOOLEAN, host : BOOLEAN],
             credential : [Credentials -> Origins \cup {None}],
             transport : {"libcurl", "host"}]

TypeOK ==
  /\ options \in ApiOptions /\ environment \in Environments
  /\ context \in Contexts \cup {None}
  /\ thrown \in {"none", "invalid_argument", "authentication", "transport"}
  /\ pc \in [Calls -> {"idle", "sending", "answered", "ended"}]
  /\ bearer \in [Calls -> SUBSET Origins]
  /\ reply \in [Calls -> Replies \cup {None}]
  /\ response \in [Calls -> {"untouched", "partial", "answer"}]
  /\ outcome \in [Calls -> {"none", "ok", "invalid_argument", "authentication", "transport",
                            "http", "protocol", "bad_alloc"}]
  /\ sent \subseteq Calls
  /\ answer \in [Calls -> Calls \cup {None, "error"}]

\* "Explicit credentials always take precedence over environment credentials":
\* a request that went out bears credentials of one origin, the options when
\* they gave any.
ExplicitCredentials == \A c \in sent :
  bearer[c] = {IF options.given # {} THEN "options" ELSE "environment"}

\* What the constructor let pass is enough to make a token: a Call over
\* libcurl never fails for want of credentials.
NoLateAuthentication == \A c \in Calls :
  outcome[c] = "authentication" => context.transport = "host"

\* Over libcurl a Call that ends with invalid_argument never reached the
\* server: to correct it and call again is safe.
RejectedUnsent == \A c \in Calls :
  outcome[c] = "invalid_argument" /\ context.transport = "libcurl" => c \notin sent

Verdict(c) ==
  IF pc[c] # "ended" THEN "pending"
  ELSE IF outcome[c] = "ok" THEN IF answer[c] = c THEN "answered" ELSE "mixed"
  ELSE IF outcome[c] = "http" THEN "refused"
  ELSE IF outcome[c] \in {"invalid_argument", "authentication"} /\ c \notin sent THEN "rejected"
  ELSE "failed"

Rpc == INSTANCE UnaryRpc WITH
  seen <- sent,
  verdict <- [c \in Calls |-> Verdict(c)],
  filled <- {c \in Calls : response[c] = "answer"}

\* Calls over a shared transport implement unary RPCs: each seen at most once,
\* answered by its own answer, and the caller's response filled in by a
\* success alone.
ImplementsRpc == Rpc!Spec

\* "LIVEKIT_API_KEY, and LIVEKIT_API_SECRET are used when the corresponding
\* options are omitted": with each of the two in the options or in its
\* variable, the constructor does not ask for credentials.
EnvironmentFillsIn ==
  (\A k \in {"api_key", "api_secret"} : k \in options.given \cup environment.set)
    => thrown # "authentication"

\* "LiveKit URL must use http, https, ws, or wss": a URL that passes this check
\* is one the default transport can send to.
AcceptedUrlSendable ==
  context # None /\ context.transport = "libcurl" => Sendable(context.url)
================================================================================
