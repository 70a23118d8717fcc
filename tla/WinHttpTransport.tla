--------------------------- MODULE WinHttpTransport ---------------------------
(***************************************************************************)
(* The WinHTTP backend of HttpTransport (src/http_transport.cpp).  Threads *)
(* send concurrently; what they share is connections_, a map from host and *)
(* port to the connection handle, under connections_mutex_.  A connection  *)
(* once opened serves every later Send to its target and is closed by the  *)
(* destructor.  Each Send owns its request handle.                         *)
(*                                                                         *)
(* WinHTTP follows redirects on its own, over connections of its own: the  *)
(* transport leaves that at its default, and WinHttpReceiveResponse waits  *)
(* for the last response.                                                  *)
(*                                                                         *)
(* A response body is counted: length is the size of response.body.  Its   *)
(* end is where nothing more is available; how long the server meant it to *)
(* be nobody asks, so a connection closed early cuts a response short.     *)
(***************************************************************************)
EXTENDS Naturals

CONSTANTS Sends, None,
          Targets, Target,   \* host and port of the URL of each Send
          Handles,           \* connection handles WinHTTP may hand out
          MaxBody, MaxRedirects  \* WinHTTP follows up to ten

ConstantsFit == /\ None \notin Sends \cup Handles
                /\ Target \in [Sends -> Targets] /\ MaxBody \in Nat /\ MaxRedirects \in Nat

VARIABLES pc,          \* where each Send is
          alive,       \* the transport is not destroyed
          mutex,       \* connections_mutex_: the Send that holds it, or None
          cached,      \* connections_
          open,        \* the connection handles that are open
          leaked,      \* history: handles an allocation failure took from connections_
          connection,  \* the handle each Send works over
          requests,    \* the Sends whose request handle is open
          sent,        \* the requests that went out
          followed,    \* how many redirects WinHTTP followed for each Send
          arrived, length,   \* what has been read, the size of response.body
          outcome      \* what Send returned or threw

shared == <<alive, mutex, cached, open, leaked>>
reading == <<followed, arrived, length>>
vars == <<pc, shared, connection, requests, sent, reading, outcome>>

Init == /\ pc = [s \in Sends |-> "idle"]
        /\ alive = TRUE /\ mutex = None
        /\ cached = [t \in Targets |-> None] /\ open = {} /\ leaked = {}
        /\ connection = [s \in Sends |-> None]
        /\ requests = {} /\ sent = {}
        /\ followed = [s \in Sends |-> 0] /\ arrived = followed /\ length = followed
        /\ outcome = [s \in Sends |-> "none"]

Goto(s, from, to) == pc[s] = from /\ pc' = [pc EXCEPT ![s] = to]
Ends(s, with) == outcome' = [outcome EXCEPT ![s] = with]

-------------------------------------------------------------------------------
\* The URL must be UTF-8 and have a host and a scheme of HTTP.
Check(s) ==
  /\ alive
  /\ \/ Goto(s, "idle", "waiting") /\ UNCHANGED outcome
     \/ Goto(s, "idle", "returned") /\ Ends(s, "invalid_argument")
  /\ UNCHANGED <<shared, connection, requests, sent, reading>>

\* Mutant: the map is searched without the mutex.
LockWithoutWaiting(s) ==
  /\ Goto(s, "waiting", "searching")
  /\ mutex' = s
  /\ UNCHANGED <<alive, cached, open, leaked, connection, requests, sent, reading, outcome>>

Lock(s) ==
  /\ Goto(s, "waiting", "searching")
  /\ mutex = None /\ mutex' = s
  /\ UNCHANGED <<alive, cached, open, leaked, connection, requests, sent, reading, outcome>>

\* connections_.find
Find(s) ==
  LET found == cached[Target[s]]
  IN /\ IF found = None THEN Goto(s, "searching", "connecting") /\ UNCHANGED <<mutex, connection>>
        ELSE /\ Goto(s, "searching", "opening")
             /\ mutex' = None /\ connection' = [connection EXCEPT ![s] = found]
     /\ UNCHANGED <<alive, cached, open, leaked, requests, sent, reading, outcome>>

\* WinHttpConnect, and emplace, which leaves an entry that is there alone.
Connect(s) ==
  /\ Goto(s, "connecting", "opening")
  /\ \E h \in Handles \ open :
       /\ open' = open \cup {h}
       /\ cached' = [cached EXCEPT ![Target[s]] = IF @ = None THEN h ELSE @]
       /\ connection' = [connection EXCEPT ![s] = h]
  /\ mutex' = None
  /\ UNCHANGED <<alive, leaked, requests, sent, reading, outcome>>

\* Mutant: the exception of a failed WinHttpConnect leaves the mutex locked.
ConnectFailsLocked(s) ==
  /\ Goto(s, "connecting", "returned")
  /\ Ends(s, "transport_error")
  /\ UNCHANGED <<shared, connection, requests, sent, reading>>

ConnectFails(s) ==
  /\ Goto(s, "connecting", "returned")
  /\ Ends(s, "transport_error")
  /\ mutex' = None
  /\ UNCHANGED <<alive, cached, open, leaked, connection, requests, sent, reading>>

\* emplace cannot allocate: no one will close the new connection.
EmplaceThrows(s) ==
  /\ Goto(s, "connecting", "returned")
  /\ \E h \in Handles \ open : open' = open \cup {h} /\ leaked' = leaked \cup {h}
  /\ Ends(s, "bad_alloc")
  /\ mutex' = None
  /\ UNCHANGED <<alive, cached, connection, requests, sent, reading>>

-------------------------------------------------------------------------------
\* WinHttpOpenRequest
OpenRequest(s) ==
  /\ \/ Goto(s, "opening", "ready") /\ requests' = requests \cup {s} /\ UNCHANGED outcome
     \/ Goto(s, "opening", "returned") /\ Ends(s, "transport_error") /\ UNCHANGED requests
  /\ UNCHANGED <<shared, connection, sent, reading>>

\* The timeouts cannot be set, the headers are not UTF-8, or no request goes out.
PrepareFails(s) ==
  /\ Goto(s, "ready", "closing")
  /\ \E why \in {"transport_error", "invalid_argument"} : Ends(s, why)
  /\ UNCHANGED <<shared, connection, requests, sent, reading>>

\* WinHttpSendRequest
Transmit(s) ==
  /\ Goto(s, "ready", "sent")
  /\ sent' = sent \cup {s}
  /\ UNCHANGED <<shared, connection, requests, reading, outcome>>

\* WinHttpReceiveResponse: the response is a redirect, and WinHTTP sends
\* another request, the same or a GET, to where it points.
Redirect(s) ==
  /\ Goto(s, "sent", "sent")
  /\ followed[s] < MaxRedirects
  /\ followed' = [followed EXCEPT ![s] = @ + 1]
  /\ UNCHANGED <<shared, connection, requests, sent, arrived, length, outcome>>

\* The final response, and its status.
Receive(s) ==
  /\ Goto(s, "sent", "reading")
  /\ UNCHANGED <<shared, connection, requests, sent, reading, outcome>>

\* A chunk: the body grows by what is available and is cut to what was read.
\* Mutant: it is not cut.
ReadUncut(s) ==
  /\ Goto(s, "reading", "reading")
  /\ \E available \in 1 .. MaxBody - length[s] : \E received \in 0 .. available :
       /\ length' = [length EXCEPT ![s] = @ + available]
       /\ arrived' = [arrived EXCEPT ![s] = @ + received]
  /\ UNCHANGED <<shared, connection, requests, sent, followed, outcome>>

Read(s) ==
  /\ Goto(s, "reading", "reading")
  /\ \E available \in 1 .. MaxBody - length[s] : \E received \in 0 .. available :
       LET grown == length[s] + available
       IN /\ length' = [length EXCEPT ![s] = grown - (available - received)]
          /\ arrived' = [arrived EXCEPT ![s] = @ + received]
  /\ UNCHANGED <<shared, connection, requests, sent, followed, outcome>>

\* Nothing more is available: the body is complete, or the connection is gone.
ReadEnds(s) ==
  /\ Goto(s, "reading", "closing")
  /\ Ends(s, "response")
  /\ UNCHANGED <<shared, connection, requests, sent, reading>>

\* The transfer fails: a timeout, a lost connection, at any call.  The exception
\* drops what was read.
TransferFails(s) ==
  /\ \E from \in {"sent", "reading"} : Goto(s, from, "closing")
  /\ Ends(s, "transport_error")
  /\ arrived' = [arrived EXCEPT ![s] = 0] /\ length' = [length EXCEPT ![s] = 0]
  /\ UNCHANGED <<shared, connection, requests, sent, followed>>

\* ~InternetHandle of request_handle, on every path.
Close(s) ==
  /\ Goto(s, "closing", "returned")
  /\ requests' = requests \ {s}
  /\ UNCHANGED <<shared, connection, sent, reading, outcome>>

\* The last owner lets go of the transport; a client whose call is in Send
\* still owns it.
Destroy ==
  /\ alive /\ \A s \in Sends : pc[s] \in {"idle", "returned"}
  /\ alive' = FALSE
  /\ open' = open \ {cached[t] : t \in Targets}
  /\ UNCHANGED <<pc, mutex, cached, leaked, connection, requests, sent, reading, outcome>>

\* What a Send does without waiting for another one.
Continue(s) == \/ Find(s) \/ Connect(s) \/ ConnectFails(s) \/ EmplaceThrows(s)
               \/ OpenRequest(s) \/ PrepareFails(s) \/ Transmit(s) \/ Redirect(s)
               \/ Receive(s) \/ Read(s) \/ ReadEnds(s) \/ TransferFails(s) \/ Close(s)

Destroyed == ~alive /\ UNCHANGED vars

Next == \/ \E s \in Sends : Check(s) \/ Lock(s) \/ Continue(s)
        \/ Destroy \/ Destroyed

\* A thread in Send runs on; WinHttpSetTimeouts ends every call it waits in.
Fairness == \A s \in Sends : WF_vars(Lock(s)) /\ WF_vars(Continue(s))

Spec == Init /\ [][Next]_vars
FairSpec == Spec /\ Fairness

-------------------------------------------------------------------------------
\* However many threads connect at once, a target has one connection, every
\* Send to it works over that one, and it stays open for as long as one does.
OneConnection ==
  /\ \A s \in requests : connection[s] = cached[Target[s]] /\ connection[s] \in open
  /\ \A t, u \in Targets : cached[t] = cached[u] /\ cached[t] # None => t = u

\* The destructor leaves no handle open, of a connection or of a request, but
\* what an allocation failure took away.
HandlesClosed == ~alive => open = leaked /\ requests = {}

\* What is shared is kept: each connection is made once, and closed once.
ConnectionsKept == OneConnection /\ HandlesClosed

Transport == INSTANCE HttpTransport WITH
  Nothing <- None,
  answer <- [s \in Sends |-> IF pc[s] # "returned" THEN None
                             ELSE IF outcome[s] # "response" THEN "error"
                             ELSE IF length[s] = arrived[s] THEN s ELSE "padded"]

\* Concurrent Sends implement a transport of independent requests: each goes out
\* once, with the redirects WinHTTP follows after it, and the body of a response
\* is what was read of the last one, nothing left out and nothing after it.
\* Whether the server had more to say the code does not check, nor does this.
ImplementsTransport == Transport!Spec
================================================================================
