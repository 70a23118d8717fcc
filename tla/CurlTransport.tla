----------------------------- MODULE CurlTransport -----------------------------
(***************************************************************************)
(* The libcurl backend of HttpTransport (src/detail/curl_transport.cpp):   *)
(* every Send shares one easy handle under mutex_.  libcurl borrows what   *)
(* the options point to: the header list, the body and the ResponseState   *)
(* of the Send that set them.  A later Send would reuse what an earlier    *)
(* one left behind, so each resets the handle before it sets its options   *)
(* and again, on every path, before it gives up the mutex.                 *)
(*                                                                         *)
(* An option holds the Send whose memory it points to, or None.  A         *)
(* response is a sequence of blocks, each begun by an "HTTP/" line:        *)
(* interim ones (100 Continue, a proxy's answer) and the final one.        *)
(***************************************************************************)
EXTENDS Naturals

CONSTANTS Sends, None, MaxBlocks

ASSUME SendAssumptions == None \notin Sends /\ MaxBlocks \in Nat \ {0}

VARIABLES pc,       \* where each Send is
          mutex,    \* mutex_: the Send that holds it, or None
          option,   \* what the options of the shared handle point to
          sent,     \* the requests that went out: who sent them, made of what
          block,    \* the response block libcurl is reading for a Send
          stored,   \* ResponseState::response: the blocks its lines are of
          failure,  \* ResponseState::failure
          code,     \* what curl_easy_perform returned
          outcome   \* what Send returned or threw

reading == <<sent, block, stored, failure, code>>
vars == <<pc, mutex, option, reading, outcome>>

\* The options that belong to one request.
RequestOptions == {"url", "httpheader", "postfields", "customrequest"}
ResponseOptions == {"writedata", "headerdata"}
Options == RequestOptions \cup ResponseOptions
\* libcurl copies the URL and the method; the rest it borrows.
Borrowed == Options \ {"url", "customrequest"}

Unset == [o \in Options |-> None]

Init == /\ pc = [s \in Sends |-> "idle"]
        /\ mutex = None
        /\ option = Unset
        /\ sent = {}
        /\ block = [s \in Sends |-> 0]
        /\ stored = [s \in Sends |-> {}]
        /\ failure = [s \in Sends |-> FALSE]
        /\ code = [s \in Sends |-> "none"]
        /\ outcome = [s \in Sends |-> "none"]

Goto(s, from, to) == pc[s] = from /\ pc' = [pc EXCEPT ![s] = to]
Ends(s, with) == outcome' = [outcome EXCEPT ![s] = with]

-------------------------------------------------------------------------------
\* Send checks the request and builds its header list; what it cannot send it
\* rejects before it takes the mutex.
Check(s) ==
  /\ \/ Goto(s, "idle", "waiting") /\ UNCHANGED outcome
     \/ /\ Goto(s, "idle", "returned")
        /\ \E why \in {"invalid_argument", "bad_alloc"} : Ends(s, why)
  /\ UNCHANGED <<mutex, option, reading>>

\* Mutant: the handle is used without waiting for the mutex.
LockWithoutWaiting(s) ==
  /\ Goto(s, "waiting", "locked")
  /\ mutex' = s
  /\ UNCHANGED <<option, reading, outcome>>

Lock(s) ==
  /\ Goto(s, "waiting", "locked")
  /\ mutex = None
  /\ mutex' = s
  /\ UNCHANGED <<option, reading, outcome>>

ResetFirst(s) ==
  /\ Goto(s, "locked", "requesting")
  /\ option' = Unset
  /\ UNCHANGED <<mutex, reading, outcome>>

Set(s, options) ==
  option' = [o \in Options |-> IF o \in options THEN s ELSE option[o]]

SetRequest(s) ==
  /\ Goto(s, "requesting", "receiving")
  /\ Set(s, RequestOptions)
  /\ UNCHANGED <<mutex, reading, outcome>>

SetResponse(s) ==
  /\ Goto(s, "receiving", "ready")
  /\ Set(s, ResponseOptions)
  /\ UNCHANGED <<mutex, reading, outcome>>

\* A curl_easy_setopt fails: only some of the options are set (in the code the
\* first few; nothing here depends on which).
\* Mutant: the exception leaves without the guard that resets the handle.
SetOptionThrowsUnguarded(s) ==
  /\ \/ /\ Goto(s, "requesting", "unlocking")
        /\ \E some \in SUBSET RequestOptions : Set(s, some)
     \/ /\ Goto(s, "receiving", "unlocking")
        /\ \E some \in SUBSET ResponseOptions : Set(s, some)
  /\ Ends(s, "transport_error")
  /\ UNCHANGED <<mutex, reading>>

SetOptionThrows(s) ==
  /\ \/ /\ Goto(s, "requesting", "resetting")
        /\ \E some \in SUBSET RequestOptions : Set(s, some)
     \/ /\ Goto(s, "receiving", "resetting")
        /\ \E some \in SUBSET ResponseOptions : Set(s, some)
  /\ Ends(s, "transport_error")
  /\ UNCHANGED <<mutex, reading>>

-------------------------------------------------------------------------------
\* curl_easy_perform

\* The request goes out, made of what the options point to by now.
Transmit(s) ==
  /\ Goto(s, "ready", "performing")
  /\ sent' = sent \cup {[by |-> s, of |-> {option[o] : o \in RequestOptions}]}
  /\ UNCHANGED <<mutex, option, block, stored, failure, code, outcome>>

\* Header and Body store what they get in the ResponseState they are given.
Sink == option["headerdata"]
Receives(s) == pc[s] = "performing" /\ Sink # None /\ ~failure[Sink]

\* Header of an "HTTP/" line: another block begins, the headers of the earlier
\* one are dropped (a body it never had: libcurl delivers that of the last only).
\* Mutant: the headers of interim responses are kept.
StatusLineAppends(s) ==
  /\ Receives(s) /\ block[s] < MaxBlocks
  /\ block' = [block EXCEPT ![s] = @ + 1]
  /\ UNCHANGED <<pc, mutex, option, sent, stored, failure, code, outcome>>

StatusLine(s) ==
  /\ Receives(s) /\ block[s] < MaxBlocks
  /\ block' = [block EXCEPT ![s] = @ + 1]
  /\ stored' = [stored EXCEPT ![Sink] = {}]
  /\ UNCHANGED <<pc, mutex, option, sent, failure, code, outcome>>

Store(s) ==
  /\ Receives(s) /\ block[s] > 0
  /\ stored' = [stored EXCEPT ![Sink] = @ \cup {<<s, block[s]>>}]
  /\ UNCHANGED <<pc, mutex, option, sent, block, failure, code, outcome>>

\* An allocation in Header or Body fails: the exception is kept, and libcurl
\* told to stop.
StoreThrows(s) ==
  /\ Receives(s) /\ block[s] > 0
  /\ failure' = [failure EXCEPT ![Sink] = TRUE]
  /\ UNCHANGED <<pc, mutex, option, sent, block, stored, code, outcome>>

\* The transfer ends: complete, or with an error (a timeout, a lost
\* connection, a callback that stopped it), also before the request is out.
PerformEnds(s) ==
  /\ \/ /\ Goto(s, "ready", "performed") /\ code' = [code EXCEPT ![s] = "error"]
     \/ /\ Goto(s, "performing", "performed")
        /\ \E c \in {"ok", "error"} :
             /\ c = "ok" => Receives(s) /\ block[s] > 0
             /\ code' = [code EXCEPT ![s] = c]
  /\ UNCHANGED <<mutex, option, sent, block, stored, failure, outcome>>

-------------------------------------------------------------------------------
\* A kept exception is rethrown, then the code of the transfer is looked at;
\* reading the status can fail too.
\* Mutant: the code of the transfer is looked at first.
JudgeCodeFirst(s) ==
  /\ Goto(s, "performed", "resetting")
  /\ \/ code[s] = "error" /\ Ends(s, "transport_error")
     \/ failure[s] /\ code[s] = "ok" /\ Ends(s, "callback_failure")
     \/ /\ ~failure[s] /\ code[s] = "ok"
        /\ \E getinfo \in {"response", "transport_error"} : Ends(s, getinfo)
  /\ UNCHANGED <<mutex, option, reading>>

Judge(s) ==
  /\ Goto(s, "performed", "resetting")
  /\ \/ failure[s] /\ Ends(s, "callback_failure")
     \/ ~failure[s] /\ code[s] = "error" /\ Ends(s, "transport_error")
     \/ /\ ~failure[s] /\ code[s] = "ok"
        /\ \E getinfo \in {"response", "transport_error"} : Ends(s, getinfo)
  /\ UNCHANGED <<mutex, option, reading>>

\* ~Reset runs before ~lock_guard, on every path.
ResetLast(s) ==
  /\ Goto(s, "resetting", "unlocking")
  /\ option' = Unset
  /\ UNCHANGED <<mutex, reading, outcome>>

Unlock(s) ==
  /\ Goto(s, "unlocking", "returned")
  /\ mutex' = None
  /\ UNCHANGED <<option, reading, outcome>>

\* Once it holds the mutex a Send needs no one but the server.
Continue(s) == \/ ResetFirst(s) \/ SetRequest(s) \/ SetResponse(s) \/ SetOptionThrows(s)
               \/ Transmit(s) \/ StatusLine(s) \/ Store(s) \/ StoreThrows(s)
               \/ PerformEnds(s) \/ Judge(s) \/ ResetLast(s) \/ Unlock(s)

AllReturned == (\A s \in Sends : pc[s] = "returned") /\ UNCHANGED vars

Next == \/ \E s \in Sends : Check(s) \/ Lock(s) \/ Continue(s)
        \/ AllReturned

\* A thread that calls Send runs on; CURLOPT_TIMEOUT_MS ends every transfer.
Fairness == \A s \in Sends : /\ WF_vars(Lock(s)) /\ WF_vars(Continue(s))
                             /\ WF_vars(PerformEnds(s))

Spec == Init /\ [][Next]_vars
FairSpec == Spec /\ Fairness

-------------------------------------------------------------------------------
Codes == {"none", "ok", "error"}
Outcomes == {"none", "invalid_argument", "bad_alloc", "transport_error",
             "callback_failure", "response"}

\* While a Send is there its memory is: the requests and states libcurl borrows.
Borrowable(s) == pc[s] \in {"requesting", "receiving", "ready", "performing", "performed",
                            "resetting"}

TypeOK ==
  /\ pc \in [Sends -> {"idle", "waiting", "locked", "requesting", "receiving", "ready", "performing",
                       "performed", "resetting", "unlocking", "returned"}]
  /\ mutex \in Sends \cup {None}
  /\ option \in [Options -> Sends \cup {None}]
  /\ sent \subseteq [by : Sends, of : SUBSET (Sends \cup {None})]
  /\ block \in [Sends -> 0 .. MaxBlocks]
  /\ stored \in [Sends -> SUBSET (Sends \X (1 .. MaxBlocks))]
  /\ failure \in [Sends -> BOOLEAN]
  /\ code \in [Sends -> Codes]
  /\ outcome \in [Sends -> Outcomes]

\* "Drop borrowed request/response pointers before their buffers leave scope,
\* including on exceptions": the shared handle never points into a Send whose
\* buffers are gone.
NoDanglingOption == \A o \in Borrowed : option[o] # None => Borrowable(option[o])

\* A Send that returns a response returns lines of the final block of its own
\* transfer, none of an interim response and none of another Send's.
FinalResponseOnly == \A s \in Sends :
  pc[s] = "returned" /\ outcome[s] = "response" => stored[s] \subseteq {<<s, block[s]>>}

\* What a callback could not store is what Send throws, not the write error
\* libcurl makes of it.
CallbackFailureWins == \A s \in Sends :
  pc[s] = "returned" /\ failure[s] => outcome[s] = "callback_failure"

\* The shared handle keeps what a transport promises to each of its callers.
Returned(s) ==
  IF pc[s] # "returned" THEN None
  ELSE IF outcome[s] # "response" THEN "error"
  ELSE IF stored[s] \subseteq {<<s, block[s]>>} THEN s
  ELSE "mixed"

RequestOf(m) == IF m.of = {m.by} THEN m.by ELSE "mixed"

\* No redirect is followed: CURLOPT_FOLLOWLOCATION is off.
Transport == INSTANCE HttpTransport WITH
  Nothing <- None, MaxRedirects <- 0, followed <- [s \in Sends |-> 0],
  sent <- {RequestOf(m) : m \in sent},
  answer <- [s \in Sends |-> Returned(s)]

\* Sharing one handle between threads implements a transport of independent
\* requests: sent at most once, made of one request, answered by its own
\* response.
ImplementsTransport == Transport!Spec
================================================================================
