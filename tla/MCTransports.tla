------------------------------ MODULE MCTransports ------------------------------
(***************************************************************************)
(* Instances of CurlTransport and WinHttpTransport for TLC.  A build has   *)
(* one of them: a behaviour is one of the one module, while the other is   *)
(* in its initial state, where no Send has begun and fairness asks for     *)
(* nothing.                                                                *)
(***************************************************************************)
EXTENDS CurlTransport

CONSTANTS Targets, Target, Handles, MaxBody, MaxRedirects,  \* of WinHttpTransport
          s1, s2, s3, near, far

VARIABLES backend,
          win_pc, alive, win_mutex, cached, open, leaked, connection, requests, win_sent,
          followed, arrived, length, win_outcome

\* Two Sends to one target, the third to another one.
TargetOf == [s \in Sends |-> IF s = s3 THEN far ELSE near]

Win == INSTANCE WinHttpTransport WITH
  pc <- win_pc, mutex <- win_mutex, sent <- win_sent, outcome <- win_outcome

winVars == <<win_pc, alive, win_mutex, cached, open, leaked, connection, requests, win_sent,
             followed, arrived, length, win_outcome>>

ASSUME WinAssumption == Win!ConstantsFit

Transports_Init == backend \in {"libcurl", "winhttp"} /\ Init /\ Win!Init

Transports ==
  /\ Transports_Init
  /\ [][/\ UNCHANGED backend
        /\ \/ backend = "libcurl" /\ Next /\ UNCHANGED winVars
           \/ backend = "winhttp" /\ Win!Next /\ UNCHANGED vars]_<<backend, vars, winVars>>
  /\ Fairness /\ Win!Fairness

-------------------------------------------------------------------------------
\* However many threads connect at once, a target has one connection, which
\* stays open for as long as a Send works over it, and the destructor leaves no
\* handle open (WinHttpTransport.tla).
ConnectionsKept == Win!ConnectionsKept

\* Concurrent Sends over WinHTTP implement a transport of independent requests
\* that follows redirects and returns what could be read (WinHttpTransport.tla).
WinImplementsTransport == Win!ImplementsTransport

\* Every Send ends, on either backend: no path through another one, failing or
\* not, keeps the mutex it waits for.
EverySendReturns == \A s \in Sends :
  (pc[s] = "waiting" \/ win_pc[s] = "waiting") ~> (pc[s] = "returned" \/ win_pc[s] = "returned")
================================================================================
