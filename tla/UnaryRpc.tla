------------------------------- MODULE UnaryRpc -------------------------------
(***************************************************************************)
(* What an application may conclude from a call of a service client: the   *)
(* server saw the request at most once; a call that succeeds hands over    *)
(* the answer to its own request; one that is refused was refused by the   *)
(* server; one that is rejected never reached it; and of one that failed   *)
(* nothing is known.  Only a success fills in the caller's response.       *)
(***************************************************************************)
CONSTANT Calls

VARIABLES seen,      \* the calls whose request the server saw
          verdict,   \* how each call ended, "pending" before
          filled     \* the calls whose response object holds an answer

vars == <<seen, verdict, filled>>

Init == /\ seen = {}
        /\ verdict = [c \in Calls |-> "pending"]
        /\ filled = {}

Serve(c) == /\ verdict[c] = "pending" /\ c \notin seen
            /\ seen' = seen \cup {c}
            /\ UNCHANGED <<verdict, filled>>

End(c, how) == /\ verdict[c] = "pending"
               /\ verdict' = [verdict EXCEPT ![c] = how]
               /\ UNCHANGED seen

Answer(c) == c \in seen /\ End(c, "answered") /\ filled' = filled \cup {c}
Refuse(c) == c \in seen /\ End(c, "refused") /\ UNCHANGED filled
Reject(c) == c \notin seen /\ End(c, "rejected") /\ UNCHANGED filled
Fail(c)   == End(c, "failed") /\ UNCHANGED filled

Next == \E c \in Calls : Serve(c) \/ Answer(c) \/ Refuse(c) \/ Reject(c) \/ Fail(c)

Spec == Init /\ [][Next]_vars
================================================================================
