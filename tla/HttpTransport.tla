----------------------------- MODULE HttpTransport -----------------------------
(***************************************************************************)
(* What HttpTransport::Send promises the RPC layer, whatever backend runs  *)
(* it and however many threads share it: a request goes out at most once,  *)
(* followed by the requests that redirects ask for if the backend follows  *)
(* them, and a Send that returns a response returns the final response to  *)
(* the last of its own.                                                    *)
(***************************************************************************)
EXTENDS Naturals

CONSTANTS Sends,        \* calls of Send
          Nothing,      \* no response
          MaxRedirects  \* how many redirects the backend follows

VARIABLES sent,      \* the requests that went out
          followed,  \* per Send: how many redirects were followed
          answer     \* per Send: Nothing, "error" or the Send it answers

vars == <<sent, followed, answer>>

Init == /\ sent = {} /\ followed = [s \in Sends |-> 0]
        /\ answer = [s \in Sends |-> Nothing]

Transmit(s) == /\ s \notin sent /\ answer[s] = Nothing
               /\ sent' = sent \cup {s}
               /\ UNCHANGED <<followed, answer>>

\* The server answers with a redirect: a request goes to where it points.
Redirect(s) == /\ s \in sent /\ answer[s] = Nothing
               /\ followed[s] < MaxRedirects
               /\ followed' = [followed EXCEPT ![s] = @ + 1]
               /\ UNCHANGED <<sent, answer>>

Respond(s) == /\ s \in sent /\ answer[s] = Nothing
              /\ answer' = [answer EXCEPT ![s] = s]
              /\ UNCHANGED <<sent, followed>>

Fail(s) == /\ answer[s] = Nothing
           /\ answer' = [answer EXCEPT ![s] = "error"]
           /\ UNCHANGED <<sent, followed>>

Next == \E s \in Sends : Transmit(s) \/ Redirect(s) \/ Respond(s) \/ Fail(s)

Spec == Init /\ [][Next]_vars
================================================================================
