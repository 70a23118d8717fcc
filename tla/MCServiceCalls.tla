---------------------------- MODULE MCServiceCalls ----------------------------
(***************************************************************************)
(* Instances of ClientContext and of ServiceCalls above it for model       *)
(* checking: both speak of calls through the promise UnaryRpc, which the   *)
(* one implements and the other uses, and share nothing else.  A behaviour *)
(* is one of either module, the other's variables saying it never began.   *)
(***************************************************************************)
EXTENDS MCClientContext, Sequences

CONSTANTS Rooms, Blank, Nonces, Fresh, Dispatches

VARIABLES host, operation, asked, timeout, checked, token, step, wire,
          seen, verdict, filled, found, result

service_vars == <<host, operation, asked, timeout, checked, token, step, wire,
                  seen, verdict, filled, found, result>>

Services == INSTANCE ServiceCalls WITH pc <- step

NoService == /\ host = Blank /\ operation = Blank /\ asked = Blank /\ timeout = "fits"
             /\ checked = TRUE /\ token = FALSE /\ step = "ended" /\ wire = Blank
             /\ Services!Rpc!Init
             /\ found = <<>> /\ result = "none"

NoContext == /\ options = [url |-> None, given |-> {}, timeout_positive |-> FALSE, transport |-> None]
             /\ environment = [url |-> None, set |-> {}]
             /\ context = None /\ thrown = "invalid_argument"
             /\ pc = [c \in Calls |-> "idle"] /\ bearer = [c \in Calls |-> {}]
             /\ reply = [c \in Calls |-> None] /\ response = [c \in Calls |-> "untouched"]
             /\ outcome = [c \in Calls |-> "none"]
             /\ Transport!Init

ClientSpec ==
  /\ (Init /\ NoService) \/ (NoContext /\ Services!Init)
  /\ [][\/ Next /\ UNCHANGED service_vars
        \/ Services!Next /\ UNCHANGED vars]_<<vars, service_vars>>

\* The server sees what the caller asked for, with a token that fits
\* (ServiceCalls.tla).
SentAsAsked == Services!SentAsAsked
================================================================================
