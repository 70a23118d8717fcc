------------------------ MODULE MCWebhookVerification ------------------------
(***************************************************************************)
(* Instances of WebhookVerification for model checking: times at and next  *)
(* to every boundary, a leeway of 1; and of WebhookEvents, for the body    *)
(* that was verified.  A behaviour is one of them.                         *)
(***************************************************************************)
EXTENDS WebhookVerification, TLC

CONSTANTS EventTimes, MaxExact, Empty, Raw

VARIABLES event_body, event_stage, event

event_vars == <<event_body, event_stage, event>>

Boundaries == {-1, 1, 2, 3, 5}

\* At both ends of what a double holds exactly, with a digit and with more.
BoundaryTimes == {-12, -9, -8, 0, 8, 9, 10, 105}

Event == INSTANCE WebhookEvents WITH Times <- EventTimes, body <- event_body,
                                     stage <- event_stage

ASSUME EventAssumption == Event!TimesFit

NoEvent == event_body = <<>> /\ event_stage = "none" /\ event = <<>>

Webhooks_Init == /\ Init
                 /\ \/ NoEvent
                    \/ Event!Init /\ clock = 1 /\ secret = None

Webhooks ==
  /\ Webhooks_Init
  /\ [][\/ event_stage = "none" /\ Next /\ UNCHANGED event_vars
        \/ event_stage # "none" /\ Event!Next /\ UNCHANGED vars]_<<vars, event_vars>>

\* A handler is told what the server wrote (WebhookEvents.tla).
EventDelivered == Event!EventDelivered

Symmetry == Permutations(Secrets)
================================================================================
