-------------------------- MODULE MCWebhookReceiver --------------------------
(* Instances of WebhookReceiver for TLC. *)
EXTENDS WebhookReceiver, TLC

\* Calls are interchangeable, and so are the event names.
CallSymmetry == Permutations(Calls) \cup Permutations(EventNames)
==============================================================================
