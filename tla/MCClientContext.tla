---------------------------- MODULE MCClientContext ----------------------------
(***************************************************************************)
(* Instances of ClientContext for model checking: every combination of     *)
(* options and variables, with a URL of each kind the code tells apart.    *)
(***************************************************************************)
EXTENDS ClientContext, TLC

UrlOf(scheme, lower, host) == [scheme |-> scheme, lower |-> lower, host |-> host]

AllKinds == {UrlOf("https", TRUE, TRUE), UrlOf("http", FALSE, TRUE), UrlOf("wss", FALSE, TRUE),
             UrlOf("ws", TRUE, FALSE), UrlOf("other", TRUE, TRUE)}

Symmetry == Permutations(Calls)
================================================================================
