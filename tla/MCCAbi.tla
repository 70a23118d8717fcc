-------------------------------- MODULE MCCAbi --------------------------------
(* One call of lks_invoke (CAbi.tla); MCBindingCalls has TLC run it. *)
CONSTANTS NativeCall, NoAnswer

VARIABLES input, abi_pc, answer, response, http_status, output, length

Abi == INSTANCE CAbi WITH Call <- NativeCall, None <- NoAnswer, pc <- abi_pc

ASSUME NoAnswerIsDistinct == Abi!NoneIsDistinct

-------------------------------------------------------------------------------
\* The envelope is what its pointer and its length say, and says of the call
\* what the host's answer makes of it (CAbi.tla).
EnvelopeTrue == Abi!EnvelopeTrue

\* What a host sees of lks_invoke is the Work of HostInvoke: it asks the host at
\* most once, on the way, and returns no value once the callback failed.
ImplementsHostInvoke == Abi!ImplementsHostInvoke
===============================================================================
