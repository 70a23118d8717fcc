------------------------------ MODULE HostInvoke ------------------------------
(***************************************************************************)
(* The life of a call of lks_invoke (src/c_api.cpp) as the host bindings   *)
(* make it: take a lease of the module, encode the input, run the native   *)
(* call, which may call the host back, decode or discard the result, free  *)
(* it and give the lease back.  What a lease is differs by binding: the    *)
(* actions here say what happens to the call, the modules NativeLibrary    *)
(* (Zig) and NativeServer (.NET) what happens to the module.               *)
(*                                                                         *)
(* Callbacks run on the calling thread and may invoke again: parent[c] is  *)
(* the call whose callback made the call c, None for a top-level call.     *)
(***************************************************************************)
EXTENDS FiniteSets

CONSTANTS Calls, None

ASSUME NoneIsNoCall == None \notin Calls
ASSUME CallsAreFinite == IsFiniteSet(Calls)

VARIABLES pc,       \* where each call is
          parent,   \* the call whose callback made it
          failure,  \* the host callback of the call failed
          result,   \* what lks_invoke returned
          heap,     \* the native result: "none", "allocated" or "freed"
          outcome   \* what the application gets

callVars == <<pc, parent, failure, result, heap, outcome>>

Results == {"none", "null", "value", "failure"}
Outcomes == {"none", "value", "sdk_error", "host_error", "allocation_error",
             "encoding_error", "decoding_error", "disposed"}

CallInit == /\ pc = [c \in Calls |-> "idle"]
            /\ parent = [c \in Calls |-> None]
            /\ failure = [c \in Calls |-> FALSE]
            /\ result = [c \in Calls |-> "none"]
            /\ heap = [c \in Calls |-> "none"]
            /\ outcome = [c \in Calls |-> "none"]

CallTypeOK ==
  /\ pc \in [Calls -> {"idle", "entered", "leased", "native", "callback", "resumed",
                       "returned", "free", "unlease", "ended"}]
  /\ parent \in [Calls -> Calls \cup {None}]
  /\ failure \in [Calls -> BOOLEAN]
  /\ result \in [Calls -> Results]
  /\ heap \in [Calls -> {"none", "allocated", "freed"}]
  /\ outcome \in [Calls -> Outcomes]

-------------------------------------------------------------------------------
Active(c) == pc[c] \notin {"idle", "ended"}
Resumable(c) == \A d \in Calls : parent[d] = c => ~Active(d)

Goto(c, from, to) == /\ pc[c] = from
                     /\ pc' = [pc EXCEPT ![c] = to]

\* A thread, or a callback that is running, makes the call.
Enter(c, p) ==
  /\ Goto(c, "idle", "entered")
  /\ p = None \/ (p \in Calls /\ pc[p] = "callback" /\ Resumable(p))
  /\ parent' = [parent EXCEPT ![c] = p]
  /\ UNCHANGED <<failure, result, heap, outcome>>

TakeLease(c) ==
  /\ Goto(c, "entered", "leased")
  /\ UNCHANGED <<parent, failure, result, heap, outcome>>

\* Encoding the input fails: nothing native ran, the lease goes back.
\* Mutant: the error leaves before the lease is in a finally of its own.
EncodingFailsLeaky(c) ==
  /\ Goto(c, "leased", "ended")
  /\ outcome' = [outcome EXCEPT ![c] = "encoding_error"]
  /\ UNCHANGED <<parent, failure, result, heap>>

EncodingFails(c) ==
  /\ Goto(c, "leased", "unlease")
  /\ outcome' = [outcome EXCEPT ![c] = "encoding_error"]
  /\ UNCHANGED <<parent, failure, result, heap>>

CallNative(c) ==
  /\ Goto(c, "leased", "native")
  /\ UNCHANGED <<parent, failure, result, heap, outcome>>

\* The native operation needs the host's transport or key provider; it asks
\* once (CallbackTransport::Send or the key provider of Receive).
CallBack(c) ==
  /\ Goto(c, "native", "callback")
  /\ UNCHANGED <<parent, failure, result, heap, outcome>>

\* The callback answers, or fails: its error is kept and the native side told.
CallbackReturns(c, failed) ==
  /\ Goto(c, "callback", "resumed")
  /\ Resumable(c)
  /\ failure' = [failure EXCEPT ![c] = failed]
  /\ UNCHANGED <<parent, result, heap, outcome>>

\* lks_invoke returns an envelope, or NULL when it cannot allocate or encode
\* it.  A failed callback is an error of the native operation.
NativeReturns(c, r) ==
  /\ \/ Goto(c, "native", "returned")
     \/ Goto(c, "resumed", "returned") /\ (failure[c] => r # "value")
  /\ result' = [result EXCEPT ![c] = r]
  /\ heap' = [heap EXCEPT ![c] = IF r = "null" THEN "none" ELSE "allocated"]
  /\ UNCHANGED <<parent, failure, outcome>>

\* What the envelope says; reading it can fail (decodes = FALSE).
Decoded(c, decodes) == IF ~decodes THEN "decoding_error"
                       ELSE IF result[c] = "value" THEN "value" ELSE "sdk_error"

\* The host's own error comes first, then a missing result, then the envelope.
\* Mutant: the missing result is looked at before the host's error.
AnswerNullFirst(c, decodes) == IF result[c] = "null" THEN "allocation_error"
                               ELSE IF failure[c] THEN "host_error"
                               ELSE Decoded(c, decodes)

Answer(c, decodes) == IF failure[c] THEN "host_error"
                      ELSE IF result[c] = "null" THEN "allocation_error"
                      ELSE Decoded(c, decodes)

Decode(c, decodes) ==
  /\ Goto(c, "returned", "free")
  /\ outcome' = [outcome EXCEPT ![c] = Answer(c, decodes)]
  /\ UNCHANGED <<parent, failure, result, heap>>

\* lks_free of a result that is not NULL, on every path.
\* Mutant: the host's error leaves before the free is scheduled.
FreeUnlessHostError(c) ==
  /\ Goto(c, "free", "unlease")
  /\ heap' = [heap EXCEPT ![c] = IF @ = "allocated" /\ ~failure[c] THEN "freed" ELSE @]
  /\ UNCHANGED <<parent, failure, result, outcome>>

FreeResult(c) ==
  /\ Goto(c, "free", "unlease")
  /\ heap' = [heap EXCEPT ![c] = IF @ = "allocated" THEN "freed" ELSE @]
  /\ UNCHANGED <<parent, failure, result, outcome>>

\* What a call does between taking its lease and giving it back.
Work(c) == \/ EncodingFails(c) \/ CallNative(c) \/ CallBack(c)
           \/ \E failed \in BOOLEAN : CallbackReturns(c, failed)
           \/ \E r \in Results \ {"none"} : NativeReturns(c, r)
           \/ \E decodes \in BOOLEAN : Decode(c, decodes)
           \/ FreeResult(c)

ReturnLease(c) ==
  /\ Goto(c, "unlease", "ended")
  /\ UNCHANGED <<parent, failure, result, heap, outcome>>

\* An ended call leaves nothing behind: its place is free for another one.
Forget(c) ==
  /\ Goto(c, "ended", "idle")
  /\ parent' = [parent EXCEPT ![c] = None]
  /\ failure' = [failure EXCEPT ![c] = FALSE]
  /\ result' = [result EXCEPT ![c] = "none"]
  /\ heap' = [heap EXCEPT ![c] = "none"]
  /\ outcome' = [outcome EXCEPT ![c] = "none"]

-------------------------------------------------------------------------------
\* Code of the native module is running, or will run, for the call.
InNative(c) == pc[c] \in {"native", "callback", "resumed", "returned", "free"}
Leased(c) == InNative(c) \/ pc[c] \in {"leased", "unlease"}

\* An application's own error is what the application gets back: never the
\* native error it was turned into, nor an allocation failure after it.
HostErrorWins == \A c \in Calls :
  pc[c] = "ended" /\ failure[c] => outcome[c] = "host_error"

\* Every result lks_invoke allocated is freed, by the time the call ends.
ResultFreed == \A c \in Calls : pc[c] = "ended" => heap[c] # "allocated"
================================================================================
