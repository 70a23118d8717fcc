------------------------------ MODULE RustNative ------------------------------
(***************************************************************************)
(* The calls of the Rust binding (pkg/rust/src/native.rs).  A callback may *)
(* panic as well as fail; neither crosses the C boundary.  A call borrows  *)
(* its NativeLibrary, so that the compiler keeps the library for it.       *)
(***************************************************************************)
EXTENDS HostInvoke

VARIABLE panicked  \* the calls whose context holds the payload of a panic

vars == <<callVars, panicked>>

Init == CallInit /\ panicked = {}

-------------------------------------------------------------------------------
Invoke(c, p) == Enter(c, p) /\ UNCHANGED panicked

Borrow(c) == TakeLease(c) /\ UNCHANGED panicked

\* exchange: catch_unwind around the transport or the key provider.
ExchangeReturns(c, how) ==
  /\ CallbackReturns(c, how # "answer")
  /\ panicked' = IF how = "panic" THEN panicked \cup {c} ELSE panicked

\* The payload is taken first, and the result dropped before unwinding resumes.
\* Mutant: the error is looked at before the panic.
PanicLast(c) == FALSE

Panics(c) == c \in panicked

DropOutput(c) ==
  /\ Panics(c)
  /\ Goto(c, "returned", "unwinding")
  /\ heap' = [heap EXCEPT ![c] = IF @ = "allocated" THEN "freed" ELSE @]
  /\ UNCHANGED <<parent, failure, result, outcome, panicked>>

ResumeUnwind(c) ==
  /\ Goto(c, "unwinding", "ended")
  /\ outcome' = [outcome EXCEPT ![c] = "panic"]
  /\ UNCHANGED <<parent, failure, result, heap, panicked>>

\* An error, a missing result or the envelope; Output drops when invoke returns.
Return(c) ==
  /\ \E decodes \in BOOLEAN : Decode(c, decodes)
  /\ ~Panics(c)
  /\ UNCHANGED panicked

Proceed(c) == /\ \/ EncodingFails(c) \/ CallNative(c) \/ CallBack(c) \/ FreeResult(c)
                 \/ \E r \in Results \ {"none"} : NativeReturns(c, r)
                 \/ ReturnLease(c)
              /\ UNCHANGED panicked

Continue(c) == \/ Borrow(c) \/ Proceed(c) \/ DropOutput(c) \/ ResumeUnwind(c) \/ Return(c)
               \/ \E how \in {"answer", "error", "panic"} : ExchangeReturns(c, how)

AllEnded == (\A c \in Calls : pc[c] = "ended") /\ UNCHANGED vars

Next == \/ \E c \in Calls : Continue(c) \/ \E p \in Calls \cup {None} : Invoke(c, p)
        \/ AllEnded

Spec == Init /\ [][Next]_vars

-------------------------------------------------------------------------------
\* A panic of a callback is a panic of its own invoke, an error an error, and
\* the native result is gone before a panic unwinds further.
OwnFailure == \A c \in Calls :
  /\ pc[c] = "ended" => (outcome[c] = "panic" <=> c \in panicked)
  /\ pc[c] = "ended" => (outcome[c] = "host_error" <=> failure[c] /\ c \notin panicked)
  /\ pc[c] = "unwinding" => heap[c] # "allocated"
================================================================================
