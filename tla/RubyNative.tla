------------------------------ MODULE RubyNative ------------------------------
(***************************************************************************)
(* The calls of the Ruby binding (pkg/ruby/lib/livekit/server/native.rb):  *)
(* load_bridge, whose steps may each raise, and invoke with the memory it  *)
(* allocates for the answers of callbacks.                                 *)
(***************************************************************************)
EXTENDS HostInvoke

VARIABLES load_lock, \* the call that holds @load_lock
          handle,    \* @handle is set
          free,      \* @free is set
          bridge,    \* @invoke is set
          buffers    \* what a call has allocated

loadVars == <<load_lock, handle, free, bridge>>
rubyVars == <<loadVars, buffers>>
vars == <<callVars, rubyVars>>

LoadInit == load_lock = None /\ handle = FALSE /\ free = FALSE /\ bridge = FALSE
BuffersInit == buffers = [c \in Calls |-> {}]
Init == CallInit /\ LoadInit /\ BuffersInit

-------------------------------------------------------------------------------
\* load_bridge

Invoke(c, p) == Enter(c, p) /\ UNCHANGED rubyVars

Step(c, from, to) == /\ Goto(c, from, to)
                     /\ UNCHANGED <<parent, failure, result, heap, outcome, buffers>>

Synchronize(c) == /\ Step(c, "entered", "locked")
                  /\ load_lock = None /\ load_lock' = c
                  /\ UNCHANGED <<handle, free, bridge>>

\* return if @invoke
Loaded(c) == /\ Step(c, "locked", "leased")
             /\ bridge /\ load_lock' = None
             /\ UNCHANGED <<handle, free, bridge>>

Dlopen(c) == /\ Step(c, "locked", "opened")
             /\ ~bridge /\ handle' = TRUE
             /\ UNCHANGED <<load_lock, free, bridge>>

CheckAbi(c) == Step(c, "opened", "checked") /\ UNCHANGED loadVars

BindFree(c) == /\ Step(c, "checked", "bound")
               /\ free' = TRUE
               /\ UNCHANGED <<load_lock, handle, bridge>>

BindInvoke(c) == /\ Step(c, "bound", "leased")
                 /\ bridge' = TRUE /\ load_lock' = None
                 /\ UNCHANGED <<handle, free>>

\* dlopen, a missing symbol, or another version raises; synchronize unlocks.
LoadFails(c) ==
  /\ \/ Goto(c, "locked", "ended") /\ ~bridge
     \/ \E step \in {"opened", "checked", "bound"} : Goto(c, step, "ended")
  /\ outcome' = [outcome EXCEPT ![c] = "load_error"]
  /\ load_lock' = None
  /\ UNCHANGED <<parent, failure, result, heap, handle, free, bridge, buffers>>

-------------------------------------------------------------------------------
\* invoke

Allocate(c, what) == buffers' = [buffers EXCEPT ![c] = @ \cup {what}]

\* JSON.generate of the input raises before anything is native; the fallback
\* allocated by then is left to the garbage collector.
GenerateRaises(c) == EncodingFails(c) /\ UNCHANGED rubyVars

Call(c) == CallNative(c) /\ Allocate(c, "fallback") /\ UNCHANGED loadVars

\* The block answers from memory of its own, or rescues Exception, keeps the
\* error and answers with the fallback, which the C ABI turns into an error.
Answered(c, failed) ==
  /\ CallbackReturns(c, failed)
  /\ IF failed THEN UNCHANGED buffers ELSE Allocate(c, "answer")
  /\ UNCHANGED loadVars

\* The error is raised, or the result read; ensure frees the result ...
Finish(c) == /\ \/ CallBack(c)
                \/ \E r \in Results \ {"none"} : NativeReturns(c, r)
                \/ \E decodes \in BOOLEAN : Decode(c, decodes)
                \/ FreeResult(c)
             /\ UNCHANGED rubyVars

\* Mutant: the answers are freed when the call succeeded only.
EnsureUnlessFailed(c) ==
  /\ ReturnLease(c)
  /\ buffers' = [buffers EXCEPT ![c] = IF failure[c] THEN @ ELSE {}]
  /\ UNCHANGED loadVars

\* ... then the answers and the fallback.
Ensure(c) == ReturnLease(c) /\ buffers' = [buffers EXCEPT ![c] = {}] /\ UNCHANGED loadVars

Continue(c) == \/ Synchronize(c) \/ Loaded(c) \/ Dlopen(c) \/ CheckAbi(c) \/ BindFree(c)
               \/ BindInvoke(c) \/ LoadFails(c)
               \/ GenerateRaises(c) \/ Call(c) \/ Finish(c) \/ Ensure(c)
               \/ \E failed \in BOOLEAN : Answered(c, failed)

AllEnded == (\A c \in Calls : pc[c] = "ended") /\ UNCHANGED vars

Next == \/ \E c \in Calls : Continue(c) \/ \E p \in Calls \cup {None} : Invoke(c, p)
        \/ AllEnded

Spec == Init /\ [][Next]_vars

-------------------------------------------------------------------------------
\* A call that gets past load_bridge finds all of the bridge, however often and
\* wherever an earlier load_bridge failed.
BridgeComplete == \A c \in Calls : Leased(c) => handle /\ free /\ bridge

\* Native code reads the answer until lks_invoke returns: its memory lives at
\* least that long, and no longer than the call.
BuffersOfCalls == \A c \in Calls :
  /\ pc[c] \in {"native", "callback", "resumed"} => "fallback" \in buffers[c]
  /\ pc[c] = "resumed" => failure[c] \/ "answer" \in buffers[c]
  /\ pc[c] = "ended" => buffers[c] = {}
================================================================================
