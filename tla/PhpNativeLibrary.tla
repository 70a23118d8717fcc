--------------------------- MODULE PhpNativeLibrary ---------------------------
(***************************************************************************)
(* The calls of the PHP binding through one NativeLibrary                  *)
(* (pkg/php/src/NativeLibrary.php).  A library makes one libffi trampoline *)
(* for all its calls, so a native callback does not say whose it is: the   *)
(* library takes the context on top of a stack.  The stack has a context   *)
(* for each invoke that runs; one that runs inside a callback of another   *)
(* is pushed above it.  PHP code runs on one thread.                       *)
(*                                                                         *)
(* A context is named by its call.  failure[c] is the error it keeps.      *)
(***************************************************************************)
EXTENDS HostInvoke, Integers, Sequences

VARIABLES calls,    \* the stack of contexts, the innermost call last
          hosted,   \* the calls given a transport or a key provider
          served,   \* the context a callback of the call was given
          threw     \* history: the calls whose own callback threw

vars == <<callVars, calls, hosted, served, threw>>

Init == /\ CallInit
        /\ calls = <<>> /\ hosted = {} /\ threw = {}
        /\ served = [c \in Calls |-> None]

-------------------------------------------------------------------------------
\* PHP code calls invoke, at top level or in a callback.
Invoke(c, p, withCallback) ==
  /\ p = None => \A d \in Calls : ~Active(d)
  /\ Enter(c, p)
  /\ hosted' = IF withCallback THEN hosted \cup {c} ELSE hosted
  /\ UNCHANGED <<calls, served, threw>>

\* Wire::encode of the input throws before there is anything to undo.
EncodeThrows(c) ==
  /\ Goto(c, "entered", "ended")
  /\ outcome' = [outcome EXCEPT ![c] = "encoding_error"]
  /\ UNCHANGED <<parent, failure, result, heap, calls, hosted, served, threw>>

\* The context is made and pushed, and lks_invoke called.
Push(c) ==
  /\ Goto(c, "entered", "native")
  /\ calls' = Append(calls, c)
  /\ UNCHANGED <<parent, failure, result, heap, outcome, hosted, served, threw>>

\* Mutant: the context at the bottom is taken.
ContextFirst == calls[1]

Context == calls[Len(calls)]

\* exchange, by way of the trampoline
Exchange(c) ==
  /\ c \in hosted
  /\ CallBack(c)
  /\ served' = [served EXCEPT ![c] = Context]
  /\ UNCHANGED <<calls, hosted, threw>>

\* The transport or the key provider returns or throws; the context keeps the
\* first error.
ExchangeReturns(c, throws) ==
  /\ Goto(c, "callback", "resumed") /\ Resumable(c)
  /\ failure' = [failure EXCEPT ![served[c]] = @ \/ throws]
  /\ threw' = IF throws THEN threw \cup {c} ELSE threw
  /\ UNCHANGED <<parent, result, heap, outcome, calls, hosted, served>>

\* An error of the callback is an error of the native operation.
Return(c, r) ==
  /\ c \in threw => r # "value"
  /\ NativeReturns(c, r)
  /\ UNCHANGED <<calls, hosted, served, threw>>

Finish(c) ==
  /\ (\E decodes \in BOOLEAN : Decode(c, decodes)) \/ FreeResult(c)
  /\ UNCHANGED <<calls, hosted, served, threw>>

Pop(c) ==
  /\ Goto(c, "unlease", "ended")
  /\ calls' = SubSeq(calls, 1, Len(calls) - 1)
  /\ UNCHANGED <<parent, failure, result, heap, outcome, hosted, served, threw>>

Continue(c) == \/ EncodeThrows(c) \/ Push(c) \/ Exchange(c) \/ Finish(c) \/ Pop(c)
               \/ \E throws \in BOOLEAN : ExchangeReturns(c, throws)
               \/ \E r \in Results \ {"none"} : Return(c, r)

AllEnded == (\A c \in Calls : pc[c] = "ended") /\ UNCHANGED vars

Next == \/ \E c \in Calls : \/ \E p \in Calls \cup {None}, with \in BOOLEAN : Invoke(c, p, with)
                            \/ Continue(c)
        \/ AllEnded

Spec == Init /\ [][Next]_vars

-------------------------------------------------------------------------------
TypeOK == /\ CallTypeOK
          /\ \A i \in 1 .. Len(calls) : calls[i] \in Calls
          /\ hosted \subseteq Calls /\ threw \subseteq Calls
          /\ served \in [Calls -> Calls \cup {None}]

\* A callback runs the transport or the key provider of its own call, whatever
\* calls it makes and however these end.
OwnContext == \A c \in Calls : served[c] \in {c, None}

\* The stack holds the contexts of the calls that run, each above the one
\* whose callback made it: the buffers a native call borrows live as long as
\* it runs, and none longer.
ContextsAreCalls ==
  /\ {calls[i] : i \in 1 .. Len(calls)} = {c \in Calls : InNative(c) \/ pc[c] = "unlease"}
  /\ \A i \in 1 .. Len(calls) : parent[calls[i]] = IF i = 1 THEN None ELSE calls[i - 1]

\* What the callback of a call throws is what its invoke throws, and no other.
OwnErrorWins == \A c \in Calls : pc[c] = "ended" => (c \in threw <=> outcome[c] = "host_error")
================================================================================
