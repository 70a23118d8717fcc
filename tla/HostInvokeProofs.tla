--------------------------- MODULE HostInvokeProofs ---------------------------
(***************************************************************************)
(* What the shared steps of a host call preserve, for any set of calls.    *)
(* ModuleLeaseProofs cites these lemmas, for Zig and for .NET, and adds    *)
(* what the lease of each does.                                            *)
(***************************************************************************)
EXTENDS HostInvoke, TLAPS

\* The inductive invariant of the life of one call.
CallInvOf(c) ==
  /\ failure[c] => pc[c] \notin {"idle", "entered", "leased", "native", "callback"}
  /\ failure[c] /\ pc[c] \in {"free", "unlease", "ended"} => outcome[c] = "host_error"
  /\ heap[c] = "allocated" => pc[c] \in {"returned", "free"}

CallInv == CallTypeOK /\ \A c \in Calls : CallInvOf(c)

\* Nothing has failed before the first call.
LEMMA CallInitInv == CallInit => CallInv
  BY NoneIsNoCall DEF CallInit, CallInv, CallTypeOK, CallInvOf, Results, Outcomes

\* The invariant gives what an application relies on: its own errors come
\* back to it, and no native result outlives its call.
LEMMA CallInvSafe == CallInv => HostErrorWins /\ ResultFreed
  BY DEF CallInv, CallInvOf, HostErrorWins, ResultFreed

\* A step that leaves the calls alone preserves their invariant.
LEMMA CallUnchanged == CallInv /\ UNCHANGED callVars => CallInv'
  BY DEF CallInv, CallTypeOK, CallInvOf, callVars

\* Entering a call, from a thread or from a callback.
LEMMA EnterInv ==
  ASSUME NEW c \in Calls, NEW p \in Calls \cup {None}, CallInv, Enter(c, p)
  PROVE  CallInv'
  BY DEF CallInv, CallTypeOK, CallInvOf, Enter, Goto

\* Taking and returning a lease.
LEMMA LeaseInv ==
  ASSUME NEW c \in Calls, CallInv, TakeLease(c) \/ ReturnLease(c)
  PROVE  CallInv'
  BY DEF CallInv, CallTypeOK, CallInvOf, TakeLease, ReturnLease, Goto

\* An ended call gives its place to another one.
LEMMA ForgetInv ==
  ASSUME NEW c \in Calls, CallInv, Forget(c)
  PROVE  CallInv'
  BY DEF CallInv, CallTypeOK, CallInvOf, Forget, Goto, Results, Outcomes

\* Everything a call does while it holds its lease, errors included.
LEMMA WorkInv ==
  ASSUME NEW c \in Calls, CallInv, Work(c)
  PROVE  CallInv'
<1> USE DEF CallInv, CallTypeOK, CallInvOf, Goto
<1>1. CASE EncodingFails(c)
  BY <1>1 DEF EncodingFails, Outcomes
<1>2. CASE CallNative(c) \/ CallBack(c)
  BY <1>2 DEF CallNative, CallBack
<1>3. ASSUME NEW failed \in BOOLEAN, CallbackReturns(c, failed)
      PROVE  CallInv'
  BY <1>3 DEF CallbackReturns
<1>4. ASSUME NEW r \in Results \ {"none"}, NativeReturns(c, r)
      PROVE  CallInv'
  BY <1>4 DEF NativeReturns
<1>5. ASSUME NEW decodes \in BOOLEAN, Decode(c, decodes)
      PROVE  CallInv'
  <2>1. failure[c] => outcome'[c] = "host_error"
    BY <1>5 DEF Decode, Answer
  <2>2. outcome'[c] \in Outcomes
    BY <1>5 DEF Decode, Answer, Decoded, Outcomes
  <2>3. outcome' \in [Calls -> Outcomes]
        /\ \A d \in Calls : d # c => outcome'[d] = outcome[d]
    BY <1>5, <2>2 DEF Decode
  <2> QED BY <1>5, <2>1, <2>3 DEF Decode
<1>6. CASE FreeResult(c)
  BY <1>6 DEF FreeResult
<1> QED BY <1>1, <1>2, <1>3, <1>4, <1>5, <1>6 DEF Work

\* None of that changes who leases the module, or starts a call.
LEMMA WorkKeepsLeases ==
  ASSUME NEW c \in Calls, CallInv, Work(c)
  PROVE  \A d \in Calls : /\ Leased(d)' <=> Leased(d)
                          /\ pc'[d] = "entered" => pc[d] = "entered"
  BY DEF Work, EncodingFails, CallNative, CallBack, CallbackReturns, NativeReturns,
         Decode, FreeResult, Goto, Leased, InNative, CallInv, CallTypeOK

\* A call that enters, or is over, holds no lease; taking one or returning it
\* concerns no other call.
LEMMA LeaseSteps ==
  ASSUME NEW c \in Calls, CallInv
  PROVE  /\ TakeLease(c) => /\ pc[c] = "entered" /\ ~Leased(c) /\ Leased(c)'
                            /\ \A d \in Calls \ {c} : /\ Leased(d)' <=> Leased(d)
                                                      /\ pc'[d] = pc[d]
         /\ ReturnLease(c) => /\ Leased(c) /\ ~Leased(c)'
                              /\ \A d \in Calls \ {c} : /\ Leased(d)' <=> Leased(d)
                                                        /\ pc'[d] = pc[d]
         /\ \A p : Enter(c, p) => /\ ~Leased(c) /\ ~Leased(c)'
                                  /\ \A d \in Calls \ {c} : /\ Leased(d)' <=> Leased(d)
                                                            /\ pc'[d] = pc[d]
         /\ Forget(c) => \A d \in Calls : Leased(d)' <=> Leased(d)
  BY DEF TakeLease, ReturnLease, Enter, Forget, Goto, Leased, InNative, CallInv, CallTypeOK
================================================================================
