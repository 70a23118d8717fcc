---------------------------- MODULE WebhookReceiver ----------------------------
(***************************************************************************)
(* livekit::server::WebhookReceiver (src/webhook_receiver.cpp): threads    *)
(* that receive and dispatch events while others replace the callbacks.    *)
(*                                                                         *)
(* One member of Calls is one call of SetCallbacks, Dispatch or            *)
(* ReceiveAndDispatch, from entry to return.  parent[c] is the call whose  *)
(* user code (key provider, callback) made the call c, None when a thread  *)
(* made it at top level; a call with an unfinished nested call is          *)
(* suspended.  callbacks_ is a struct of std::function members: it is      *)
(* moved and copied member by member, under callbacks_mutex_.              *)
(*                                                                         *)
(* A target is named by the call that installed it, so that a torn or      *)
(* stale set of callbacks can be told from a consistent one.               *)
(***************************************************************************)
CONSTANTS Calls,          \* the API calls of a behaviour
          EventNames,     \* the event names that have a member of their own
          OnEvent,        \* the member called for every event
          Ctor,           \* names the targets given to the constructor
          None,           \* no target, no call, or an event without a member
          DestructorsReenter \* TRUE: the destructor of a replaced target
                             \* calls the receiver

ASSUME NamesAreDistinct ==
  /\ Ctor \notin Calls
  /\ None \notin Calls \cup EventNames \cup {Ctor, OnEvent}
  /\ OnEvent \notin EventNames
  /\ DestructorsReenter \in BOOLEAN

Slots == EventNames \cup {OnEvent}
Generations == Calls \cup {Ctor}

\* What ReceiveAt finds: "malformed" fails before the key provider is asked,
\* "rejected" after it, "authentic" passes every check.
Verdicts == {"malformed", "rejected", "authentic"}

VARIABLES pc,          \* where each call is
          parent,      \* the call whose user code made it
          slots,       \* the members a set of callbacks fills
          event,       \* the name of the event a call dispatches
          verdict,     \* what verification finds of the call's request
          callbacks_,  \* the member variable: a target for each slot
          mutex,       \* the call that holds callbacks_mutex_
          left,        \* the members still to be moved or copied
          local,       \* Dispatch's copy of callbacks_
          latest,      \* history: the last call to start replacing
          superseded,  \* history: the sets replaced before latest
          born,        \* history: superseded when the call began
          snapshot,    \* history: latest when the call locked the mutex
          delivered    \* history: the target run for each slot

args == <<parent, slots, event, verdict>>
receiver == <<callbacks_, mutex, left, local>>
history == <<latest, superseded, born, snapshot, delivered>>
vars == <<pc, args, receiver, history>>

Targets == Generations \cup {None}
Installed(g) == [s \in Slots |-> IF s \in slots[g] THEN g ELSE None]

Init == /\ pc = [c \in Calls |-> "idle"]
        /\ parent = [c \in Calls |-> None]
        /\ slots \in [Generations -> SUBSET Slots]
        /\ \A c \in Calls : slots[c] = {}
        /\ event = [c \in Calls |-> None]
        /\ verdict = [c \in Calls |-> "authentic"]
        /\ callbacks_ = Installed(Ctor)
        /\ mutex = None
        /\ left = [c \in Calls |-> {}]
        /\ local = [c \in Calls |-> [s \in Slots |-> None]]
        /\ latest = Ctor
        /\ superseded = {}
        /\ born = [c \in Calls |-> {}]
        /\ snapshot = [c \in Calls |-> None]
        /\ delivered = [c \in Calls |-> [s \in Slots |-> None]]

-------------------------------------------------------------------------------
Ended == {"returned", "threw"}
Active(c) == pc[c] \notin Ended \cup {"idle"}
Resumable(c) == \A d \in Calls : parent[d] = c => ~Active(d)

\* User code that may call the receiver runs in the key provider, in the
\* callbacks and, under the mutex, in the destructors of replaced targets.
RunsUserCode(c) ==
  \/ pc[c] \in {"key_lookup", "on_event", "specific"}
  \/ /\ DestructorsReenter
     /\ pc[c] = "moving"
     /\ \E s \in left[c] : callbacks_[s] # None

Enter(c, p, to) ==
  /\ pc[c] = "idle"
  /\ p = None \/ (p \in Calls /\ RunsUserCode(p) /\ Resumable(p))
  /\ pc' = [pc EXCEPT ![c] = to]
  /\ parent' = [parent EXCEPT ![c] = p]
  /\ born' = [born EXCEPT ![c] = superseded]
  /\ UNCHANGED <<receiver, latest, superseded, snapshot, delivered>>

Step(c, from, to) == /\ pc[c] = from /\ Resumable(c)
                     /\ pc' = [pc EXCEPT ![c] = to]

\* Mutants of Lock: the mutex is not waited for; one member too many is handled.
LockWithoutWaiting(c) == mutex' = c /\ left' = [left EXCEPT ![c] = Slots]
LockPastTheEnd(c) == mutex = None /\ mutex' = c /\ left' = [left EXCEPT ![c] = Slots \cup {None}]

Lock(c) == mutex = None /\ mutex' = c /\ left' = [left EXCEPT ![c] = Slots]
Unlock(c) == mutex' = None /\ UNCHANGED left

-------------------------------------------------------------------------------
\* SetCallbacks

SetCallbacks(c, p, S) ==
  /\ Enter(c, p, "set_lock")
  /\ slots' = [slots EXCEPT ![c] = S]
  /\ UNCHANGED <<event, verdict>>

SetLock(c) ==
  /\ Step(c, "set_lock", "moving")
  /\ Lock(c)
  /\ latest' = c
  /\ superseded' = superseded \cup {latest}
  /\ UNCHANGED <<args, callbacks_, local, born, snapshot, delivered>>

\* Mutant: only the members that are set are replaced.
MoveSlotMerging(c, s) ==
  /\ Step(c, "moving", "moving")
  /\ s \in left[c]
  /\ callbacks_' = [callbacks_ EXCEPT ![s] = IF s \in slots[c] THEN c ELSE @]
  /\ left' = [left EXCEPT ![c] = @ \ {s}]
  /\ UNCHANGED <<args, mutex, local, history>>

MoveSlot(c, s) ==
  /\ Step(c, "moving", "moving")
  /\ s \in left[c]
  /\ callbacks_' = [callbacks_ EXCEPT ![s] = Installed(c)[s]]
  /\ left' = [left EXCEPT ![c] = @ \ {s}]
  /\ UNCHANGED <<args, mutex, local, history>>

SetUnlock(c) ==
  /\ Step(c, "moving", "returned")
  /\ left[c] = {}
  /\ Unlock(c)
  /\ UNCHANGED <<args, callbacks_, local, history>>

-------------------------------------------------------------------------------
\* Receive: no lock is held while the key provider runs.

ReceiveAndDispatch(c, p, e, v) ==
  /\ Enter(c, p, "verify")
  /\ event' = [event EXCEPT ![c] = e]
  /\ verdict' = [verdict EXCEPT ![c] = v]
  /\ UNCHANGED slots

LookUpKey(c) ==
  /\ Step(c, "verify", IF verdict[c] = "malformed" THEN "threw" ELSE "key_lookup")
  /\ UNCHANGED <<args, receiver, history>>

\* Mutant: the result of the checks after the key lookup is ignored.
KeyProviderReturnsUnchecked(c) ==
  /\ Step(c, "key_lookup", "dispatch_lock")
  /\ UNCHANGED <<args, receiver, history>>

KeyProviderReturns(c) ==
  /\ Step(c, "key_lookup", IF verdict[c] = "authentic" THEN "dispatch_lock" ELSE "threw")
  /\ UNCHANGED <<args, receiver, history>>

-------------------------------------------------------------------------------
\* Dispatch

Dispatch(c, p, e) ==
  /\ Enter(c, p, "dispatch_lock")
  /\ event' = [event EXCEPT ![c] = e]
  /\ UNCHANGED <<slots, verdict>>

DispatchLock(c) ==
  /\ Step(c, "dispatch_lock", "copying")
  /\ Lock(c)
  /\ snapshot' = [snapshot EXCEPT ![c] = latest]
  /\ UNCHANGED <<args, callbacks_, local, latest, superseded, born, delivered>>

CopySlot(c, s) ==
  /\ Step(c, "copying", "copying")
  /\ s \in left[c]
  /\ local' = [local EXCEPT ![c][s] = callbacks_[s]]
  /\ left' = [left EXCEPT ![c] = @ \ {s}]
  /\ UNCHANGED <<args, callbacks_, mutex, history>>

DispatchUnlock(c) ==
  /\ Step(c, "copying", "on_event_check")
  /\ left[c] = {}
  /\ Unlock(c)
  /\ UNCHANGED <<args, callbacks_, local, history>>

\* Copying a target throws: lock_guard unlocks and Dispatch is left.
CopyThrowsLocked(c) == \* Mutant: the exception leaves the mutex locked.
  /\ Step(c, "copying", "threw")
  /\ \E s \in left[c] : callbacks_[s] # None
  /\ UNCHANGED <<args, receiver, history>>

CopyThrows(c) ==
  /\ Step(c, "copying", "threw")
  /\ \E s \in left[c] : callbacks_[s] # None
  /\ Unlock(c)
  /\ UNCHANGED <<args, callbacks_, local, history>>

Invoke(c, s) ==
  /\ delivered' = [delivered EXCEPT ![c][s] = local[c][s]]
  /\ UNCHANGED <<args, receiver, latest, superseded, born, snapshot>>

InvokeOnEvent(c) ==
  /\ local[c][OnEvent] # None
  /\ Step(c, "on_event_check", "on_event")
  /\ Invoke(c, OnEvent)

SkipOnEvent(c) ==
  /\ local[c][OnEvent] = None
  /\ Step(c, "on_event_check", "specific_check")
  /\ UNCHANGED <<args, receiver, history>>

OnEventReturns(c) ==
  /\ Step(c, "on_event", "specific_check")
  /\ UNCHANGED <<args, receiver, history>>

\* Mutant: the member is read again after unlocking, not the copy.
SpecificCallbackReread(c) == IF event[c] \in EventNames THEN callbacks_[event[c]] ELSE None

SpecificCallback(c) == IF event[c] \in EventNames THEN local[c][event[c]] ELSE None

InvokeSpecific(c) ==
  /\ SpecificCallback(c) # None
  /\ Step(c, "specific_check", "specific")
  /\ Invoke(c, event[c])

SkipSpecific(c) ==
  /\ SpecificCallback(c) = None
  /\ Step(c, "specific_check", "returned")
  /\ UNCHANGED <<args, receiver, history>>

SpecificReturns(c) ==
  /\ Step(c, "specific", "returned")
  /\ UNCHANGED <<args, receiver, history>>

\* An exception of the key provider or of a callback leaves the call, and so
\* does one of SpecificCallback's copy of the target.
UserCodeThrows(c) ==
  /\ \/ \E from \in {"key_lookup", "on_event", "specific"} : Step(c, from, "threw")
     \/ Step(c, "specific_check", "threw") /\ SpecificCallback(c) # None
  /\ UNCHANGED <<args, receiver, history>>

-------------------------------------------------------------------------------
Begin(c) == \E p \in Calls \cup {None} :
  \/ \E S \in SUBSET Slots : SetCallbacks(c, p, S)
  \/ \E e \in EventNames \cup {None} :
       \/ Dispatch(c, p, e)
       \/ \E v \in Verdicts : ReceiveAndDispatch(c, p, e, v)

Continue(c) ==
  \/ SetLock(c) \/ SetUnlock(c)
  \/ LookUpKey(c) \/ KeyProviderReturns(c)
  \/ DispatchLock(c) \/ DispatchUnlock(c) \/ CopyThrows(c)
  \/ \E s \in Slots : MoveSlot(c, s) \/ CopySlot(c, s)
  \/ InvokeOnEvent(c) \/ SkipOnEvent(c) \/ OnEventReturns(c)
  \/ InvokeSpecific(c) \/ SkipSpecific(c) \/ SpecificReturns(c)
  \/ UserCodeThrows(c)

\* Every call was made and has ended.
AllEnded == (\A c \in Calls : pc[c] \in Ended) /\ UNCHANGED vars

Next == (\E c \in Calls : Begin(c) \/ Continue(c)) \/ AllEnded

\* A thread that is not blocked runs on, and user code returns or throws.
Fairness == \A c \in Calls : WF_vars(Continue(c))

Spec == Init /\ [][Next]_vars
FairSpec == Spec /\ Fairness

-------------------------------------------------------------------------------
TypeOK ==
  /\ pc \in [Calls -> Ended \cup
                {"idle", "set_lock", "moving", "verify", "key_lookup",
                 "dispatch_lock", "copying", "on_event_check", "on_event",
                 "specific_check", "specific"}]
  /\ parent \in [Calls -> Calls \cup {None}]
  /\ slots \in [Generations -> SUBSET Slots]
  /\ event \in [Calls -> EventNames \cup {None}]
  /\ verdict \in [Calls -> Verdicts]
  /\ callbacks_ \in [Slots -> Targets]
  /\ mutex \in Calls \cup {None}
  /\ left \in [Calls -> SUBSET Slots]
  /\ local \in [Calls -> [Slots -> Targets]]
  /\ latest \in Generations
  /\ superseded \in SUBSET Generations
  /\ born \in [Calls -> SUBSET Generations]
  /\ snapshot \in [Calls -> Targets]
  /\ delivered \in [Calls -> [Slots -> Targets]]

\* Dispatch acts on one set of callbacks as a whole: once it has unlocked,
\* its copy is exactly the set installed when it locked, never members of two
\* sets, however SetCallbacks calls interleave with the copying.
SnapshotConsistent == \A c \in Calls :
  pc[c] \in {"on_event_check", "on_event", "specific_check", "specific"}
    => local[c] = Installed(snapshot[c])

\* A replaced callback is not run for a later event: a call that began after
\* a SetCallbacks took effect runs no target of a set replaced by then.
Fresh == \A c \in Calls, s \in Slots : delivered[c][s] \notin born[c]

\* ReceiveAndDispatch runs a callback only for an event that passed every
\* check of ReceiveAt, including when the key provider makes calls itself.
OnlyVerified == \A c \in Calls :
  (\E s \in Slots : delivered[c][s] # None) => verdict[c] = "authentic"

\* Callbacks may replace callbacks and dispatch events: every call ends, if
\* callbacks end and no target's destructor calls the receiver.
EveryCallEnds == \A c \in Calls : Active(c) ~> pc[c] \in Ended

\* "Callbacks ... may be replaced safely while events are being handled"
\* (webhook_receiver.h): SetCallbacks returns.  It does not when the target it
\* destroys under the mutex calls the receiver (DestructorsReenter = TRUE).
ReplacementEnds == \A c \in Calls :
  pc[c] \in {"set_lock", "moving"} ~> pc[c] \in Ended

\* Locked, member-wise copies implement one atomic register of callbacks: the
\* set is replaced, or read, at the moment the mutex is taken.
PhaseAt(p) ==
  CASE p = "set_lock" -> "offered"
    [] p = "moving" -> "returned"
    [] p \in {"verify", "key_lookup", "dispatch_lock"} -> "requested"
    [] p \in {"copying", "on_event_check"} -> "taken"
    [] p = "on_event" -> "notifying"
    [] p = "specific_check" -> "notified"
    [] p = "specific" -> "handling"
    [] OTHER -> p

Phases == [c \in Calls |-> PhaseAt(pc[c])]

Register == INSTANCE CallbackRegister WITH phase <- Phases, current <- latest

ImplementsRegister == Register!Spec
================================================================================
