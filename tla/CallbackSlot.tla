----------------------------- MODULE CallbackSlot -----------------------------
(***************************************************************************)
(* WebhookReceiver of the bindings: one callback, replaced by set_callback *)
(* and read by dispatch.  The bindings differ in what guards the callback  *)
(* and in where a replaced one is destroyed:                               *)
(*                                                                         *)
(*   rust    RwLock; the old Arc is dropped after the guard                *)
(*   zig     spin lock; two words without a destructor                     *)
(*   python  Lock, not reentrant; the assignment drops the old reference,  *)
(*           and may run its __del__, inside the with block                *)
(*   ruby, net   Mutex, lock statement; the collector drops it later       *)
(*   java    a volatile field; the collector drops it later                *)
(*   php     one thread; the assignment drops the old closure              *)
(*                                                                         *)
(* Words are what a processor stores at once: the callback of Zig and the  *)
(* Arc of Rust are a code and a data word, of the others a reference.      *)
(* As in WebhookReceiver a callback is named by the call that set it.      *)
(***************************************************************************)
CONSTANTS Calls, OnEvent, Ctor, None, Hosts

\* Assumed where the constants get their values.
NamesAreDistinct == Ctor \notin Calls /\ None \notin Calls \cup {Ctor, OnEvent}

VARIABLES host,     \* the binding
          pc, parent,
          slots,    \* what a call sets: {} for no callback
          callback, \* the callback field, word by word
          writer,   \* the call that holds the lock alone
          readers,  \* the calls that share the RwLock of Rust
          left,     \* the words still to be written or read
          local,    \* the callback a dispatch read, or a set_callback replaced
          latest, snapshot, delivered \* history, as in WebhookReceiver

fields == <<callback, writer, readers, left, local>>
history == <<latest, snapshot, delivered>>
vars == <<host, pc, parent, slots, fields, history>>

Generations == Calls \cup {Ctor}
Words == IF host \in {"zig", "rust"} THEN {"code", "data"} ELSE {"code"}
Locked == host \notin {"java", "php"}
Clears == host \notin {"java", "ruby"}  \* the callback may be set to none
Counted == host \in {"rust", "php", "python"}  \* destructors run user code, at once

Target(g) == IF slots[g] = {} THEN None ELSE g
Whole(t) == [w \in {"code", "data"} |-> t]

Init == /\ host \in Hosts
        /\ pc = [c \in Calls |-> "idle"]
        /\ parent = [c \in Calls |-> None]
        /\ slots \in [Generations -> {{}, {OnEvent}}]
        /\ \A c \in Calls : slots[c] = {}
        /\ host = "java" => slots[Ctor] = {OnEvent}
        /\ callback = Whole(Target(Ctor))
        /\ writer = None /\ readers = {}
        /\ left = [c \in Calls |-> {}]
        /\ local = [c \in Calls |-> Whole(None)]
        /\ latest = Ctor
        /\ snapshot = [c \in Calls |-> None]
        /\ delivered = [c \in Calls |-> None]

-------------------------------------------------------------------------------
Ended == {"returned", "threw"}
Active(c) == pc[c] \notin Ended \cup {"idle"}
Resumable(c) == \A d \in Calls : parent[d] = c => ~Active(d)

\* The key provider, the callback and destructors may call the receiver.
UserCode == {"key_lookup", "calling", "destroying_old", "destroying"}

Enter(c, p, to) ==
  /\ pc[c] = "idle"
  /\ IF p = None THEN host = "php" => \A d \in Calls : ~Active(d)
                 ELSE p \in Calls /\ pc[p] \in UserCode /\ Resumable(p)
  /\ pc' = [pc EXCEPT ![c] = to]
  /\ parent' = [parent EXCEPT ![c] = p]
  /\ UNCHANGED <<host, fields, history>>

Step(c, from, to) == /\ pc[c] = from /\ Resumable(c)
                     /\ pc' = [pc EXCEPT ![c] = to]
                     /\ UNCHANGED <<host, parent, slots>>

\* The lock of the binding; Java and PHP have none.
\* Mutant: readers do not keep a writer out.
LockPastReaders(c) ==
  /\ left' = [left EXCEPT ![c] = Words]
  /\ IF Locked THEN writer = None /\ writer' = c ELSE UNCHANGED writer
  /\ UNCHANGED readers

Lock(c) ==
  /\ left' = [left EXCEPT ![c] = Words]
  /\ IF Locked THEN writer = None /\ readers = {} /\ writer' = c ELSE UNCHANGED writer
  /\ UNCHANGED readers

Share(c) == /\ left' = [left EXCEPT ![c] = Words]
            /\ writer = None /\ readers' = readers \cup {c}
            /\ UNCHANGED writer

Unlock(c) == /\ writer' = IF writer = c THEN None ELSE writer
             /\ readers' = readers \ {c}

\* The last of the references to the callback in local[c].
LastReference(c) ==
  /\ local[c]["code"] # None
  /\ callback["code"] # local[c]["code"]
  /\ \A d \in Calls \ {c} : local[d]["code"] # local[c]["code"]

-------------------------------------------------------------------------------
\* set_callback

SetCallback(c, p, S) == /\ Enter(c, p, "set_lock")
                        /\ Clears \/ S # {}
                        /\ slots' = [slots EXCEPT ![c] = S]

SetLock(c) == /\ Step(c, "set_lock", "writing")
              /\ Lock(c)
              /\ local' = [local EXCEPT ![c] = IF Counted THEN callback ELSE @]
              /\ UNCHANGED <<callback, history>>

WriteWord(c, w) == /\ Step(c, "writing", "writing")
                   /\ w \in left[c]
                   /\ callback' = [callback EXCEPT ![w] = Target(c)]
                   /\ left' = [left EXCEPT ![c] = @ \ {w}]
                   /\ latest' = c
                   /\ UNCHANGED <<writer, readers, local, snapshot, delivered>>

\* Mutant: the old callback is dropped before the guard.
SetUnlockLast(c) == /\ Step(c, "writing", "dropping_old")
                    /\ left[c] = {}
                    /\ UNCHANGED <<fields, history>>

SetUnlock(c) == /\ IF host = "python" THEN Step(c, "unlocking", "returned")
                                      ELSE Step(c, "writing", "dropping_old")
                /\ left[c] = {}
                /\ Unlock(c)
                /\ UNCHANGED <<callback, left, local, history>>

\* The assignment of Python drops what it replaces before the with block ends.
StoreDrops(c) == /\ host = "python" /\ Step(c, "writing", "dropping_old")
                 /\ left[c] = {}
                 /\ UNCHANGED <<fields, history>>

Dropped == IF host = "python" THEN "unlocking" ELSE "returned"

\* drop(old)
DropOld(c) == /\ Step(c, "dropping_old", IF LastReference(c) THEN "destroying_old" ELSE Dropped)
              /\ local' = [local EXCEPT ![c] = Whole(None)]
              /\ UNCHANGED <<callback, writer, readers, left, history>>

OldDestroyed(c) == Step(c, "destroying_old", Dropped) /\ UNCHANGED <<fields, history>>

-------------------------------------------------------------------------------
\* receive: no lock is held.  A request that fails verification throws, or in
\* Zig returns the error; it is not dispatched.

ReceiveAndDispatch(c, p) == Enter(c, p, "verify") /\ UNCHANGED slots

Verify(c) == /\ Step(c, "verify", "key_lookup") \/ Step(c, "verify", "threw")
             /\ UNCHANGED <<fields, history>>

KeyProviderReturns(c) ==
  /\ Step(c, "key_lookup", "dispatch_lock") \/ Step(c, "key_lookup", "threw")
  /\ UNCHANGED <<fields, history>>

-------------------------------------------------------------------------------
\* dispatch

Dispatch(c, p) == Enter(c, p, "dispatch_lock") /\ UNCHANGED slots

DispatchLock(c) == /\ Step(c, "dispatch_lock", "reading")
                   /\ IF host = "rust" THEN Share(c) ELSE Lock(c)
                   /\ UNCHANGED <<callback, local, history>>

ReadWord(c, w) == /\ Step(c, "reading", "reading")
                  /\ w \in left[c]
                  /\ local' = [local EXCEPT ![c][w] = callback[w]]
                  /\ left' = [left EXCEPT ![c] = @ \ {w}]
                  /\ snapshot' = [snapshot EXCEPT ![c] = IF left[c] = Words THEN latest ELSE @]
                  /\ UNCHANGED <<callback, writer, readers, latest, delivered>>

\* Mutant: there is no callback, so dispatch returns at once.
DispatchUnlockIfSet(c) == /\ Step(c, "reading", "checking")
                          /\ left[c] = {}
                          /\ IF local[c]["code"] = None
                             THEN UNCHANGED <<writer, readers>> ELSE Unlock(c)
                          /\ UNCHANGED <<callback, left, local, history>>

DispatchUnlock(c) == /\ Step(c, "reading", "checking")
                     /\ left[c] = {}
                     /\ Unlock(c)
                     /\ UNCHANGED <<callback, left, local, history>>

NoCallback(c) == /\ Step(c, "checking", "leaving")
                 /\ local[c]["code"] = None
                 /\ UNCHANGED <<fields, history>>

\* The callback that runs, if its words are those of one.
Called(c) == IF \A w \in Words : local[c][w] = local[c]["code"] THEN local[c]["code"] ELSE None

CallBack(c) == /\ Step(c, "checking", "calling")
               /\ local[c]["code"] # None
               /\ delivered' = [delivered EXCEPT ![c] = Called(c)]
               /\ UNCHANGED <<fields, latest, snapshot>>

CallbackReturns(c) == Step(c, "calling", "leaving") /\ UNCHANGED <<fields, history>>

\* dispatch returns, or throws what the callback threw.  On its way out it lets
\* go of the callback, which destroys it if it was replaced meanwhile and nobody
\* else runs it.
Leave(c) == /\ IF Counted /\ LastReference(c)
               THEN Step(c, "leaving", "destroying")
               ELSE \E end \in Ended : Step(c, "leaving", end)
            /\ local' = [local EXCEPT ![c] = Whole(None)]
            /\ UNCHANGED <<callback, writer, readers, left, history>>

Destroyed(c) == /\ \E end \in Ended : Step(c, "destroying", end)
                /\ UNCHANGED <<fields, history>>

-------------------------------------------------------------------------------
Begin(c) == \E p \in Calls \cup {None} :
  \/ \E S \in {{}, {OnEvent}} : SetCallback(c, p, S)
  \/ ReceiveAndDispatch(c, p) \/ Dispatch(c, p)

Continue(c) ==
  \/ SetLock(c) \/ SetUnlock(c) \/ StoreDrops(c) \/ DropOld(c) \/ OldDestroyed(c)
  \/ Verify(c) \/ KeyProviderReturns(c)
  \/ DispatchLock(c) \/ DispatchUnlock(c) \/ NoCallback(c)
  \/ \E w \in Words : WriteWord(c, w) \/ ReadWord(c, w)
  \/ CallBack(c) \/ CallbackReturns(c) \/ Leave(c) \/ Destroyed(c)

AllEnded == (\A c \in Calls : pc[c] \in Ended) /\ UNCHANGED vars

\* A call waits for the lock: Zig spins, the others sleep, a call of Python's
\* destructor for ever.
Spin(c) == /\ pc[c] \in {"set_lock", "dispatch_lock"} /\ Locked
           /\ writer # None \/ readers # {}
           /\ UNCHANGED vars

Next == (\E c \in Calls : Begin(c) \/ Continue(c) \/ Spin(c)) \/ AllEnded

\* A thread that is not blocked runs on, and user code returns or throws.
Fairness == \A c \in Calls : WF_vars(Continue(c))

Spec == Init /\ [][Next]_vars
FairSpec == Spec /\ Fairness

-------------------------------------------------------------------------------
\* "no user code runs under locks" (webhook.rs:71): a call that runs user code
\* holds no lock, and no more do the calls it is nested in, which run user code
\* too.  So in every binding, with one exception: the destructor of a callback
\* that Python's set_callback replaces runs under its lock (webhook.py:85-86).
UserCodeUnlocked == \A c \in Calls :
  pc[c] \in UserCode /\ (writer = c \/ c \in readers) =>
    host = "python" /\ pc[c] = "destroying_old"

\* That destructor has called the receiver, which waits for the lock.
OwnLock == \E c \in Calls : writer = c /\ pc[c] = "destroying_old" /\ ~Resumable(c)

\* Callbacks, key providers and destructors may replace the callback and
\* dispatch events, and every call ends, unless a destructor that Python runs
\* under its lock calls the receiver: then the lock is never given back.
SlotCallsEnd == \A c \in Calls : Active(c) ~> (pc[c] \in Ended \/ []OwnLock)

\* The guarded words implement the atomic register of callbacks, one event name
\* and all: "SetCallback atomically replaces or clears the callback" (.NET
\* README:171), and a dispatch runs the callback it read, never half of it.
PhaseOf(c) ==
  CASE pc[c] = "set_lock" -> "offered"
    [] pc[c] = "writing" -> IF left[c] = Words THEN "offered" ELSE "returned"
    [] pc[c] \in {"dropping_old", "destroying_old", "unlocking"} -> "returned"
    [] pc[c] \in {"verify", "key_lookup", "dispatch_lock"} -> "requested"
    [] pc[c] = "reading" -> IF left[c] = Words THEN "requested" ELSE "taken"
    [] pc[c] = "checking" -> "taken"
    [] pc[c] = "calling" -> "notifying"
    [] pc[c] \in {"leaving", "destroying"} -> "notified"
    [] OTHER -> pc[c]

Register == INSTANCE CallbackRegister WITH
  EventNames <- {},
  phase <- [c \in Calls |-> PhaseOf(c)],
  event <- [c \in Calls |-> None],
  current <- latest,
  delivered <- [c \in Calls |-> [s \in {OnEvent} |-> delivered[c]]]

SlotImplementsRegister == Register!Spec
=============================================================================
