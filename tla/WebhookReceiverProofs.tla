------------------------ MODULE WebhookReceiverProofs ------------------------
(***************************************************************************)
(* Theorems about WebhookReceiver, for every set of calls and events.      *)
(***************************************************************************)
EXTENDS WebhookReceiver, TLAPS

Critical == {"moving", "copying"}
Copied == {"on_event_check", "on_event", "specific_check", "specific"}
Verified == {"dispatch_lock", "copying"} \cup Copied

\* The sets that took effect: their slots no longer change.
TookEffect(g) == g \in Calls => pc[g] \in {"moving", "returned"}

\* callbacks_mutex_ is held exactly by the call inside a critical section.
MutexHeld == \A c \in Calls : pc[c] \in Critical <=> mutex = c

\* callbacks_ is the latest set, but for the members being replaced.
MembersInstalled ==
  \A s \in Slots :
    \/ callbacks_[s] = Installed(latest)[s]
    \/ pc[latest] = "moving" /\ latest \in Calls /\ s \in left[latest]

MoverIsLatest == \A c \in Calls : pc[c] = "moving" => latest = c

\* A copy in progress agrees with the latest set on the members copied.
CopyAgrees == \A c \in Calls :
  pc[c] = "copying" =>
    /\ snapshot[c] = latest
    /\ \A s \in Slots \ left[c] : local[c][s] = Installed(latest)[s]

\* What history says of the sets of callbacks.
HistoryInv ==
  /\ TookEffect(latest) /\ latest \notin superseded
  /\ \A g \in superseded : TookEffect(g)
  /\ \A c \in Calls :
       /\ born[c] \subseteq superseded
       /\ snapshot[c] # None => /\ TookEffect(snapshot[c])
                                /\ snapshot[c] \notin born[c]
       /\ pc[c] \in Copied => snapshot[c] # None
       /\ pc[c] \in {"idle", "verify", "key_lookup", "dispatch_lock"} => snapshot[c] = None
       /\ \A s \in Slots : delivered[c][s] \in {None, snapshot[c]}

\* A request that does not pass verification goes no further.
VerifiedInv == \A c \in Calls :
  /\ pc[c] = "idle" => verdict[c] = "authentic"
  /\ pc[c] \in Verified => verdict[c] = "authentic"
  /\ verdict[c] # "authentic" => \A s \in Slots : delivered[c][s] = None

IInv == /\ TypeOK
        /\ MutexHeld
        /\ MembersInstalled
        /\ MoverIsLatest
        /\ CopyAgrees
        /\ SnapshotConsistent
        /\ HistoryInv
        /\ VerifiedInv

-------------------------------------------------------------------------------
(* Running a target keeps the type of the history of deliveries. *)

\* A function of functions updated at one place keeps its type.
LEMMA UpdateType ==
  ASSUME NEW A, NEW B, NEW T, NEW f \in [A -> [B -> T]],
         NEW a \in A, NEW b \in B, NEW v \in T
  PROVE  [f EXCEPT ![a][b] = v] \in [A -> [B -> T]]
  OBVIOUS

\* Running the callback of a slot delivers the copy the call took of it.
LEMMA InvokeType ==
  ASSUME TypeOK, NEW c \in Calls, NEW s \in Slots, Invoke(c, s)
  PROVE  delivered' \in [Calls -> [Slots -> Targets]]
<1>1. local[c][s] \in Targets
  BY DEF TypeOK
<1> QED BY <1>1, UpdateType DEF TypeOK, Invoke

-------------------------------------------------------------------------------
(* Type correctness *)

\* The initial state is well typed.
LEMMA TypeInit == Init => TypeOK
  BY NamesAreDistinct DEF Init, TypeOK, Slots, Generations, Targets, Installed, Ended, Verdicts

\* Every step keeps the state well typed: one case for each action.
LEMMA TypeStep == TypeOK /\ [Next]_vars => TypeOK'
<1> SUFFICES ASSUME TypeOK, [Next]_vars PROVE TypeOK'
    OBVIOUS
<1> USE NamesAreDistinct DEF args, receiver, history
<1>1. ASSUME NEW c \in Calls, Begin(c) PROVE TypeOK'
  <2>1. ASSUME NEW p \in Calls \cup {None}, NEW S \in SUBSET Slots, SetCallbacks(c, p, S)
        PROVE  TypeOK'
    BY <2>1 DEF SetCallbacks, Enter, TypeOK, Generations
  <2>2. ASSUME NEW p \in Calls \cup {None}, NEW e \in EventNames \cup {None}, Dispatch(c, p, e)
        PROVE  TypeOK'
    BY <2>2 DEF Dispatch, Enter, TypeOK, Generations
  <2>3. ASSUME NEW p \in Calls \cup {None}, NEW e \in EventNames \cup {None},
               NEW v \in Verdicts, ReceiveAndDispatch(c, p, e, v)
        PROVE  TypeOK'
    BY <2>3 DEF ReceiveAndDispatch, Enter, TypeOK, Generations
  <2> QED BY <1>1, <2>1, <2>2, <2>3 DEF Begin
<1>2. ASSUME NEW c \in Calls, Continue(c) PROVE TypeOK'
  <2> USE DEF TypeOK, Step, Ended, Generations, Targets
  <2>1. CASE SetLock(c) BY <2>1 DEF SetLock, Lock
  <2>2. CASE SetUnlock(c) BY <2>2 DEF SetUnlock, Unlock
  <2>3. CASE LookUpKey(c) BY <2>3 DEF LookUpKey
  <2>4. CASE KeyProviderReturns(c) BY <2>4 DEF KeyProviderReturns
  <2>5. CASE DispatchLock(c) BY <2>5 DEF DispatchLock, Lock
  <2>6. CASE DispatchUnlock(c) BY <2>6 DEF DispatchUnlock, Unlock
  <2>7. CASE CopyThrows(c) BY <2>7 DEF CopyThrows, Unlock
  <2>8. ASSUME NEW s \in Slots, MoveSlot(c, s) PROVE TypeOK'
    BY <2>8 DEF MoveSlot, Installed
  <2>9. ASSUME NEW s \in Slots, CopySlot(c, s) PROVE TypeOK'
    BY <2>9 DEF CopySlot
  <2>10. CASE InvokeOnEvent(c) BY <2>10, InvokeType DEF InvokeOnEvent, Invoke, Slots
  <2>11. CASE SkipOnEvent(c) BY <2>11 DEF SkipOnEvent
  <2>12. CASE OnEventReturns(c) BY <2>12 DEF OnEventReturns
  <2>13. CASE InvokeSpecific(c)
    <3>1. event[c] \in Slots
      BY <2>13 DEF InvokeSpecific, SpecificCallback, Slots
    <3> QED BY <2>13, <3>1, InvokeType DEF InvokeSpecific, Invoke
  <2>14. CASE SkipSpecific(c) BY <2>14 DEF SkipSpecific
  <2>15. CASE SpecificReturns(c) BY <2>15 DEF SpecificReturns
  <2>16. CASE UserCodeThrows(c) BY <2>16 DEF UserCodeThrows
  <2> QED BY <1>2, <2>1, <2>2, <2>3, <2>4, <2>5, <2>6, <2>7, <2>8, <2>9, <2>10,
             <2>11, <2>12, <2>13, <2>14, <2>15, <2>16 DEF Continue
<1>3. CASE UNCHANGED vars
  BY <1>3 DEF vars, TypeOK
<1> QED BY <1>1, <1>2, <1>3 DEF Next, AllEnded

\* Every variable keeps its type.
THEOREM TypeCorrect == Spec => []TypeOK
  BY TypeInit, TypeStep, PTL DEF Spec

-------------------------------------------------------------------------------
(* The inductive invariant.  Inv is IInv without the types, which TypeStep  *)
(* carries over.                                                            *)

Inv == /\ MutexHeld
       /\ MembersInstalled
       /\ MoverIsLatest
       /\ CopyAgrees
       /\ SnapshotConsistent
       /\ HistoryInv
       /\ VerifiedInv

\* Only the slots of a call that has not taken effect change.
LEMMA InstalledKept ==
  ASSUME NEW g, slots'[g] = slots[g]
  PROVE  Installed(g)' = Installed(g)
  BY DEF Installed, Slots

\* The initial state satisfies the inductive invariant.
LEMMA InitInv == Init => Inv
<1> SUFFICES ASSUME Init PROVE Inv
    OBVIOUS
<1> USE NamesAreDistinct DEF Init
<1>1. MutexHeld /\ MoverIsLatest /\ CopyAgrees /\ SnapshotConsistent /\ VerifiedInv
  BY DEF MutexHeld, MoverIsLatest, CopyAgrees, SnapshotConsistent, VerifiedInv,
         Critical, Verified, Copied
<1>2. MembersInstalled
  BY DEF MembersInstalled
<1>3. HistoryInv
  BY DEF HistoryInv, TookEffect, Copied
<1> QED BY <1>1, <1>2, <1>3 DEF Inv

\* A call begins: it is idle before, outside every critical section after,
\* and only its own arguments change.
LEMMA BeginInv ==
  ASSUME TypeOK, Inv, NEW c \in Calls, Begin(c)
  PROVE  Inv'
<1>1. /\ pc[c] = "idle"
      /\ \E to \in {"set_lock", "verify", "dispatch_lock"} :
            /\ pc' = [pc EXCEPT ![c] = to]
            /\ to = "dispatch_lock" => verdict' = verdict
      /\ born' = [born EXCEPT ![c] = superseded]
      /\ UNCHANGED <<callbacks_, mutex, left, local, latest, superseded, snapshot, delivered>>
      /\ \A g \in Generations : g # c => slots'[g] = slots[g]
      /\ \A d \in Calls : d # c => verdict'[d] = verdict[d]
  BY DEF Begin, SetCallbacks, Dispatch, ReceiveAndDispatch, Enter, TypeOK, receiver
<1>2. PICK to \in {"set_lock", "verify", "dispatch_lock"} :
         /\ pc' = [pc EXCEPT ![c] = to]
         /\ to = "dispatch_lock" => verdict' = verdict
  BY <1>1
<1>3. \A g \in Generations : TookEffect(g) => g # c /\ Installed(g)' = Installed(g)
  <2> SUFFICES ASSUME NEW g \in Generations, TookEffect(g)
               PROVE  g # c /\ Installed(g)' = Installed(g)
      OBVIOUS
  <2>1. g # c
    BY <1>1 DEF TookEffect
  <2> QED BY <1>1, <2>1, InstalledKept
<1>4. TookEffect(latest) /\ latest # c /\ Installed(latest)' = Installed(latest)
  BY <1>1, <1>3 DEF Inv, HistoryInv, TypeOK
<1>5. MutexHeld' /\ MoverIsLatest'
  BY <1>1, <1>2 DEF Inv, MutexHeld, MoverIsLatest, Critical, TypeOK
<1>6. MembersInstalled'
  BY <1>1, <1>2, <1>4, NamesAreDistinct DEF Inv, MembersInstalled, TypeOK
<1>7. CopyAgrees'
  BY <1>1, <1>2, <1>4 DEF Inv, CopyAgrees, TypeOK
<1>8. SnapshotConsistent'
  <2> SUFFICES ASSUME NEW d \in Calls, pc'[d] \in Copied
               PROVE  local[d] = Installed(snapshot[d])'
      BY <1>1 DEF SnapshotConsistent, Copied
  <2>1. d # c /\ pc[d] \in Copied
    BY <1>2 DEF TypeOK, Copied
  <2>2. snapshot[d] \in Generations /\ TookEffect(snapshot[d])
    BY <2>1 DEF Inv, HistoryInv, TypeOK, Targets
  <2> QED BY <1>1, <1>3, <2>1, <2>2 DEF Inv, SnapshotConsistent, Copied
<1>9. HistoryInv'
  <2>1. \A g : TookEffect(g) => TookEffect(g)'
    BY <1>1, <1>2 DEF TookEffect, TypeOK
  <2> QED BY <1>1, <1>2, <2>1 DEF Inv, HistoryInv, Copied, TypeOK
<1>10. VerifiedInv'
  <2> SUFFICES ASSUME NEW d \in Calls
               PROVE  /\ pc'[d] = "idle" => verdict'[d] = "authentic"
                      /\ pc'[d] \in Verified => verdict'[d] = "authentic"
                      /\ verdict'[d] # "authentic" => \A s \in Slots : delivered'[d][s] = None
      BY DEF VerifiedInv
  <2>1. CASE d = c
    BY <1>1, <1>2, <2>1 DEF Inv, VerifiedInv, HistoryInv, Verified, Copied, TypeOK
  <2>2. CASE d # c
    BY <1>1, <1>2, <2>2 DEF Inv, VerifiedInv, TypeOK
  <2> QED BY <2>1, <2>2
<1> QED BY <1>5, <1>6, <1>7, <1>8, <1>9, <1>10 DEF Inv

\* A step outside the critical sections that only moves the call on, and may
\* run a target of its copy.
LEMMA QuietInv ==
  ASSUME TypeOK, Inv, NEW c \in Calls, NEW to,
         pc' = [pc EXCEPT ![c] = to],
         pc[c] \in {"verify", "key_lookup"} \cup Copied,
         to \in {"key_lookup", "dispatch_lock", "threw"} \cup (Copied \cup {"returned"}),
         to \in {"key_lookup", "dispatch_lock"} => pc[c] \in {"verify", "key_lookup"},
         to \in Copied \cup {"returned"} => pc[c] \in Copied,
         to = "dispatch_lock" => verdict[c] = "authentic",
         \A d \in Calls, s \in Slots :
           delivered'[d][s] # delivered[d][s] =>
             d = c /\ pc[c] \in Copied /\ delivered'[d][s] = local[d][s],
         UNCHANGED <<args, receiver, latest, superseded, born, snapshot>>
  PROVE  Inv'
<1> USE DEF args, receiver
<1>1. MutexHeld' /\ MoverIsLatest'
  BY DEF Inv, MutexHeld, MoverIsLatest, Critical, Copied, TypeOK
<1>2. \A g : TookEffect(g) => TookEffect(g)' /\ g # c
  BY DEF TookEffect, TypeOK, Copied
<1>3. \A g : Installed(g)' = Installed(g)
  BY InstalledKept
<1>4. MembersInstalled'
  BY <1>2, <1>3 DEF Inv, MembersInstalled, HistoryInv, TypeOK
<1>5. CopyAgrees'
  BY <1>3 DEF Inv, CopyAgrees, TypeOK, Copied
<1>6. SnapshotConsistent'
  BY <1>3 DEF Inv, SnapshotConsistent, TypeOK, Copied
<1>7. HistoryInv'
  <2>1. \A s \in Slots : pc[c] \in Copied => local[c][s] \in {None, snapshot[c]}
    BY DEF Inv, SnapshotConsistent, Installed, Copied
  <2>2. \A d \in Calls, s \in Slots : delivered'[d][s] \in {None, snapshot'[d]}
    BY <2>1 DEF Inv, HistoryInv
  <2>3. \A d \in Calls : /\ pc'[d] \in Copied => snapshot'[d] # None
                         /\ pc'[d] \in {"idle", "verify", "key_lookup", "dispatch_lock"}
                              => snapshot'[d] = None
    BY DEF Inv, HistoryInv, TypeOK, Copied
  <2> QED BY <1>2, <2>2, <2>3 DEF Inv, HistoryInv
<1>8. VerifiedInv'
  <2>1. pc[c] \in Copied => verdict[c] = "authentic"
    BY DEF Inv, VerifiedInv, Verified
  <2>2. \A d \in Calls : pc'[d] \in Verified => verdict'[d] = "authentic"
    BY <2>1 DEF Inv, VerifiedInv, Verified, Copied, TypeOK
  <2>3. \A d \in Calls : verdict'[d] # "authentic" => \A s \in Slots : delivered'[d][s] = None
    BY <2>1 DEF Inv, VerifiedInv
  <2>4. \A d \in Calls : pc'[d] = "idle" => verdict'[d] = "authentic"
    BY DEF Inv, VerifiedInv, Copied, TypeOK
  <2> QED BY <2>2, <2>3, <2>4 DEF VerifiedInv
<1> QED BY <1>1, <1>4, <1>5, <1>6, <1>7, <1>8 DEF Inv

\* Taking the mutex to replace the callbacks: the call becomes the latest set,
\* all of its members still to be moved.
LEMMA SetLockInv ==
  ASSUME TypeOK, Inv, NEW c \in Calls, SetLock(c)
  PROVE  Inv'
<1> USE DEF SetLock, Step, Lock, args
<1>1. MutexHeld' /\ MoverIsLatest'
  BY NamesAreDistinct DEF Inv, MutexHeld, MoverIsLatest, Critical, TypeOK
<1>2. \A g : TookEffect(g) => TookEffect(g)' /\ g # c
  BY DEF TookEffect, TypeOK
<1>3. \A g : Installed(g)' = Installed(g)
  BY InstalledKept
<1>4. MembersInstalled'
  BY DEF MembersInstalled, TypeOK
<1>5. \A d \in Calls : pc'[d] # "copying"
  BY NamesAreDistinct DEF Inv, MutexHeld, Critical, TypeOK
<1>6. CopyAgrees'
  BY <1>5 DEF CopyAgrees
<1>7. SnapshotConsistent'
  BY <1>3 DEF Inv, SnapshotConsistent, TypeOK
<1>8. HistoryInv'
  <2>1. TookEffect(c)' /\ c \notin superseded'
    BY <1>2 DEF TookEffect, Inv, HistoryInv, TypeOK
  <2> QED BY <1>2, <2>1 DEF Inv, HistoryInv, TypeOK, Copied
<1>9. VerifiedInv'
  BY DEF Inv, VerifiedInv, Verified, Copied, TypeOK
<1> QED BY <1>1, <1>4, <1>6, <1>7, <1>8, <1>9 DEF Inv

\* SetCallbacks replaces one slot of the callbacks.
LEMMA MoveSlotInv ==
  ASSUME TypeOK, Inv, NEW c \in Calls, NEW s \in Slots, MoveSlot(c, s)
  PROVE  Inv'
<1> USE DEF MoveSlot, Step, args, history
<1>1. pc' = pc /\ latest = c
  BY DEF TypeOK, Inv, MoverIsLatest
<1>2. \A g : Installed(g)' = Installed(g)
  BY InstalledKept
<1>3. MutexHeld' /\ MoverIsLatest'
  BY <1>1 DEF Inv, MutexHeld, MoverIsLatest
<1>4. MembersInstalled'
  BY <1>1, <1>2 DEF Inv, MembersInstalled, TypeOK
<1>5. \A d \in Calls : pc[d] # "copying"
  BY DEF Inv, MutexHeld, Critical
<1>6. CopyAgrees'
  BY <1>1, <1>5 DEF CopyAgrees
<1>7. SnapshotConsistent'
  BY <1>1, <1>2 DEF Inv, SnapshotConsistent
<1>8. HistoryInv' /\ VerifiedInv'
  BY <1>1 DEF Inv, HistoryInv, VerifiedInv, TookEffect
<1> QED BY <1>3, <1>4, <1>6, <1>7, <1>8 DEF Inv

\* SetCallbacks returns: the whole replacement is in place.
LEMMA SetUnlockInv ==
  ASSUME TypeOK, Inv, NEW c \in Calls, SetUnlock(c)
  PROVE  Inv'
<1> USE DEF SetUnlock, Step, Unlock, args, history
<1>1. MutexHeld' /\ MoverIsLatest'
  BY NamesAreDistinct DEF Inv, MutexHeld, MoverIsLatest, Critical, TypeOK
<1>2. \A g : TookEffect(g) => TookEffect(g)'
  BY DEF TookEffect, TypeOK
<1>3. \A g : Installed(g)' = Installed(g)
  BY InstalledKept
<1>4. MembersInstalled'
  BY <1>3 DEF Inv, MembersInstalled, MoverIsLatest, TypeOK
<1>5. CopyAgrees' /\ SnapshotConsistent'
  BY <1>3 DEF Inv, CopyAgrees, SnapshotConsistent, TypeOK
<1>6. HistoryInv'
  BY <1>2 DEF Inv, HistoryInv, TypeOK, Copied
<1>7. VerifiedInv'
  BY DEF Inv, VerifiedInv, Verified, Copied, TypeOK
<1> QED BY <1>1, <1>4, <1>5, <1>6, <1>7 DEF Inv

\* Dispatch takes the mutex, so no replacement is half done.
LEMMA DispatchLockInv ==
  ASSUME TypeOK, Inv, NEW c \in Calls, DispatchLock(c)
  PROVE  Inv'
<1> USE DEF DispatchLock, Step, Lock, args
<1>1. MutexHeld' /\ MoverIsLatest'
  BY NamesAreDistinct DEF Inv, MutexHeld, MoverIsLatest, Critical, TypeOK
<1>2. \A g : TookEffect(g) => TookEffect(g)' /\ g # c
  BY DEF TookEffect, TypeOK
<1>3. \A g : Installed(g)' = Installed(g)
  BY InstalledKept
<1>4. MembersInstalled'
  BY <1>3 DEF Inv, MembersInstalled, MutexHeld, Critical, TypeOK
<1>5. CopyAgrees'
  BY <1>3 DEF Inv, CopyAgrees, TypeOK
<1>6. SnapshotConsistent'
  BY <1>3 DEF Inv, SnapshotConsistent, TypeOK
<1>7. HistoryInv'
  BY <1>2, NamesAreDistinct DEF Inv, HistoryInv, TypeOK, Copied, Generations
<1>8. VerifiedInv'
  BY DEF Inv, VerifiedInv, Verified, Copied, TypeOK
<1> QED BY <1>1, <1>4, <1>5, <1>6, <1>7, <1>8 DEF Inv

\* Dispatch copies one slot under the mutex.
LEMMA CopySlotInv ==
  ASSUME TypeOK, Inv, NEW c \in Calls, NEW s \in Slots, CopySlot(c, s)
  PROVE  Inv'
<1> USE DEF CopySlot, Step, args, history
<1>1. pc' = pc
  BY DEF TypeOK
<1>2. \A g : Installed(g)' = Installed(g)
  BY InstalledKept
<1>3. MutexHeld' /\ MoverIsLatest'
  BY <1>1 DEF Inv, MutexHeld, MoverIsLatest
<1>4. \A d \in Calls : pc[d] # "moving"
  BY DEF Inv, MutexHeld, Critical
<1>5. MembersInstalled'
  BY <1>1, <1>2, <1>4 DEF Inv, MembersInstalled
<1>6. callbacks_[s] = Installed(latest)[s]
  BY <1>4 DEF Inv, MembersInstalled
<1>7. CopyAgrees'
  BY <1>1, <1>2, <1>6 DEF Inv, CopyAgrees, TypeOK
<1>8. SnapshotConsistent'
  BY <1>1, <1>2 DEF Inv, SnapshotConsistent, TypeOK
<1>9. HistoryInv' /\ VerifiedInv'
  BY <1>1 DEF Inv, HistoryInv, VerifiedInv, TookEffect
<1> QED BY <1>3, <1>5, <1>7, <1>8, <1>9 DEF Inv

\* The copy is complete when the mutex is released: it is the set installed.
LEMMA DispatchUnlockInv ==
  ASSUME TypeOK, Inv, NEW c \in Calls, DispatchUnlock(c)
  PROVE  Inv'
<1> USE DEF DispatchUnlock, Step, Unlock, args, history
<1>1. MutexHeld' /\ MoverIsLatest'
  BY NamesAreDistinct DEF Inv, MutexHeld, MoverIsLatest, Critical, TypeOK
<1>2. \A g : TookEffect(g) => TookEffect(g)' /\ g # c
  BY DEF TookEffect, TypeOK
<1>3. \A g : Installed(g)' = Installed(g)
  BY InstalledKept
<1>4. MembersInstalled'
  BY <1>2, <1>3 DEF Inv, MembersInstalled, HistoryInv, TypeOK
<1>5. CopyAgrees'
  BY <1>3 DEF Inv, CopyAgrees, TypeOK
<1>6. local[c] = Installed(snapshot[c])
  BY DEF Inv, CopyAgrees, TypeOK, Installed
<1>7. SnapshotConsistent'
  BY <1>3, <1>6 DEF Inv, SnapshotConsistent, TypeOK
<1>8. HistoryInv'
  <2>1. snapshot[c] # None
    BY NamesAreDistinct DEF Inv, CopyAgrees, TypeOK, Generations
  <2> QED BY <1>2, <2>1 DEF Inv, HistoryInv, TypeOK, Copied
<1>9. VerifiedInv'
  BY DEF Inv, VerifiedInv, Verified, Copied, TypeOK
<1> QED BY <1>1, <1>4, <1>5, <1>7, <1>8, <1>9 DEF Inv

\* Copying a slot fails: the lock_guard releases the mutex.
LEMMA CopyThrowsInv ==
  ASSUME TypeOK, Inv, NEW c \in Calls, CopyThrows(c)
  PROVE  Inv'
<1> USE DEF CopyThrows, Step, Unlock, args, history
<1>1. MutexHeld' /\ MoverIsLatest'
  BY NamesAreDistinct DEF Inv, MutexHeld, MoverIsLatest, Critical, TypeOK
<1>2. \A g : TookEffect(g) => TookEffect(g)' /\ g # c
  BY DEF TookEffect, TypeOK
<1>3. \A g : Installed(g)' = Installed(g)
  BY InstalledKept
<1>4. MembersInstalled'
  BY <1>2, <1>3 DEF Inv, MembersInstalled, HistoryInv, TypeOK
<1>5. CopyAgrees' /\ SnapshotConsistent'
  BY <1>3 DEF Inv, CopyAgrees, SnapshotConsistent, TypeOK
<1>6. HistoryInv'
  BY <1>2 DEF Inv, HistoryInv, TypeOK, Copied
<1>7. VerifiedInv'
  BY DEF Inv, VerifiedInv, Verified, Copied, TypeOK
<1> QED BY <1>1, <1>4, <1>5, <1>6, <1>7 DEF Inv

\* Running a target or moving on: the cases of QuietInv.
LEMMA InvokeInv ==
  ASSUME TypeOK, Inv, NEW c \in Calls, InvokeOnEvent(c) \/ InvokeSpecific(c)
  PROVE  Inv'
<1>1. CASE InvokeOnEvent(c)
  <2>1. \A d \in Calls, s \in Slots :
          delivered'[d][s] # delivered[d][s] => d = c /\ delivered'[d][s] = local[d][s]
    BY <1>1 DEF InvokeOnEvent, Invoke, TypeOK
  <2>2. pc' = [pc EXCEPT ![c] = "on_event"] /\ pc[c] = "on_event_check"
    BY <1>1 DEF InvokeOnEvent, Step
  <2>3. UNCHANGED <<args, receiver, latest, superseded, born, snapshot>>
    BY <1>1 DEF InvokeOnEvent, Invoke
  <2>4. pc[c] \in Copied /\ "on_event" \in Copied /\ "on_event" \notin {"key_lookup", "dispatch_lock"}
    BY <2>2 DEF Copied
  <2> QED BY <2>1, <2>2, <2>3, <2>4, QuietInv
<1>2. CASE InvokeSpecific(c)
  <2>1. \A d \in Calls, s \in Slots :
          delivered'[d][s] # delivered[d][s] => d = c /\ delivered'[d][s] = local[d][s]
    BY <1>2 DEF InvokeSpecific, Invoke, TypeOK
  <2>2. pc' = [pc EXCEPT ![c] = "specific"] /\ pc[c] = "specific_check"
    BY <1>2 DEF InvokeSpecific, Step
  <2>3. UNCHANGED <<args, receiver, latest, superseded, born, snapshot>>
    BY <1>2 DEF InvokeSpecific, Invoke
  <2>4. pc[c] \in Copied /\ "specific" \in Copied /\ "specific" \notin {"key_lookup", "dispatch_lock"}
    BY <2>2 DEF Copied
  <2> QED BY <2>1, <2>2, <2>3, <2>4, QuietInv
<1> QED BY <1>1, <1>2

\* The remaining steps of a call leave mutex and callbacks alone.
LEMMA MoveOnInv ==
  ASSUME TypeOK, Inv, NEW c \in Calls,
         \/ LookUpKey(c) \/ KeyProviderReturns(c) \/ SkipOnEvent(c) \/ OnEventReturns(c)
         \/ SkipSpecific(c) \/ SpecificReturns(c) \/ UserCodeThrows(c)
  PROVE  Inv'
<1> USE QuietInv DEF Step, Copied, history
<1>1. CASE LookUpKey(c) BY <1>1 DEF LookUpKey
<1>2. CASE KeyProviderReturns(c) BY <1>2 DEF KeyProviderReturns
<1>3. CASE SkipOnEvent(c) BY <1>3 DEF SkipOnEvent
<1>4. CASE OnEventReturns(c) BY <1>4 DEF OnEventReturns
<1>5. CASE SkipSpecific(c) BY <1>5 DEF SkipSpecific
<1>6. CASE SpecificReturns(c) BY <1>6 DEF SpecificReturns
<1>7. CASE UserCodeThrows(c) BY <1>7 DEF UserCodeThrows
<1> QED BY <1>1, <1>2, <1>3, <1>4, <1>5, <1>6, <1>7

\* Every step preserves the inductive invariant: one case for each action.
LEMMA InvStep == TypeOK /\ Inv /\ [Next]_vars => Inv'
<1> SUFFICES ASSUME TypeOK, Inv, [Next]_vars PROVE Inv'
    OBVIOUS
<1>1. ASSUME NEW c \in Calls, Begin(c) PROVE Inv'
  BY <1>1, BeginInv
<1>2. ASSUME NEW c \in Calls, Continue(c) PROVE Inv'
  BY <1>2, SetLockInv, MoveSlotInv, SetUnlockInv, DispatchLockInv, CopySlotInv,
     DispatchUnlockInv, CopyThrowsInv, InvokeInv, MoveOnInv DEF Continue
<1>3. CASE UNCHANGED vars
  BY <1>3 DEF vars, args, receiver, history, Inv, MutexHeld, MembersInstalled, MoverIsLatest,
     CopyAgrees, SnapshotConsistent, HistoryInv, VerifiedInv, TookEffect, Installed
<1> QED BY <1>1, <1>2, <1>3 DEF Next, AllEnded

\* The inductive invariant holds in every state.
THEOREM Invariance == Spec => [](TypeOK /\ Inv)
<1>1. Init => TypeOK /\ Inv
  BY TypeInit, InitInv
<1>2. (TypeOK /\ Inv) /\ [Next]_vars => (TypeOK /\ Inv)'
  BY TypeStep, InvStep
<1> QED BY <1>1, <1>2, PTL DEF Spec

-------------------------------------------------------------------------------
\* However many threads replace and dispatch callbacks, and whatever their
\* callbacks do, a dispatch acts on exactly one installed set of callbacks.
THEOREM DispatchSeesOneSet == Spec => []SnapshotConsistent
  BY Invariance, PTL DEF Inv

\* No dispatch runs a callback that was replaced before the dispatch began.
THEOREM NoStaleCallback == Spec => []Fresh
<1>1. TypeOK /\ Inv => Fresh
  BY NamesAreDistinct DEF Inv, HistoryInv, Fresh, TypeOK, Generations
<1> QED BY <1>1, Invariance, PTL

\* ReceiveAndDispatch runs no callback for a request that fails verification.
THEOREM NoUnverifiedEvent == Spec => []OnlyVerified
<1>1. TypeOK /\ Inv => OnlyVerified
  BY DEF Inv, VerifiedInv, OnlyVerified
<1> QED BY <1>1, Invariance, PTL

-------------------------------------------------------------------------------
(* Refinement of CallbackRegister *)

Moves(c, to) == Phases' = [Phases EXCEPT ![c] = PhaseAt(to)]

\* A call that moves changes its own phase in the abstract register only.
LEMMA PhasesMove ==
  ASSUME TypeOK, NEW c \in Calls, NEW to, pc' = [pc EXCEPT ![c] = to]
  PROVE  Moves(c, to) /\ Phases[c] = PhaseAt(pc[c])
  BY DEF TypeOK, Phases, Moves

\* What a copy taken under the mutex says of the set it was taken from.
LEMMA CopyOfSnapshot ==
  ASSUME TypeOK, Inv, NEW c \in Calls, pc[c] \in Copied, NEW s \in Slots
  PROVE  /\ local[c][s] # None <=> s \in slots[snapshot[c]]
         /\ local[c][s] # None => local[c][s] = snapshot[c]
<1>1. snapshot[c] \in Generations /\ snapshot[c] # None
  BY DEF Inv, HistoryInv, TypeOK, Targets
<1> QED BY <1>1 DEF Inv, SnapshotConsistent, Installed, Copied

\* The initial state is an initial state of the abstract register.
LEMMA RegisterInit == Init => Register!Init
  BY DEF Init, Register!Init, Phases, PhaseAt, Slots, Generations, Register!Slots, Register!Generations

\* Every step is a step of the abstract register or leaves it alone.
LEMMA RegisterStep == TypeOK /\ Inv /\ [Next]_vars => [Register!Next]_(Register!vars)
<1> SUFFICES ASSUME TypeOK, Inv, [Next]_vars PROVE [Register!Next]_(Register!vars)
    OBVIOUS
<1> USE PhasesMove DEF Moves, PhaseAt, Register!Move, Register!vars, args, receiver, history
<1>1. ASSUME NEW c \in Calls, Begin(c) PROVE Register!Next
  <2>1. ASSUME NEW p \in Calls \cup {None}, NEW S \in SUBSET Slots, SetCallbacks(c, p, S)
        PROVE  Register!Offer(c, S)
    BY <2>1 DEF SetCallbacks, Enter, Register!Offer
  <2>2. ASSUME NEW p \in Calls \cup {None}, NEW e \in EventNames \cup {None}, Dispatch(c, p, e)
        PROVE  Register!Request(c, e)
    BY <2>2 DEF Dispatch, Enter, Register!Request
  <2>3. ASSUME NEW p \in Calls \cup {None}, NEW e \in EventNames \cup {None},
               NEW v \in Verdicts, ReceiveAndDispatch(c, p, e, v)
        PROVE  Register!Request(c, e)
    BY <2>3 DEF ReceiveAndDispatch, Enter, Register!Request
  <2> QED BY <1>1, <2>1, <2>2, <2>3 DEF Begin, Register!Next, Slots, Register!Slots
<1>2. ASSUME NEW c \in Calls, Continue(c) PROVE [Register!Next]_(Register!vars)
  <2> USE DEF Step
  <2>1. CASE SetLock(c)
    BY <2>1 DEF SetLock, Register!Replace, Register!Next
  <2>2. CASE SetUnlock(c) \/ (\E s \in Slots : MoveSlot(c, s) \/ CopySlot(c, s))
    BY <2>2 DEF SetUnlock, MoveSlot, CopySlot, Phases, TypeOK
  <2>3. CASE LookUpKey(c)
    <3>1. CASE verdict[c] = "malformed"
      BY <2>3, <3>1 DEF LookUpKey, Register!Throw, Register!Next
    <3>2. CASE verdict[c] # "malformed"
      BY <2>3, <3>2 DEF LookUpKey, Phases, TypeOK
    <3> QED BY <3>1, <3>2
  <2>4. CASE KeyProviderReturns(c)
    <3>1. CASE verdict[c] # "authentic"
      BY <2>4, <3>1 DEF KeyProviderReturns, Register!Throw, Register!Next
    <3>2. CASE verdict[c] = "authentic"
      BY <2>4, <3>2 DEF KeyProviderReturns, Phases, TypeOK
    <3> QED BY <3>1, <3>2
  <2>5. CASE DispatchLock(c)
    BY <2>5 DEF DispatchLock, Register!Take, Register!Next
  <2>6. CASE DispatchUnlock(c)
    BY <2>6 DEF DispatchUnlock, Phases, TypeOK
  <2>7. CASE CopyThrows(c)
    BY <2>7 DEF CopyThrows, Register!Throw, Register!Next
  <2>8. CASE InvokeOnEvent(c)
    <3>1. local[c][OnEvent] = snapshot[c] /\ OnEvent \in slots[snapshot[c]]
      BY <2>8, CopyOfSnapshot DEF InvokeOnEvent, Copied, Slots
    <3> QED BY <2>8, <3>1 DEF InvokeOnEvent, Invoke, Register!RunOnEvent, Register!Run, Register!Next
  <2>9. CASE SkipOnEvent(c)
    <3>1. OnEvent \notin slots[snapshot[c]]
      BY <2>9, CopyOfSnapshot DEF SkipOnEvent, Copied, Slots
    <3> QED BY <2>9, <3>1 DEF SkipOnEvent, Register!Notified, Register!Next
  <2>10. CASE OnEventReturns(c)
    BY <2>10 DEF OnEventReturns, Register!Notified, Register!Next
  <2>11. CASE InvokeSpecific(c)
    <3>1. /\ event[c] \in EventNames
          /\ local[c][event[c]] = snapshot[c] /\ event[c] \in slots[snapshot[c]]
      BY <2>11, CopyOfSnapshot DEF InvokeSpecific, SpecificCallback, Copied, Slots
    <3> QED BY <2>11, <3>1 DEF InvokeSpecific, Invoke, Register!RunSpecific, Register!Run, Register!Next
  <2>12. CASE SkipSpecific(c)
    <3>1. event[c] \notin slots[snapshot[c]]
      <4>1. snapshot[c] \in Generations /\ event[c] \in EventNames \cup {None}
        BY <2>12 DEF SkipSpecific, Inv, HistoryInv, TypeOK, Targets, Copied
      <4>2. CASE event[c] \in EventNames
        BY <2>12, <4>2, CopyOfSnapshot DEF SkipSpecific, SpecificCallback, Copied, Slots
      <4>3. CASE event[c] = None
        BY <4>1, <4>3, NamesAreDistinct DEF TypeOK, Slots
      <4> QED BY <4>1, <4>2, <4>3
    <3> QED BY <2>12, <3>1 DEF SkipSpecific, Register!Return, Register!Next
  <2>13. CASE SpecificReturns(c)
    BY <2>13 DEF SpecificReturns, Register!Return, Register!Next
  <2>14. CASE UserCodeThrows(c)
    BY <2>14 DEF UserCodeThrows, Register!Throw, Register!Next
  <2> QED BY <1>2, <2>1, <2>2, <2>3, <2>4, <2>5, <2>6, <2>7, <2>8, <2>9, <2>10,
             <2>11, <2>12, <2>13, <2>14 DEF Continue
<1>3. CASE UNCHANGED vars
  BY <1>3 DEF vars, Phases
<1> QED BY <1>1, <1>2, <1>3 DEF Next, AllEnded

\* The mutex and the member-wise copies implement the atomic register: each
\* dispatch runs on_event and then the specific callback of one set, once.
THEOREM RegisterImplemented == Spec => ImplementsRegister
<1>1. Spec => Register!Init /\ [][Register!Next]_(Register!vars)
  BY RegisterInit, RegisterStep, Invariance, PTL DEF Spec
<1> QED BY <1>1 DEF ImplementsRegister, Register!Spec
==============================================================================
