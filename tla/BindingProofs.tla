---------------------------- MODULE BindingProofs ----------------------------
(***************************************************************************)
(* Proofs about the bindings, for any set of calls: the webhook receivers  *)
(* (CallbackSlot.tla), the call of lks_invoke (CAbi.tla), and the calls of *)
(* PHP, Python, Ruby, Rust and Java with the local references of its JNI   *)
(* code.  A part per module has its inductive invariant (...IInv), one     *)
(* lemma per group of its actions and the theorems it gives; the last part *)
(* puts those of MCBindingCalls together.                                  *)
(***************************************************************************)
EXTENDS MCBindingCalls, MCCallbackSlot, SequenceTheorems, WellFoundedInduction, TLAPS

-------------------------------------------------------------------------------

\* WebhookReceiver of the bindings

\* The constants' assumption, as the proofs use it.
LEMMA SlotNames == Ctor \notin SlotCalls /\ NoCall \notin SlotCalls \cup {Ctor, OnEvent}
  BY SlotNamesAreDistinct DEF Slot!NamesAreDistinct

SlotPlaces == {"idle", "set_lock", "writing", "dropping_old", "destroying_old", "unlocking",
           "verify", "key_lookup", "dispatch_lock", "reading", "checking", "calling", "leaving",
           "destroying", "returned", "threw"}

SlotTypeOK ==
  /\ binding \in Bindings
  /\ slot_pc \in [SlotCalls -> SlotPlaces]
  /\ slot_parent \in [SlotCalls -> SlotCalls \cup {NoCall}]
  /\ slots \in [Slot!Generations -> SUBSET {OnEvent}]
  /\ callback \in [{"code", "data"} -> Slot!Generations \cup {NoCall}]
  /\ writer \in SlotCalls \cup {NoCall} /\ readers \subseteq SlotCalls
  /\ left \in [SlotCalls -> SUBSET Slot!Words]
  /\ local \in [SlotCalls -> [{"code", "data"} -> Slot!Generations \cup {NoCall}]]
  /\ latest \in Slot!Generations
  /\ snapshot \in [SlotCalls -> Slot!Generations \cup {NoCall}]
  /\ delivered \in [SlotCalls -> Slot!Generations \cup {NoCall}]

\* Who holds the lock is in the code it guards, and the other way round.  Python
\* drops the old callback there.
SlotLockInv ==
  /\ \A c \in SlotCalls : writer = c =>
       \/ slot_pc[c] \in {"writing", "reading"}
       \/ binding = "python" /\ slot_pc[c] \in {"dropping_old", "destroying_old", "unlocking"}
  /\ \A c \in readers : slot_pc[c] = "reading"
  /\ writer # NoCall => readers = {}
  /\ Slot!Locked => \A c \in SlotCalls : /\ slot_pc[c] = "writing" => writer = c
                                         /\ slot_pc[c] = "reading" => writer = c \/ c \in readers

\* The words are those of the latest callback, but for the ones a call that holds
\* the lock has still to write.
SlotWordsInv ==
  \A w \in Slot!Words : \/ callback[w] = Slot!Target(latest)
                        \/ \E c \in SlotCalls : slot_pc[c] = "writing"
                           /\ left[c] # Slot!Words /\ w \in left[c]

\* What a call has read is the callback that was the latest when it began to.
SlotReadInv == \A c \in SlotCalls :
  /\ slot_pc[c] = "reading" /\ left[c] # Slot!Words =>
       /\ snapshot[c] \in Slot!Generations
       /\ \A w \in Slot!Words \ left[c] : local[c][w] = Slot!Target(snapshot[c])
       /\ Slot!Locked => snapshot[c] = latest
  /\ slot_pc[c] = "checking" => \A w \in Slot!Words : local[c][w] = Slot!Target(snapshot[c])
  /\ slot_pc[c] \in {"checking", "calling", "leaving", "destroying"} =>
     snapshot[c] \in Slot!Generations

SlotWriteInv == \A c \in SlotCalls :
  /\ Slot!Locked /\ slot_pc[c] = "writing" /\ left[c] # Slot!Words => latest = c
  /\ slot_pc[c] = "idle" => latest # c /\ \A d \in SlotCalls : snapshot[d] # c

SlotIInv == SlotTypeOK /\ SlotLockInv /\ SlotWordsInv /\ SlotReadInv /\ SlotWriteInv

\* The words of a callback, and that one without a lock has one word.
LEMMA SlotWordsFit ==
  /\ "code" \in Slot!Words /\ Slot!Words \subseteq {"code", "data"}
  /\ ~Slot!Locked => Slot!Words = {"code"}
  BY DEF Slot!Words, Slot!Locked

\* The invariant holds when the receiver was made.
LEMMA SlotInitInv == Slot!Init => SlotIInv
<1> SUFFICES ASSUME Slot!Init PROVE SlotIInv
  OBVIOUS
<1>1. SlotTypeOK
  <2>1. slots \in [Slot!Generations -> SUBSET {OnEvent}]
    BY DEF Slot!Init
  <2>2. Slot!Target(Ctor) \in Slot!Generations \cup {NoCall}
    BY DEF Slot!Target, Slot!Generations
  <2> QED BY <2>1, <2>2, SlotWordsFit
          DEF Slot!Init, SlotTypeOK, SlotPlaces, Slot!Whole, Slot!Generations
<1>2. SlotLockInv
  BY SlotNames DEF Slot!Init, SlotLockInv
<1>3. SlotWordsInv
  BY SlotWordsFit DEF Slot!Init, SlotWordsInv, Slot!Whole
<1>4. SlotReadInv /\ SlotWriteInv
  BY SlotNames DEF Slot!Init, SlotReadInv, SlotWriteInv
<1> QED BY <1>1, <1>2, <1>3, <1>4 DEF SlotIInv

\* The lock of a binding: taken alone, shared, given back.
LEMMA SlotEnterInv ==
  ASSUME SlotIInv, NEW c \in SlotCalls, NEW p \in SlotCalls \cup {NoCall},
         NEW to \in {"set_lock", "verify", "dispatch_lock"},
         NEW S \in SUBSET {OnEvent}, Slot!Enter(c, p, to),
         slots' = [slots EXCEPT ![c] = S] \/ slots' = slots
  PROVE  SlotIInv'
<1> USE DEF SlotIInv, Slot!Enter, Slot!fields, Slot!history
<1>1. Slot!Words' = Slot!Words /\ (Slot!Locked' <=> Slot!Locked)
  BY DEF Slot!Words, Slot!Locked
<1>2. slot_pc[c] = "idle" /\ latest # c /\ \A d \in SlotCalls : snapshot[d] # c
  BY DEF SlotWriteInv
<1>3. \A g \in Slot!Generations : g # c => Slot!Target(g)' = Slot!Target(g)
  BY DEF Slot!Target, SlotTypeOK
<1>4. SlotTypeOK'
  BY <1>1 DEF SlotTypeOK, SlotPlaces, Slot!Generations
<1>5. SlotLockInv'
  BY <1>1, <1>2 DEF SlotLockInv, SlotTypeOK
<1>6. SlotWordsInv'
  BY <1>1, <1>2, <1>3 DEF SlotWordsInv, SlotTypeOK
<1>7. SlotReadInv'
  BY <1>1, <1>2, <1>3 DEF SlotReadInv, SlotTypeOK
<1>8. SlotWriteInv'
  BY <1>1, <1>2 DEF SlotWriteInv, SlotTypeOK
<1> QED BY <1>4, <1>5, <1>6, <1>7, <1>8

\* A step that touches nothing but where the call is.
LEMMA SlotMoveInv ==
  ASSUME SlotIInv, NEW c \in SlotCalls, NEW from, NEW to, Slot!Step(c, from, to),
         UNCHANGED <<Slot!fields, Slot!history>>,
         \/ /\ from = "writing" /\ to = "dropping_old" /\ left[c] = {}
            /\ binding = "python"
         \/ from = "destroying_old" /\ to = Slot!Dropped
         \/ from = "verify" /\ to \in {"key_lookup", "threw"}
         \/ from = "key_lookup" /\ to \in {"dispatch_lock", "threw"}
         \/ from = "checking" /\ to = "leaving"
         \/ from = "calling" /\ to = "leaving"
         \/ from = "destroying" /\ to \in Slot!Ended
  PROVE  SlotIInv'
<1> USE DEF SlotIInv, Slot!Step, Slot!fields, Slot!history, Slot!Ended, Slot!Dropped
<1>1. /\ Slot!Words' = Slot!Words /\ (Slot!Locked' <=> Slot!Locked)
      /\ \A g \in Slot!Generations : Slot!Target(g)' = Slot!Target(g)
  BY DEF Slot!Words, Slot!Locked, Slot!Target
<1>4. SlotTypeOK'
  BY <1>1 DEF SlotTypeOK, SlotPlaces, Slot!Generations
<1>5. SlotLockInv'
  BY <1>1 DEF SlotLockInv, SlotTypeOK
<1>6. SlotWordsInv'
  BY <1>1 DEF SlotWordsInv, SlotTypeOK
<1>7. SlotReadInv'
  BY <1>1 DEF SlotReadInv, SlotTypeOK
<1>8. SlotWriteInv'
  BY <1>1 DEF SlotWriteInv, SlotTypeOK
<1> QED BY <1>4, <1>5, <1>6, <1>7, <1>8

\* Words, locks and targets are those of the binding, in every step.
LEMMA SlotBindingKept ==
  ASSUME NEW c \in SlotCalls, NEW from, NEW to, Slot!Step(c, from, to)
  PROVE  /\ Slot!Words' = Slot!Words /\ (Slot!Locked' <=> Slot!Locked)
         /\ \A g \in Slot!Generations : Slot!Target(g)' = Slot!Target(g)
  BY DEF Slot!Step, Slot!Words, Slot!Locked, Slot!Target

\* A callback that is one word is written, and read, at once.
LEMMA SlotOneWord ==
  ASSUME SlotIInv, ~Slot!Locked, NEW c \in SlotCalls, NEW w \in left[c]
  PROVE  left[c] = Slot!Words
<1>1. left[c] \subseteq {"code"} /\ Slot!Words = {"code"}
  BY SlotWordsFit DEF SlotIInv, SlotTypeOK
<1> QED BY <1>1

\* set_callback takes the lock.
LEMMA SlotSetLockInv ==
  ASSUME SlotIInv, NEW c \in SlotCalls, Slot!SetLock(c)
  PROVE  SlotIInv'
<1> USE SlotBindingKept, SlotWordsFit
    DEF SlotIInv, Slot!SetLock, Slot!Step, Slot!Lock, Slot!history
<1>1. /\ Slot!Words' = Slot!Words /\ (Slot!Locked' <=> Slot!Locked)
      /\ \A g \in Slot!Generations : Slot!Target(g)' = Slot!Target(g)
  OBVIOUS
<1>4. SlotTypeOK'
  BY <1>1 DEF SlotTypeOK, SlotPlaces, Slot!Generations
<1>5. SlotLockInv'
  BY <1>1, SlotNames DEF SlotLockInv, SlotTypeOK
<1>6. SlotWordsInv'
  BY <1>1 DEF SlotWordsInv, SlotTypeOK
<1>7. SlotReadInv'
  BY <1>1 DEF SlotReadInv, SlotTypeOK
<1>8. SlotWriteInv'
  BY <1>1 DEF SlotWriteInv, SlotTypeOK
<1> QED BY <1>4, <1>5, <1>6, <1>7, <1>8

\* A call that holds the lock writes the next word of its callback.
LEMMA SlotWriteWordInv ==
  ASSUME SlotIInv, NEW c \in SlotCalls, NEW w \in Slot!Words, Slot!WriteWord(c, w)
  PROVE  SlotIInv'
<1> USE SlotBindingKept, SlotWordsFit DEF SlotIInv, Slot!WriteWord, Slot!Step
<1>1. /\ Slot!Words' = Slot!Words /\ (Slot!Locked' <=> Slot!Locked)
      /\ \A g \in Slot!Generations : Slot!Target(g)' = Slot!Target(g)
  OBVIOUS
<1>2. c \in Slot!Generations /\ Slot!Target(c) \in Slot!Generations \cup {NoCall}
  BY DEF Slot!Generations, Slot!Target
<1>4. SlotTypeOK'
  BY <1>1, <1>2 DEF SlotTypeOK, SlotPlaces
<1>5. SlotLockInv'
  BY <1>1 DEF SlotLockInv, SlotTypeOK
<1>6. SlotWordsInv'
  <2> SUFFICES ASSUME NEW v \in Slot!Words
               PROVE  \/ callback'[v] = Slot!Target(c)
                      \/ slot_pc'[c] = "writing" /\ left'[c] # Slot!Words /\ v \in left'[c]
    BY <1>1, <1>2 DEF SlotWordsInv
  <2>1. CASE v = w
    BY <2>1 DEF SlotTypeOK
  <2>2. CASE v # w /\ v \in left[c]
    BY <2>2 DEF SlotTypeOK
  <2>3. CASE v # w /\ v \notin left[c]
    <3>1. Slot!Locked /\ left[c] # Slot!Words
      BY <2>3
    <3>2. latest = c
      BY <3>1 DEF SlotWriteInv
    <3>3. \A d \in SlotCalls : slot_pc[d] = "writing" => d = c
      BY <3>1 DEF SlotLockInv
    <3>4. callback[v] = Slot!Target(c)
      BY <2>3, <3>2, <3>3 DEF SlotWordsInv
    <3> QED BY <2>3, <3>4 DEF SlotTypeOK
  <2> QED BY <2>1, <2>2, <2>3
<1>7. SlotReadInv'
  BY <1>1, SlotNames DEF SlotReadInv, SlotTypeOK, SlotLockInv
<1>8. SlotWriteInv'
  BY <1>1 DEF SlotWriteInv, SlotTypeOK, SlotLockInv
<1> QED BY <1>4, <1>5, <1>6, <1>7, <1>8

\* set_callback gives the lock back, every word written.
LEMMA SlotSetUnlockInv ==
  ASSUME SlotIInv, NEW c \in SlotCalls, Slot!SetUnlock(c)
  PROVE  SlotIInv'
<1> USE SlotBindingKept, SlotWordsFit
    DEF SlotIInv, Slot!SetUnlock, Slot!Step, Slot!Unlock, Slot!history
<1>1. /\ Slot!Words' = Slot!Words /\ (Slot!Locked' <=> Slot!Locked)
      /\ \A g \in Slot!Generations : Slot!Target(g)' = Slot!Target(g)
  OBVIOUS
<1>4. SlotTypeOK'
  BY <1>1 DEF SlotTypeOK, SlotPlaces, Slot!Generations
<1>5. SlotLockInv'
  BY <1>1, SlotNames DEF SlotLockInv, SlotTypeOK
<1>6. SlotWordsInv'
  BY <1>1 DEF SlotWordsInv, SlotTypeOK
<1>7. SlotReadInv'
  BY <1>1 DEF SlotReadInv, SlotTypeOK
<1>8. SlotWriteInv'
  BY <1>1 DEF SlotWriteInv, SlotTypeOK
<1> QED BY <1>4, <1>5, <1>6, <1>7, <1>8

\* Letting go of a callback.
LEMMA SlotLetGoInv ==
  ASSUME SlotIInv, NEW c \in SlotCalls, NEW from, NEW to, Slot!Step(c, from, to),
         local' = [local EXCEPT ![c] = Slot!Whole(NoCall)],
         UNCHANGED <<callback, writer, readers, left, Slot!history>>,
         \/ from = "dropping_old" /\ to \in {"destroying_old", Slot!Dropped}
         \/ from = "leaving" /\ to \in {"destroying", "returned", "threw"}
  PROVE  SlotIInv'
<1> USE SlotBindingKept, SlotWordsFit
    DEF SlotIInv, Slot!Step, Slot!Whole, Slot!history, Slot!Dropped
<1>1. /\ Slot!Words' = Slot!Words /\ (Slot!Locked' <=> Slot!Locked)
      /\ \A g \in Slot!Generations : Slot!Target(g)' = Slot!Target(g)
  OBVIOUS
<1>4. SlotTypeOK'
  BY <1>1 DEF SlotTypeOK, SlotPlaces, Slot!Generations
<1>5. SlotLockInv'
  BY <1>1 DEF SlotLockInv, SlotTypeOK
<1>6. SlotWordsInv'
  BY <1>1 DEF SlotWordsInv, SlotTypeOK
<1>7. SlotReadInv'
  BY <1>1 DEF SlotReadInv, SlotTypeOK
<1>8. SlotWriteInv'
  BY <1>1 DEF SlotWriteInv, SlotTypeOK
<1> QED BY <1>4, <1>5, <1>6, <1>7, <1>8

\* dispatch takes the lock, or in Rust a share of it.
LEMMA SlotDispatchLockInv ==
  ASSUME SlotIInv, NEW c \in SlotCalls, Slot!DispatchLock(c)
  PROVE  SlotIInv'
<1> USE SlotBindingKept, SlotWordsFit
    DEF SlotIInv, Slot!DispatchLock, Slot!Step, Slot!Lock, Slot!Share, Slot!history
<1>1. /\ Slot!Words' = Slot!Words /\ (Slot!Locked' <=> Slot!Locked)
      /\ \A g \in Slot!Generations : Slot!Target(g)' = Slot!Target(g)
  OBVIOUS
<1>4. SlotTypeOK'
  BY <1>1 DEF SlotTypeOK, SlotPlaces, Slot!Generations
<1>5. SlotLockInv'
  BY <1>1, SlotNames DEF SlotLockInv, SlotTypeOK, Slot!Locked
<1>6. SlotWordsInv'
  BY <1>1 DEF SlotWordsInv, SlotTypeOK
<1>7. SlotReadInv'
  BY <1>1 DEF SlotReadInv, SlotTypeOK
<1>8. SlotWriteInv'
  BY <1>1 DEF SlotWriteInv, SlotTypeOK
<1> QED BY <1>4, <1>5, <1>6, <1>7, <1>8

\* dispatch reads the next word: the first one says which callback it takes.
LEMMA SlotReadWordInv ==
  ASSUME SlotIInv, NEW c \in SlotCalls, NEW w \in Slot!Words, Slot!ReadWord(c, w)
  PROVE  SlotIInv'
<1> USE SlotBindingKept, SlotWordsFit DEF SlotIInv, Slot!ReadWord, Slot!Step
<1>1. /\ Slot!Words' = Slot!Words /\ (Slot!Locked' <=> Slot!Locked)
      /\ \A g \in Slot!Generations : Slot!Target(g)' = Slot!Target(g)
  OBVIOUS
<1>2. callback[w] = Slot!Target(latest)
  <2>1. \A d \in SlotCalls : ~(slot_pc[d] = "writing" /\ left[d] # Slot!Words /\ w \in left[d])
    <3>1. CASE Slot!Locked
      BY <3>1, SlotNames DEF SlotLockInv
    <3>2. CASE ~Slot!Locked
      BY <3>2, SlotOneWord
    <3> QED BY <3>1, <3>2
  <2> QED BY <2>1 DEF SlotWordsInv
<1>3. left[c] # Slot!Words => Slot!Locked /\ snapshot[c] = latest
  BY SlotOneWord DEF SlotReadInv
<1>4. SlotTypeOK'
  <2>1. callback[w] \in Slot!Generations \cup {NoCall}
    BY DEF SlotTypeOK
  <2>2. local' \in [SlotCalls -> [{"code", "data"} -> Slot!Generations \cup {NoCall}]]
    BY <2>1 DEF SlotTypeOK
  <2> QED BY <1>1, <2>2 DEF SlotTypeOK, SlotPlaces
<1>5. SlotLockInv'
  BY <1>1 DEF SlotLockInv, SlotTypeOK
<1>6. SlotWordsInv'
  BY <1>1 DEF SlotWordsInv, SlotTypeOK
<1>7. snapshot'[c] = latest
  BY <1>3 DEF SlotTypeOK
<1>8. \A v \in Slot!Words \ left'[c] : local'[c][v] = Slot!Target(latest)
  <2> SUFFICES ASSUME NEW v \in Slot!Words \ left'[c]
               PROVE  local'[c][v] = Slot!Target(latest)
    OBVIOUS
  <2>1. CASE v = w
    BY <2>1, <1>2 DEF SlotTypeOK
  <2>2. CASE v # w
    <3>1. v \notin left[c] /\ left[c] # Slot!Words
      BY <2>2 DEF SlotTypeOK
    <3>2. local[c][v] = Slot!Target(latest)
      BY <3>1, <1>3 DEF SlotReadInv
    <3> QED BY <2>2, <3>2 DEF SlotTypeOK
  <2> QED BY <2>1, <2>2
<1>9. SlotReadInv'
  <2>1. latest \in Slot!Generations /\ latest' = latest
    BY DEF SlotTypeOK
  <2>2. \A d \in SlotCalls \ {c} : /\ slot_pc'[d] = slot_pc[d] /\ left'[d] = left[d]
        /\ local'[d] = local[d]
                                   /\ snapshot'[d] = snapshot[d]
    BY DEF SlotTypeOK
  <2> QED BY <1>1, <1>7, <1>8, <2>1, <2>2 DEF SlotReadInv, SlotTypeOK
<1>10. SlotWriteInv'
  BY <1>1, <1>7 DEF SlotWriteInv, SlotTypeOK
<1> QED BY <1>4, <1>5, <1>6, <1>9, <1>10

\* dispatch gives the lock back, every word read.
LEMMA SlotDispatchUnlockInv ==
  ASSUME SlotIInv, NEW c \in SlotCalls, Slot!DispatchUnlock(c)
  PROVE  SlotIInv'
<1> USE SlotBindingKept, SlotWordsFit
    DEF SlotIInv, Slot!DispatchUnlock, Slot!Step, Slot!Unlock, Slot!history
<1>1. /\ Slot!Words' = Slot!Words /\ (Slot!Locked' <=> Slot!Locked)
      /\ \A g \in Slot!Generations : Slot!Target(g)' = Slot!Target(g)
  OBVIOUS
<1>4. SlotTypeOK'
  BY <1>1 DEF SlotTypeOK, SlotPlaces, Slot!Generations
<1>5. SlotLockInv'
  BY <1>1, SlotNames DEF SlotLockInv, SlotTypeOK
<1>6. SlotWordsInv'
  BY <1>1 DEF SlotWordsInv, SlotTypeOK
<1>7. SlotReadInv'
  BY <1>1 DEF SlotReadInv, SlotTypeOK
<1>8. SlotWriteInv'
  BY <1>1 DEF SlotWriteInv, SlotTypeOK
<1> QED BY <1>4, <1>5, <1>6, <1>7, <1>8

\* dispatch runs the callback it read.
LEMMA SlotCallBackInv ==
  ASSUME SlotIInv, NEW c \in SlotCalls, Slot!CallBack(c)
  PROVE  SlotIInv'
<1> USE SlotBindingKept, SlotWordsFit DEF SlotIInv, Slot!CallBack, Slot!Step, Slot!fields
<1>1. /\ Slot!Words' = Slot!Words /\ (Slot!Locked' <=> Slot!Locked)
      /\ \A g \in Slot!Generations : Slot!Target(g)' = Slot!Target(g)
  OBVIOUS
<1>2. Slot!Called(c) \in Slot!Generations \cup {NoCall}
  BY DEF Slot!Called, SlotTypeOK
<1>4. SlotTypeOK'
  BY <1>1, <1>2 DEF SlotTypeOK, SlotPlaces
<1>5. SlotLockInv'
  BY <1>1 DEF SlotLockInv, SlotTypeOK
<1>6. SlotWordsInv'
  BY <1>1 DEF SlotWordsInv, SlotTypeOK
<1>7. SlotReadInv'
  BY <1>1 DEF SlotReadInv, SlotTypeOK
<1>8. SlotWriteInv'
  BY <1>1 DEF SlotWriteInv, SlotTypeOK
<1> QED BY <1>4, <1>5, <1>6, <1>7, <1>8

\* Every step keeps the invariant.
LEMMA SlotNextInv == SlotIInv /\ [Slot!Next]_(Slot!vars) => SlotIInv'
<1> SUFFICES ASSUME SlotIInv, [Slot!Next]_(Slot!vars) PROVE SlotIInv'
  OBVIOUS
<1>1. ASSUME NEW c \in SlotCalls, Slot!Begin(c) PROVE SlotIInv'
  <2> PICK p \in SlotCalls \cup {NoCall} :
        \/ \E S \in {{}, {OnEvent}} : Slot!SetCallback(c, p, S)
        \/ Slot!ReceiveAndDispatch(c, p) \/ Slot!Dispatch(c, p)
    BY <1>1 DEF Slot!Begin
  <2>1. ASSUME NEW S \in {{}, {OnEvent}}, Slot!SetCallback(c, p, S) PROVE SlotIInv'
    BY <2>1, SlotEnterInv DEF Slot!SetCallback
  <2>2. CASE Slot!ReceiveAndDispatch(c, p) \/ Slot!Dispatch(c, p)
    BY <2>2, SlotEnterInv DEF Slot!ReceiveAndDispatch, Slot!Dispatch
  <2> QED BY <2>1, <2>2
<1>2. ASSUME NEW c \in SlotCalls, Slot!Continue(c) PROVE SlotIInv'
  <2>1. CASE Slot!SetLock(c) \/ Slot!SetUnlock(c)
    BY <2>1, SlotSetLockInv, SlotSetUnlockInv
  <2>2. CASE Slot!DropOld(c)
    BY <2>2, SlotLetGoInv DEF Slot!DropOld
  <2>3. CASE Slot!OldDestroyed(c) \/ Slot!StoreDrops(c)
    BY <2>3, SlotMoveInv DEF Slot!OldDestroyed, Slot!StoreDrops
  <2>4. CASE Slot!Verify(c) \/ Slot!KeyProviderReturns(c)
    BY <2>4, SlotMoveInv DEF Slot!Verify, Slot!KeyProviderReturns
  <2>5. CASE Slot!DispatchLock(c) \/ Slot!DispatchUnlock(c)
    BY <2>5, SlotDispatchLockInv, SlotDispatchUnlockInv
  <2>6. CASE Slot!NoCallback(c) \/ Slot!CallbackReturns(c)
    BY <2>6, SlotMoveInv DEF Slot!NoCallback, Slot!CallbackReturns
  <2>7. ASSUME NEW w \in Slot!Words, Slot!WriteWord(c, w) \/ Slot!ReadWord(c, w) PROVE SlotIInv'
    BY <2>7, SlotWriteWordInv, SlotReadWordInv
  <2>8. CASE Slot!CallBack(c)
    BY <2>8, SlotCallBackInv
  <2>9. CASE Slot!Leave(c)
    BY <2>9, SlotLetGoInv DEF Slot!Leave, Slot!Ended
  <2>10. CASE Slot!Destroyed(c)
    BY <2>10, SlotMoveInv DEF Slot!Destroyed
  <2> QED BY <1>2, <2>1, <2>2, <2>3, <2>4, <2>5, <2>6, <2>7, <2>8, <2>9, <2>10 DEF Slot!Continue
<1>3. ASSUME UNCHANGED Slot!vars PROVE SlotIInv'
  <2> USE <1>3 DEF Slot!vars, Slot!fields, Slot!history
  <2>1. /\ Slot!Words' = Slot!Words /\ (Slot!Locked' <=> Slot!Locked)
        /\ \A g \in Slot!Generations : Slot!Target(g)' = Slot!Target(g)
    BY DEF Slot!Words, Slot!Locked, Slot!Target
  <2> QED BY <2>1 DEF SlotIInv, SlotTypeOK, SlotLockInv, SlotWordsInv, SlotReadInv, SlotWriteInv
<1> QED BY <1>1, <1>2, <1>3 DEF Slot!Next, Slot!AllEnded, Slot!Spin

\* UserCodeUnlocked (MCCallbackSlot.tla), for any number of calls, nested in each
\* other's callbacks and destructors in any way: the destructor of a callback that
\* Python's set_callback replaces is the only user code that runs under a lock.
THEOREM UserCodeHoldsNoLock == Webhooks_Spec => []UserCodeUnlocked
<1>1. SlotIInv => UserCodeUnlocked
  BY DEF SlotIInv, SlotLockInv, UserCodeUnlocked, Slot!UserCodeUnlocked, Slot!UserCode
<1> QED BY <1>1, SlotInitInv, SlotNextInv, PTL DEF Webhooks_Spec, Slot!FairSpec, Slot!Spec

-------------------------------------------------------------------------------
SlotPhases == [c \in SlotCalls |-> Slot!PhaseOf(c)]
SlotEvents == [c \in SlotCalls |-> NoCall]
SlotDeliveries == [c \in SlotCalls |-> [s \in {OnEvent} |-> delivered[c]]]

\* The phases of a dispatch that may throw.
SlotMayThrow == {"requested", "taken", "notifying", "notified", "handling"}

\* The phase of a call, place by place.
SlotPhaseTable(c) ==
  /\ slot_pc[c] \in {"idle", "returned", "threw", "calling"} =>
       Slot!PhaseOf(c) = IF slot_pc[c] = "calling" THEN "notifying" ELSE slot_pc[c]
  /\ slot_pc[c] = "set_lock" => Slot!PhaseOf(c) = "offered"
  /\ slot_pc[c] = "writing" =>
     Slot!PhaseOf(c) = IF left[c] = Slot!Words THEN "offered" ELSE "returned"
  /\ slot_pc[c] \in {"dropping_old", "destroying_old", "unlocking"} =>
       Slot!PhaseOf(c) = "returned"
  /\ slot_pc[c] \in {"verify", "key_lookup", "dispatch_lock"} => Slot!PhaseOf(c) = "requested"
  /\ slot_pc[c] = "reading" =>
     Slot!PhaseOf(c) = IF left[c] = Slot!Words THEN "requested" ELSE "taken"
  /\ slot_pc[c] = "checking" => Slot!PhaseOf(c) = "taken"
  /\ slot_pc[c] \in {"leaving", "destroying"} => Slot!PhaseOf(c) = "notified"

\* The phase of the register a call is in, place by place.
LEMMA SlotPhaseIs == \A c \in SlotCalls : SlotPhaseTable(c) /\ SlotPhaseTable(c)'
  BY DEF SlotPhaseTable, Slot!PhaseOf

\* One call moves: its phase is the only one that can change.
LEMMA SlotPhaseMoves ==
  ASSUME SlotIInv, NEW c \in SlotCalls, NEW to, slot_pc' = [slot_pc EXCEPT ![c] = to],
         UNCHANGED binding,
         \A d \in SlotCalls \ {c} : left'[d] = left[d]
  PROVE  /\ \A from : Slot!PhaseOf(c) \in from => Slot!Register!Move(c, from, Slot!PhaseOf(c)')
         /\ Slot!PhaseOf(c)' = Slot!PhaseOf(c) => SlotPhases' = SlotPhases
         /\ UNCHANGED delivered => SlotDeliveries' = SlotDeliveries
<1>1. Slot!Words' = Slot!Words
  BY DEF Slot!Words
<1>2. \A d \in SlotCalls \ {c} : Slot!PhaseOf(d)' = Slot!PhaseOf(d)
  BY <1>1 DEF SlotIInv, SlotTypeOK, Slot!PhaseOf
<1>3. SlotPhases' = [SlotPhases EXCEPT ![c] = Slot!PhaseOf(c)']
      /\ SlotPhases[c] = Slot!PhaseOf(c)
  BY <1>2 DEF SlotPhases
<1>4. Slot!PhaseOf(c)' = Slot!PhaseOf(c) => SlotPhases' = SlotPhases
  BY <1>3 DEF SlotPhases
<1>5. UNCHANGED delivered => SlotDeliveries' = SlotDeliveries
  BY DEF SlotDeliveries
<1> QED BY <1>3, <1>4, <1>5 DEF SlotPhases, Slot!Register!Move

\* A new receiver is a new register.
LEMMA SlotInitRegister == Slot!Init => Slot!Register!Init
<1> SUFFICES ASSUME Slot!Init PROVE Slot!Register!Init
  OBVIOUS
<1>1. SlotPhases = [c \in SlotCalls |-> "idle"]
  BY DEF Slot!Init, SlotPhases, Slot!PhaseOf
<1>2. SlotDeliveries = [c \in SlotCalls |-> [s \in Slot!Register!Slots |-> NoCall]]
  BY DEF Slot!Init, SlotDeliveries, Slot!Register!Slots
<1>3. slots \in [Slot!Register!Generations -> SUBSET Slot!Register!Slots]
      /\ \A c \in SlotCalls : slots[c] = {}
  BY DEF Slot!Init, Slot!Generations, Slot!Register!Generations, Slot!Register!Slots
<1> QED BY <1>1, <1>2, <1>3 DEF Slot!Init, Slot!Register!Init, SlotPhases, SlotDeliveries

\* What a call that moves has to do for its step to be one of the register.
SlotStutters == UNCHANGED <<SlotPhases, slots, latest, snapshot, SlotDeliveries>>

SlotRegisterDoes(c) ==
  \/ \E S \in SUBSET Slot!Register!Slots : Slot!Register!Offer(c, S)
  \/ Slot!Register!Request(c, NoCall)
  \/ Slot!Register!Replace(c) \/ Slot!Register!Take(c) \/ Slot!Register!RunOnEvent(c)
  \/ Slot!Register!Notified(c) \/ Slot!Register!Return(c) \/ Slot!Register!Throw(c)

\* What a call does to the register is a step of the register.
LEMMA SlotRegisterStep ==
  ASSUME SlotStutters \/ \E c \in SlotCalls : SlotRegisterDoes(c)
  PROVE  [Slot!Register!Next]_(Slot!Register!vars)
<1>1. CASE SlotStutters
  BY <1>1 DEF SlotStutters, Slot!Register!vars, SlotPhases, SlotEvents, SlotDeliveries
<1>2. ASSUME NEW c \in SlotCalls, SlotRegisterDoes(c) PROVE Slot!Register!Next
  <2>1. NoCall \in {} \cup {NoCall}
    OBVIOUS
  <2> QED BY <1>2, <2>1 DEF Slot!Register!Next, SlotRegisterDoes
<1> QED BY <1>1, <1>2

\* A call that begins offers a callback or requests the event.
LEMMA SlotBeginRegister ==
  ASSUME SlotIInv, NEW c \in SlotCalls, Slot!Begin(c)
  PROVE  SlotRegisterDoes(c)
<1> USE DEF Slot!Enter, Slot!fields, Slot!history
<1> PICK p \in SlotCalls \cup {NoCall} :
        \/ \E S \in {{}, {OnEvent}} : Slot!SetCallback(c, p, S)
        \/ Slot!ReceiveAndDispatch(c, p) \/ Slot!Dispatch(c, p)
  BY DEF Slot!Begin
<1>1. SlotPhaseTable(c) /\ SlotPhaseTable(c)'
  BY SlotPhaseIs
<1>2. slot_pc[c] = "idle" /\ Slot!PhaseOf(c) = "idle"
  BY <1>1 DEF SlotPhaseTable, Slot!SetCallback, Slot!ReceiveAndDispatch, Slot!Dispatch
<1>3. ASSUME NEW S \in {{}, {OnEvent}}, Slot!SetCallback(c, p, S)
      PROVE  Slot!Register!Offer(c, S) /\ S \in SUBSET Slot!Register!Slots
  <2>1. Slot!PhaseOf(c)' = "offered"
    BY <1>1, <1>3 DEF SlotPhaseTable, Slot!SetCallback, SlotIInv, SlotTypeOK
  <2>2. Slot!Register!Move(c, {"idle"}, "offered") /\ SlotDeliveries' = SlotDeliveries
    BY <1>2, <1>3, <2>1, SlotPhaseMoves DEF Slot!SetCallback
  <2> QED BY <1>3, <2>2
          DEF Slot!Register!Offer, Slot!Register!Slots, Slot!SetCallback, SlotDeliveries
<1>4. CASE Slot!ReceiveAndDispatch(c, p) \/ Slot!Dispatch(c, p)
  <2>1. Slot!PhaseOf(c)' = "requested"
    BY <1>1, <1>4
    DEF SlotPhaseTable, Slot!ReceiveAndDispatch, Slot!Dispatch, SlotIInv, SlotTypeOK
  <2>2. Slot!Register!Move(c, {"idle"}, "requested") /\ SlotDeliveries' = SlotDeliveries
    BY <1>2, <1>4, <2>1, SlotPhaseMoves DEF Slot!ReceiveAndDispatch, Slot!Dispatch
  <2>3. Slot!Register!Request(c, NoCall)
    BY <1>4, <2>2
    DEF Slot!Register!Request, Slot!ReceiveAndDispatch, Slot!Dispatch, SlotDeliveries
  <2> QED BY <2>3 DEF SlotRegisterDoes
<1> QED BY <1>3, <1>4 DEF SlotRegisterDoes

\* Inside SetCallback: the first word that is written replaces the callback.
LEMMA SlotSetRegister ==
  ASSUME SlotIInv, NEW c \in SlotCalls,
         \/ Slot!SetLock(c) \/ Slot!SetUnlock(c) \/ Slot!StoreDrops(c)
         \/ Slot!DropOld(c) \/ Slot!OldDestroyed(c)
         \/ \E w \in Slot!Words : Slot!WriteWord(c, w)
  PROVE  SlotStutters \/ SlotRegisterDoes(c)
<1> USE DEF Slot!Step, Slot!fields, Slot!history
<1>1. SlotPhaseTable(c) /\ SlotPhaseTable(c)'
  BY SlotPhaseIs
<1>2. Slot!Words' = Slot!Words /\ Slot!Words # {}
  BY SlotWordsFit, SlotBindingKept
  DEF Slot!SetLock, Slot!SetUnlock, Slot!StoreDrops, Slot!DropOld, Slot!OldDestroyed,
      Slot!WriteWord
<1>3. ASSUME \/ Slot!SetLock(c) \/ Slot!SetUnlock(c) \/ Slot!StoreDrops(c)
             \/ Slot!DropOld(c) \/ Slot!OldDestroyed(c)
      PROVE  SlotStutters
  <2>1. Slot!PhaseOf(c)' = Slot!PhaseOf(c)
    <3>1. CASE Slot!SetLock(c)
      BY <1>1, <1>2, <3>1 DEF SlotPhaseTable, Slot!SetLock, Slot!Lock, SlotIInv, SlotTypeOK
    <3>2. CASE \/ Slot!SetUnlock(c) \/ Slot!StoreDrops(c)
               \/ Slot!DropOld(c) \/ Slot!OldDestroyed(c)
      BY <1>1, <1>2, <3>2
      DEF SlotPhaseTable, Slot!SetUnlock, Slot!StoreDrops, Slot!DropOld, Slot!OldDestroyed,
          Slot!Dropped, SlotIInv, SlotTypeOK
    <3> QED BY <1>3, <3>1, <3>2
  <2>2. \A d \in SlotCalls \ {c} : left'[d] = left[d]
    BY <1>3
    DEF Slot!SetLock, Slot!Lock, Slot!SetUnlock, Slot!StoreDrops, Slot!DropOld,
        Slot!OldDestroyed, SlotIInv, SlotTypeOK
  <2>3. SlotPhases' = SlotPhases /\ SlotDeliveries' = SlotDeliveries
    BY <1>3, <2>1, <2>2, SlotPhaseMoves
    DEF Slot!SetLock, Slot!SetUnlock, Slot!StoreDrops, Slot!DropOld, Slot!OldDestroyed
  <2> QED BY <1>3, <2>3
          DEF SlotStutters, Slot!SetLock, Slot!SetUnlock, Slot!StoreDrops, Slot!DropOld,
              Slot!OldDestroyed
<1>4. ASSUME NEW w \in Slot!Words, Slot!WriteWord(c, w)
      PROVE  SlotStutters \/ Slot!Register!Replace(c)
  <2> USE <1>4 DEF Slot!WriteWord
  <2>1. left'[c] = left[c] \ {w} /\ slot_pc'[c] = "writing" /\ slot_pc[c] = "writing"
        /\ w \in left[c]
    BY DEF SlotIInv, SlotTypeOK
  <2>2. Slot!PhaseOf(c)' = "returned"
    BY <1>1, <1>2, <2>1 DEF SlotPhaseTable
  <2>3. \A d \in SlotCalls \ {c} : left'[d] = left[d]
    BY DEF SlotIInv, SlotTypeOK
  <2>4. CASE left[c] = Slot!Words
    <3>1. Slot!PhaseOf(c) = "offered"
      BY <1>1, <2>1, <2>4 DEF SlotPhaseTable
    <3>2. /\ \A from : Slot!PhaseOf(c) \in from => Slot!Register!Move(c, from, Slot!PhaseOf(c)')
          /\ SlotDeliveries' = SlotDeliveries
      BY <2>3, SlotPhaseMoves
    <3>3. Slot!Register!Move(c, {"offered"}, "returned")
      BY <3>1, <3>2, <2>2
    <3> QED BY <3>2, <3>3 DEF Slot!Register!Replace, SlotDeliveries
  <2>5. CASE left[c] # Slot!Words
    <3>1. Slot!PhaseOf(c) = "returned"
      BY <1>1, <2>1, <2>5 DEF SlotPhaseTable
    <3>2. SlotPhases' = SlotPhases /\ SlotDeliveries' = SlotDeliveries
      BY <3>1, <2>2, <2>3, SlotPhaseMoves
    <3>3. latest = c
      BY <2>1, <2>5, SlotOneWord DEF SlotIInv, SlotWriteInv
    <3> QED BY <3>2, <3>3 DEF SlotStutters
  <2> QED BY <2>4, <2>5
<1> QED BY <1>3, <1>4 DEF SlotRegisterDoes

\* Inside a dispatch, up to the callback: the first word that is read takes it.
LEMMA SlotTakeRegister ==
  ASSUME SlotIInv, NEW c \in SlotCalls,
         \/ Slot!Verify(c) \/ Slot!KeyProviderReturns(c)
         \/ Slot!DispatchLock(c) \/ Slot!DispatchUnlock(c)
         \/ \E w \in Slot!Words : Slot!ReadWord(c, w)
  PROVE  SlotStutters \/ SlotRegisterDoes(c)
<1> USE DEF Slot!Step, Slot!fields, Slot!history
<1>1. SlotPhaseTable(c) /\ SlotPhaseTable(c)'
  BY SlotPhaseIs
<1>2. Slot!Words' = Slot!Words /\ Slot!Words # {}
  BY SlotWordsFit, SlotBindingKept
  DEF Slot!Verify, Slot!KeyProviderReturns, Slot!DispatchLock, Slot!DispatchUnlock, Slot!ReadWord
<1>3. CASE Slot!Verify(c) \/ Slot!KeyProviderReturns(c)
  <2>1. Slot!PhaseOf(c) = "requested" /\ Slot!PhaseOf(c)' \in {"requested", "threw"}
    BY <1>1, <1>3 DEF SlotPhaseTable, Slot!Verify, Slot!KeyProviderReturns, SlotIInv, SlotTypeOK
  <2>2. /\ Slot!PhaseOf(c)' = Slot!PhaseOf(c) => SlotPhases' = SlotPhases
        /\ Slot!Register!Move(c, SlotMayThrow, Slot!PhaseOf(c)')
        /\ SlotDeliveries' = SlotDeliveries
    BY <1>3, <2>1, SlotPhaseMoves DEF SlotMayThrow, Slot!Verify, Slot!KeyProviderReturns
  <2> QED BY <1>3, <2>1, <2>2
          DEF Slot!Register!Throw, SlotMayThrow, SlotRegisterDoes, SlotStutters, SlotDeliveries,
              Slot!Verify, Slot!KeyProviderReturns
<1>4. ASSUME Slot!DispatchLock(c) \/ Slot!DispatchUnlock(c)
      PROVE  SlotStutters
  <2>1. Slot!PhaseOf(c)' = Slot!PhaseOf(c)
    <3>1. CASE Slot!DispatchLock(c)
      BY <1>1, <1>2, <3>1
      DEF SlotPhaseTable, Slot!DispatchLock, Slot!Lock, Slot!Share, SlotIInv, SlotTypeOK
    <3>2. CASE Slot!DispatchUnlock(c)
      BY <1>1, <1>2, <3>2 DEF SlotPhaseTable, Slot!DispatchUnlock, SlotIInv, SlotTypeOK
    <3> QED BY <1>4, <3>1, <3>2
  <2>2. \A d \in SlotCalls \ {c} : left'[d] = left[d]
    BY <1>4
    DEF Slot!DispatchLock, Slot!DispatchUnlock, Slot!Lock, Slot!Share, SlotIInv, SlotTypeOK
  <2>3. SlotPhases' = SlotPhases /\ SlotDeliveries' = SlotDeliveries
    BY <1>4, <2>1, <2>2, SlotPhaseMoves DEF Slot!DispatchLock, Slot!DispatchUnlock
  <2> QED BY <1>4, <2>3 DEF SlotStutters, Slot!DispatchLock, Slot!DispatchUnlock
<1>5. ASSUME NEW w \in Slot!Words, Slot!ReadWord(c, w)
      PROVE  SlotStutters \/ Slot!Register!Take(c)
  <2> USE <1>5 DEF Slot!ReadWord
  <2>1. left'[c] = left[c] \ {w} /\ slot_pc'[c] = "reading" /\ slot_pc[c] = "reading"
        /\ w \in left[c]
    BY DEF SlotIInv, SlotTypeOK
  <2>2. Slot!PhaseOf(c)' = "taken"
    BY <1>1, <1>2, <2>1 DEF SlotPhaseTable
  <2>3. \A d \in SlotCalls \ {c} : left'[d] = left[d]
    BY DEF SlotIInv, SlotTypeOK
  <2>4. CASE left[c] = Slot!Words
    <3>1. Slot!PhaseOf(c) = "requested"
      BY <1>1, <2>1, <2>4 DEF SlotPhaseTable
    <3>2. /\ \A from : Slot!PhaseOf(c) \in from => Slot!Register!Move(c, from, Slot!PhaseOf(c)')
          /\ SlotDeliveries' = SlotDeliveries
      BY <2>3, SlotPhaseMoves
    <3>3. Slot!Register!Move(c, {"requested"}, "taken")
      BY <3>1, <3>2, <2>2
    <3> QED BY <2>4, <3>2, <3>3 DEF Slot!Register!Take, SlotDeliveries
  <2>5. CASE left[c] # Slot!Words
    <3>1. Slot!PhaseOf(c) = "taken"
      BY <1>1, <2>1, <2>5 DEF SlotPhaseTable
    <3>2. SlotPhases' = SlotPhases /\ SlotDeliveries' = SlotDeliveries
      BY <3>1, <2>2, <2>3, SlotPhaseMoves
    <3>3. snapshot' = snapshot
      BY <2>5 DEF SlotIInv, SlotTypeOK
    <3> QED BY <3>2, <3>3 DEF SlotStutters
  <2> QED BY <2>4, <2>5
<1> QED BY <1>3, <1>4, <1>5 DEF SlotRegisterDoes

\* The callback that runs is the one that was taken, and it runs if there is one.
LEMMA SlotCallBackRegister ==
  ASSUME SlotIInv, NEW c \in SlotCalls,
         Slot!NoCallback(c) \/ Slot!CallBack(c) \/ Slot!CallbackReturns(c)
  PROVE  SlotRegisterDoes(c)
<1> USE DEF Slot!Step, Slot!fields, Slot!history
<1>1. SlotPhaseTable(c) /\ SlotPhaseTable(c)'
  BY SlotPhaseIs
<1>2. snapshot[c] \in Slot!Generations /\ slots[snapshot[c]] \in {{}, {OnEvent}}
      /\ snapshot[c] # NoCall
  BY SlotNames
  DEF SlotIInv, SlotTypeOK, SlotReadInv, Slot!Generations, Slot!NoCallback, Slot!CallBack,
      Slot!CallbackReturns
<1>3. CASE Slot!NoCallback(c)
  <2>1. local[c]["code"] = Slot!Target(snapshot[c])
    BY <1>3, SlotWordsFit DEF Slot!NoCallback, SlotIInv, SlotReadInv
  <2>2. slots[snapshot[c]] = {}
    BY <1>2, <1>3, <2>1 DEF Slot!NoCallback, Slot!Target
  <2>3. Slot!PhaseOf(c) = "taken" /\ Slot!PhaseOf(c)' = "notified"
    BY <1>1, <1>3 DEF SlotPhaseTable, Slot!NoCallback, SlotIInv, SlotTypeOK
  <2>4. Slot!Register!Move(c, {"taken"}, "notified") /\ SlotDeliveries' = SlotDeliveries
    BY <1>3, <2>3, SlotPhaseMoves DEF Slot!NoCallback
  <2> QED BY <1>3, <2>2, <2>4
          DEF Slot!Register!Notified, SlotRegisterDoes, Slot!NoCallback, SlotDeliveries
<1>4. CASE Slot!CallBack(c)
  <2>1. \A w \in Slot!Words : local[c][w] = Slot!Target(snapshot[c])
    BY <1>4 DEF Slot!CallBack, SlotIInv, SlotReadInv
  <2>2. slots[snapshot[c]] # {} /\ Slot!Called(c) = snapshot[c]
    BY <1>4, <2>1, SlotWordsFit DEF Slot!CallBack, Slot!Target, Slot!Called
  <2>3. Slot!PhaseOf(c) = "taken" /\ Slot!PhaseOf(c)' = "notifying"
    BY <1>1, <1>4 DEF SlotPhaseTable, Slot!CallBack, SlotIInv, SlotTypeOK
  <2>4. Slot!Register!Move(c, {"taken"}, "notifying")
    BY <1>4, <2>3, SlotPhaseMoves DEF Slot!CallBack
  <2>5. SlotDeliveries' = [SlotDeliveries EXCEPT ![c][OnEvent] = snapshot[c]]
    BY <1>4, <2>2 DEF Slot!CallBack, SlotDeliveries, SlotIInv, SlotTypeOK
  <2>6. Slot!Register!Run(c, OnEvent)
    BY <1>2, <1>4, <2>2, <2>5 DEF Slot!Register!Run, Slot!CallBack, SlotDeliveries
  <2> QED BY <2>4, <2>6 DEF Slot!Register!RunOnEvent, SlotRegisterDoes
<1>5. CASE Slot!CallbackReturns(c)
  <2>1. Slot!PhaseOf(c) = "notifying" /\ Slot!PhaseOf(c)' = "notified"
    BY <1>1, <1>5 DEF SlotPhaseTable, Slot!CallbackReturns, SlotIInv, SlotTypeOK
  <2>2. Slot!Register!Move(c, {"notifying"}, "notified") /\ SlotDeliveries' = SlotDeliveries
    BY <1>5, <2>1, SlotPhaseMoves DEF Slot!CallbackReturns
  <2> QED BY <1>5, <2>2
          DEF Slot!Register!Notified, SlotRegisterDoes, Slot!CallbackReturns, SlotDeliveries
<1> QED BY <1>3, <1>4, <1>5

\* The way out of a dispatch.
LEMMA SlotLeaveRegister ==
  ASSUME SlotIInv, NEW c \in SlotCalls, Slot!Leave(c) \/ Slot!Destroyed(c)
  PROVE  SlotStutters \/ SlotRegisterDoes(c)
<1> USE DEF Slot!Step, Slot!fields, Slot!history
<1>1. SlotPhaseTable(c) /\ SlotPhaseTable(c)'
  BY SlotPhaseIs
<1>2. snapshot[c] \in Slot!Generations /\ NoCall \notin slots[snapshot[c]]
  BY SlotNames DEF SlotIInv, SlotTypeOK, SlotReadInv, Slot!Leave, Slot!Destroyed
<1>3. Slot!PhaseOf(c) = "notified" /\ Slot!PhaseOf(c)' \in {"notified", "returned", "threw"}
  BY <1>1 DEF SlotPhaseTable, Slot!Leave, Slot!Destroyed, Slot!Ended, SlotIInv, SlotTypeOK
<1>4. /\ Slot!PhaseOf(c)' = Slot!PhaseOf(c) => SlotPhases' = SlotPhases
      /\ \A from : "notified" \in from => Slot!Register!Move(c, from, Slot!PhaseOf(c)')
      /\ SlotDeliveries' = SlotDeliveries
  BY <1>3, SlotPhaseMoves DEF Slot!Leave, Slot!Destroyed
<1>5. UNCHANGED <<slots, latest, snapshot>>
  BY DEF Slot!Leave, Slot!Destroyed
<1>6. CASE Slot!PhaseOf(c)' = "notified"
  BY <1>3, <1>4, <1>5, <1>6 DEF SlotStutters
<1>7. CASE Slot!PhaseOf(c)' = "returned"
  <2>1. Slot!Register!Move(c, {"notified"}, "returned")
    BY <1>4, <1>7
  <2> QED BY <1>2, <1>4, <1>5, <2>1 DEF Slot!Register!Return, SlotRegisterDoes, SlotDeliveries
<1>8. CASE Slot!PhaseOf(c)' = "threw"
  <2>1. Slot!Register!Move(c, SlotMayThrow, "threw")
    BY <1>4, <1>8 DEF SlotMayThrow
  <2> QED BY <1>4, <1>5, <2>1
          DEF Slot!Register!Throw, SlotMayThrow, SlotRegisterDoes, SlotDeliveries
<1> QED BY <1>3, <1>6, <1>7, <1>8

\* SlotImplementsRegister (MCCallbackSlot.tla): the locks, and in Java the volatile
\* field, make one atomic callback of the words.
THEOREM GuardedWordsAreARegister == Webhooks_Spec => SlotImplementsRegister
<1>1. SlotIInv /\ [Slot!Next]_(Slot!vars) => [Slot!Register!Next]_(Slot!Register!vars)
  <2> SUFFICES ASSUME SlotIInv, [Slot!Next]_(Slot!vars)
               PROVE [Slot!Register!Next]_(Slot!Register!vars)
    OBVIOUS
  <2>1. ASSUME NEW c \in SlotCalls, Slot!Begin(c) \/ Slot!Continue(c)
        PROVE SlotStutters \/ SlotRegisterDoes(c)
    <3>1. CASE Slot!Begin(c)
      BY <3>1, SlotBeginRegister
    <3>2. CASE Slot!Continue(c)
      BY <3>2, SlotSetRegister, SlotTakeRegister, SlotCallBackRegister, SlotLeaveRegister
      DEF Slot!Continue
    <3> QED BY <2>1, <3>1, <3>2
  <2>2. UNCHANGED Slot!vars => SlotStutters
    BY DEF Slot!vars, Slot!fields, Slot!history, SlotStutters, SlotPhases, Slot!PhaseOf,
           Slot!Words, SlotDeliveries
  <2> QED BY <2>1, <2>2, SlotRegisterStep DEF Slot!Next, Slot!AllEnded, Slot!Spin
<1> QED BY <1>1, SlotInitInv, SlotNextInv, SlotInitRegister, PTL
        DEF Webhooks_Spec, Slot!FairSpec, Slot!Spec, SlotImplementsRegister,
            Slot!SlotImplementsRegister, Slot!Register!Spec

-------------------------------------------------------------------------------
\* lks_invoke

\* The constants' assumption, as the proofs use it.
LEMMA AbiNames == NoAnswer \notin {NativeCall} \cup Int \cup Abi!Answers
  BY NoAnswerIsDistinct DEF Abi!NoneIsDistinct

\* What HostAnswerDecides says, from the moment the answer was read.
AbiDecided ==
  answer # NoAnswer /\ response # "unknown" =>
    IF input.operation = "webhook"
    THEN response = "value" => Abi!Contract /\ ~Abi!Failed /\ answer.secret = "right"
    ELSE /\ response \in {"value", "protocol"} =>
            Abi!Contract /\ ~Abi!Failed /\ answer.status_code \in 200 .. 299
         /\ response = "http" => Abi!Contract /\ ~Abi!Failed /\ http_status = answer.status_code
         /\ response \in {"invalid_argument", "authentication"} => ~Abi!Contract
         /\ Abi!Contract /\ Abi!Failed => response = "transport"

AbiEnds == {"copy", "returned"}

AbiIInv ==
  /\ Abi!TypeOK
  /\ abi_pc \notin AbiEnds \cup {"answered"} => answer = NoAnswer
  /\ abi_pc = "answered" => answer \in Abi!Answers
  /\ abi_pc \in AbiEnds => AbiDecided
  /\ abi_pc # "returned" => output = "none"
  /\ abi_pc \notin {"called", "returned"} /\ input.output_length => length = 0
  /\ Abi!LengthTold

\* The invariant holds before the call.
LEMMA AbiInitInv == Abi!Init => AbiIInv
<1> SUFFICES ASSUME Abi!Init PROVE AbiIInv
  OBVIOUS
<1> QED BY DEF Abi!Init, AbiIInv, Abi!TypeOK, AbiEnds, Abi!LengthTold

\* Steps before the host has answered: each goes on, or makes an envelope.
AbiEarly ==
  \/ \E to \in {"execute", "sign", "receive", "options", "prepare", "exchange", "send", "host"} :
       Abi!Goes(to)
  \/ \E what \in {"value"} \cup Abi!ErrorCode, status \in Abi!Statuses \cup {0} :
       Abi!Envelope(what, status)

\* The steps before the host was asked go on or make an envelope.
LEMMA AbiEarlySteps ==
  ASSUME Abi!Parse \/ Abi!Execute \/ Abi!Sign \/ Abi!Options \/ Abi!Dispatch \/ Abi!Send
         \/ Abi!Receive \/ Abi!Exchange
  PROVE  AbiEarly /\ UNCHANGED input /\ abi_pc \notin AbiEnds \cup {"answered", "called", "host"}
<1> USE DEF AbiEarly, Abi!Throws, Abi!Succeeds, Abi!At, AbiEnds, Abi!ErrorCode
<1>1. CASE Abi!Parse BY <1>1 DEF Abi!Parse
<1>2. CASE Abi!Execute BY <1>2 DEF Abi!Execute
<1>3. CASE Abi!Sign BY <1>3 DEF Abi!Sign
<1>4. CASE Abi!Options BY <1>4 DEF Abi!Options
<1>5. CASE Abi!Dispatch BY <1>5 DEF Abi!Dispatch
<1>6. CASE Abi!Send BY <1>6 DEF Abi!Send
<1>7. CASE Abi!Receive BY <1>7 DEF Abi!Receive, Abi!Verify
<1>8. CASE Abi!Exchange BY <1>8 DEF Abi!Exchange
<1> QED BY <1>1, <1>2, <1>3, <1>4, <1>5, <1>6, <1>7, <1>8

\* Those steps keep the invariant, with nothing answered and nothing copied.
LEMMA AbiEarlyInv ==
  ASSUME AbiIInv,
         Abi!Parse \/ Abi!Execute \/ Abi!Sign \/ Abi!Options \/ Abi!Dispatch \/ Abi!Send
         \/ Abi!Receive \/ Abi!Exchange
  PROVE  AbiIInv' /\ answer' = NoAnswer /\ output' = output
<1>1. AbiEarly /\ UNCHANGED input /\ abi_pc \notin AbiEnds \cup {"answered", "called", "host"}
  BY AbiEarlySteps
<1>2. answer' = NoAnswer /\ UNCHANGED <<answer, output, length>> /\ output = "none"
  BY <1>1 DEF AbiIInv, AbiEarly, Abi!Goes, Abi!Envelope, AbiEnds
<1>3. Abi!TypeOK'
  BY <1>1, <1>2 DEF AbiIInv, Abi!TypeOK, AbiEarly, Abi!Goes, Abi!Envelope
<1>4. abi_pc' \notin {"called", "answered", "returned"}
  BY <1>1 DEF AbiEarly, Abi!Goes, Abi!Envelope
<1> QED BY <1>1, <1>2, <1>3, <1>4 DEF AbiIInv, AbiEnds, AbiDecided, Abi!LengthTold

\* The answer is read: what it says decides the envelope.
LEMMA AbiReadResponseDecides ==
  ASSUME AbiIInv, answer \in Abi!Responses, answer.error = "false", input.operation # "webhook",
         Abi!ReadResponse, UNCHANGED input
  PROVE  Abi!TypeOK' /\ AbiDecided' /\ abi_pc' = "copy" /\ UNCHANGED <<answer, output, length>>
<1> USE DEF Abi!Throws, Abi!Succeeds, Abi!Envelope, Abi!ErrorCode
<1>1. answer' = answer /\ abi_pc' = "copy" /\ UNCHANGED <<output, length>>
  BY DEF Abi!ReadResponse
<1>2. /\ answer.status_code \in Abi!Statuses \cup {NoAnswer} /\ answer.kind = "object"
      /\ answer.body \in {"mistyped", "junk", "reply", "other"}
  BY DEF Abi!Responses
<1>3. Abi!Statuses \subseteq Int /\ NoAnswer \notin Abi!Statuses
  BY AbiNames DEF Abi!Statuses
<1>4. Abi!TypeOK'
  BY <1>1, <1>2 DEF Abi!ReadResponse, AbiIInv, Abi!TypeOK
<1>5. /\ ~Abi!Failed' /\ input' = input /\ answer' = answer
      /\ (Abi!Contract' <=>
             answer.status_code \in 100 .. 599 /\ answer.body \in {"reply", "other"})
  BY <1>1, <1>2 DEF Abi!Contract, Abi!Failed
<1>6. AbiDecided'
  <2>6. CASE answer.status_code = NoAnswer
    <3>1. response' = "invalid_argument"
      BY <2>6 DEF Abi!ReadResponse
    <3>2. NoAnswer \notin 100 .. 599
      BY AbiNames
    <3> QED BY <1>5, <2>6, <3>1, <3>2 DEF AbiDecided
  <2>7. CASE answer.status_code # NoAnswer
    <3>1. answer.status_code \in Int
      BY <1>2, <1>3, <2>7
    <3>2. CASE answer.status_code \notin 100 .. 599
      BY <1>5, <2>7, <3>1, <3>2 DEF Abi!ReadResponse, AbiDecided
    <3>3. CASE answer.status_code \in 100 .. 599 /\ answer.body \in {"mistyped", "junk"}
      BY <1>5, <2>7, <3>1, <3>3 DEF Abi!ReadResponse, AbiDecided
    <3>4. CASE answer.status_code \in 100 .. 599 /\ answer.body \in {"reply", "other"}
      BY <1>5, <2>7, <3>1, <3>4 DEF Abi!ReadResponse, AbiDecided
    <3> QED BY <1>2, <3>2, <3>3, <3>4
  <2> QED BY <2>6, <2>7
<1> QED BY <1>1, <1>4, <1>6

\* The same of the secret of a key provider.
LEMMA AbiReadSecretDecides ==
  ASSUME AbiIInv, answer \in Abi!Responses, answer.error = "false", input.operation = "webhook",
         Abi!ReadSecret, UNCHANGED input
  PROVE  Abi!TypeOK' /\ AbiDecided' /\ abi_pc' = "copy" /\ UNCHANGED <<answer, output, length>>
<1> USE DEF Abi!Throws, Abi!Succeeds, Abi!Envelope, Abi!ErrorCode, Abi!Verify
<1>2. answer.kind = "object" /\ answer.secret \in {"mistyped", "empty", "wrong", "right"}
  BY DEF Abi!Responses
<1>1. answer' = answer /\ abi_pc' = "copy" /\ UNCHANGED <<output, length>>
  BY <1>2 DEF Abi!ReadSecret
<1>4. Abi!TypeOK'
  BY <1>1, <1>2 DEF Abi!ReadSecret, AbiIInv, Abi!TypeOK
<1>5. AbiDecided'
  BY <1>1, <1>2 DEF Abi!ReadSecret, AbiDecided, Abi!Contract, Abi!Failed
<1> QED BY <1>1, <1>4, <1>5

\* Whatever the host answered, an envelope is made that says so.
LEMMA AbiAnsweredInv ==
  ASSUME AbiIInv, Abi!Answered
  PROVE  AbiIInv' /\ abi_pc' = "copy" /\ UNCHANGED <<answer, output>>
<1>1. answer \in Abi!Answers /\ abi_pc = "answered" /\ UNCHANGED input
  BY DEF AbiIInv, Abi!Answered, Abi!At
<1>2. /\ answer.kind \in {"nonzero", "throws", "null", "oversize", "junk", "object"}
      /\ answer.kind = "object" => answer \in Abi!Responses
  BY <1>1 DEF Abi!Answers, Abi!Responses
<1>3. Abi!TypeOK' /\ AbiDecided' /\ abi_pc' = "copy" /\ UNCHANGED <<answer, output, length>>
  <2>0. ASSUME NEW what \in {"unknown", "transport", "invalid_argument"}, Abi!Throws(what),
               what = "invalid_argument" => ~Abi!Contract
        PROVE  Abi!TypeOK' /\ AbiDecided' /\ abi_pc' = "copy" /\ UNCHANGED <<answer, output, length>>
    <3>1. /\ abi_pc' = "copy" /\ response' = what /\ http_status' = 0
          /\ UNCHANGED <<answer, output, length>>
      BY <2>0 DEF Abi!Throws, Abi!Envelope
    <3>2. Abi!TypeOK'
      BY <1>1, <2>0, <3>1 DEF AbiIInv, Abi!TypeOK, Abi!ErrorCode
    <3>3. Abi!Contract' = Abi!Contract
      BY <1>1, <3>1 DEF Abi!Contract, Abi!Failed
    <3>4. AbiDecided'
      BY <2>0, <3>1, <3>3 DEF AbiDecided
    <3> QED BY <3>1, <3>2, <3>4
  <2>1. CASE answer.kind = "throws"
    BY <2>0, <2>1 DEF Abi!Answered
  <2>2. CASE answer.kind \in {"nonzero", "null", "oversize"}
    BY <2>0, <2>2 DEF Abi!Answered
  <2>3. CASE answer.kind = "junk"
    <3>1. ~Abi!Contract
      BY <2>3 DEF Abi!Contract
    <3> QED BY <2>0, <2>3, <3>1 DEF Abi!Answered
  <2>4. CASE answer.kind = "object"
    <3>1. answer \in Abi!Responses /\ answer.error \in {"mistyped", "true", "false"}
      BY <1>2, <2>4 DEF Abi!Responses
    <3>2. CASE answer.error = "mistyped"
      <4>1. ~Abi!Contract
        BY <2>4, <3>2 DEF Abi!Contract, Abi!Failed
      <4> QED BY <2>0, <2>4, <3>2, <4>1 DEF Abi!Answered
    <3>3. CASE answer.error = "true"
      BY <2>0, <2>4, <3>3 DEF Abi!Answered
    <3>4. CASE answer.error = "false"
      <4>1. Abi!Read
        BY <2>4, <3>4 DEF Abi!Answered
      <4> QED BY <1>1, <3>1, <3>4, <4>1, AbiReadResponseDecides, AbiReadSecretDecides
              DEF Abi!Read
    <3> QED BY <3>1, <3>2, <3>3, <3>4
  <2> QED BY <1>2, <2>1, <2>2, <2>3, <2>4
<1> QED BY <1>1, <1>3 DEF AbiIInv, AbiEnds, Abi!LengthTold

\* What is decided is a matter of the call, the answer and the envelope.
LEMMA AbiDecidedKept ==
  ASSUME UNCHANGED <<input, answer, response, http_status>>
  PROVE  AbiDecided' = AbiDecided
<1>1. Abi!Contract' = Abi!Contract /\ Abi!Failed' = Abi!Failed
  BY DEF Abi!Contract, Abi!Failed
<1> QED BY <1>1 DEF AbiDecided

\* Every step keeps the invariant.
LEMMA AbiNextInv == AbiIInv /\ [Abi!Next]_(Abi!vars) => AbiIInv'
<1> SUFFICES ASSUME AbiIInv, [Abi!Next]_(Abi!vars) PROVE AbiIInv'
  OBVIOUS
<1> USE DEF Abi!At, AbiEnds
<1>1. CASE Abi!lks_invoke
  BY <1>1 DEF Abi!lks_invoke, AbiIInv, Abi!TypeOK, Abi!LengthTold
<1>2. CASE Abi!Parse \/ Abi!Execute \/ Abi!Sign \/ Abi!Options \/ Abi!Dispatch \/ Abi!Send
      \/ Abi!Receive \/ Abi!Exchange
  BY <1>2, AbiEarlyInv
<1>3. CASE Abi!Callback
  <2>1. PICK a \in Abi!Answers : answer' = a
    BY <1>3 DEF Abi!Callback
  <2> QED BY <1>3, <2>1 DEF Abi!Callback, AbiIInv, Abi!TypeOK, Abi!LengthTold
<1>4. CASE Abi!Answered
  BY <1>4, AbiAnsweredInv
<1>5. CASE Abi!OutOfMemory
  BY <1>5
  DEF Abi!OutOfMemory, Abi!Throws, Abi!Envelope, Abi!ErrorCode, AbiIInv, Abi!TypeOK,
      Abi!LengthTold, AbiDecided
<1>6. CASE Abi!Copy
  <2>1. UNCHANGED <<input, answer, response, http_status>> /\ abi_pc = "copy" /\ abi_pc' = "returned"
    BY <1>6 DEF Abi!Copy
  <2>2. AbiDecided'
    BY <2>1, AbiDecidedKept DEF AbiIInv
  <2>3. Abi!TypeOK'
    BY <1>6, <2>1 DEF Abi!Copy, AbiIInv, Abi!TypeOK
  <2>4. Abi!LengthTold'
    BY <1>6, <2>1 DEF Abi!Copy, AbiIInv, Abi!LengthTold
  <2> QED BY <2>1, <2>2, <2>3, <2>4 DEF AbiIInv
<1>7. CASE UNCHANGED Abi!vars
  <2>1. UNCHANGED <<input, abi_pc, answer, response, http_status, output, length>>
    BY <1>7 DEF Abi!vars
  <2>2. AbiDecided' = AbiDecided
    BY <2>1, AbiDecidedKept
  <2>3. Abi!TypeOK' /\ Abi!LengthTold'
    BY <2>1 DEF AbiIInv, Abi!TypeOK, Abi!LengthTold
  <2> QED BY <2>1, <2>2, <2>3 DEF AbiIInv
<1> QED BY <1>1, <1>2, <1>3, <1>4, <1>5, <1>6, <1>7 DEF Abi!Next, Abi!Returned

\* What the envelope says, by the invariant.
LEMMA AbiSafe == AbiIInv => EnvelopeTrue
  BY DEF AbiIInv, EnvelopeTrue, Abi!EnvelopeTrue, Abi!HostAnswerDecides, AbiDecided, AbiEnds

-------------------------------------------------------------------------------
\* What the host sees of a call.
AbiHostPc == CASE abi_pc = "called" -> "leased"
            [] abi_pc = "host" -> "callback"
            [] abi_pc = "returned" -> "returned"
            [] OTHER -> IF answer = NoAnswer THEN "native" ELSE "resumed"
AbiHostFailure == answer # NoAnswer /\ answer.kind \in {"nonzero", "throws"}
AbiHostResult == CASE output = "none" -> "none"
                [] output = "null" -> "null"
                [] OTHER -> IF response = "value" THEN "value" ELSE "failure"
AbiHostHeap == IF output = "envelope" THEN "allocated" ELSE "none"

\* The host sees nothing of a step that leaves its view alone.
LEMMA AbiHostStutters ==
  ASSUME UNCHANGED <<AbiHostPc, AbiHostFailure, AbiHostResult, AbiHostHeap>>
  PROVE  UNCHANGED Abi!Host!callVars
  BY DEF Abi!Host!callVars, AbiHostPc, AbiHostFailure, AbiHostResult, AbiHostHeap

\* Every step is one of HostInvoke's Work, or one the host does not see.
LEMMA AbiStepHost ==
  AbiIInv /\ [Abi!Next]_(Abi!vars) => [Abi!Host!Work(NativeCall)]_(Abi!Host!callVars)
<1> SUFFICES ASSUME AbiIInv, [Abi!Next]_(Abi!vars)
             PROVE [Abi!Host!Work(NativeCall)]_(Abi!Host!callVars)
  OBVIOUS
<1> USE DEF Abi!At, AbiEnds
<1>1. CASE Abi!lks_invoke
  <2>1. AbiHostPc = "leased" /\ AbiHostPc' = "native"
    BY <1>1 DEF Abi!lks_invoke, AbiHostPc, AbiIInv
  <2>2. UNCHANGED <<AbiHostFailure, AbiHostResult, AbiHostHeap>>
    BY <1>1 DEF Abi!lks_invoke, AbiHostFailure, AbiHostResult, AbiHostHeap
  <2>3. Abi!Host!CallNative(NativeCall)
    BY <2>1, <2>2
    DEF Abi!Host!CallNative, Abi!Host!Goto, AbiHostPc, AbiHostFailure, AbiHostResult, AbiHostHeap
  <2> QED BY <2>3 DEF Abi!Host!Work
<1>2. CASE Abi!Parse \/ Abi!Execute \/ Abi!Sign \/ Abi!Options \/ Abi!Dispatch \/ Abi!Send
      \/ Abi!Receive \/ Abi!Exchange
  <2>1. answer = NoAnswer /\ answer' = NoAnswer /\ output = "none" /\ output' = "none"
        /\ abi_pc \notin AbiEnds \cup {"called", "host"}
    BY <1>2, AbiEarlyInv, AbiEarlySteps DEF AbiIInv
  <2>2. UNCHANGED <<AbiHostFailure, AbiHostResult, AbiHostHeap>>
    BY <2>1 DEF AbiHostFailure, AbiHostResult, AbiHostHeap
  <2>3. CASE abi_pc' # "host"
    <3>1. AbiHostPc' = "native" /\ AbiHostPc = "native"
      BY <1>2, <2>1, <2>3, AbiEarlySteps DEF AbiHostPc, AbiEarly, Abi!Goes, Abi!Envelope
    <3> QED BY <2>2, <3>1, AbiHostStutters
  <2>4. CASE abi_pc' = "host"
    <3>1. AbiHostPc' = "callback" /\ AbiHostPc = "native"
      BY <2>1, <2>4 DEF AbiHostPc
    <3>2. Abi!Host!CallBack(NativeCall)
      BY <2>2, <3>1
      DEF Abi!Host!CallBack, Abi!Host!Goto, AbiHostPc, AbiHostFailure, AbiHostResult, AbiHostHeap
    <3> QED BY <3>2 DEF Abi!Host!Work
  <2> QED BY <2>3, <2>4
<1>3. CASE Abi!Callback
  <2>1. AbiHostPc = "callback" /\ AbiHostPc' = "resumed"
        /\ UNCHANGED <<AbiHostResult, AbiHostHeap>>
    BY <1>3, AbiNames DEF Abi!Callback, AbiHostPc, AbiHostResult, AbiHostHeap
  <2>2. Abi!Host!Resumable(NativeCall)
    BY AbiNames DEF Abi!Host!Resumable
  <2>3. AbiHostFailure' \in BOOLEAN
    BY DEF AbiHostFailure
  <2>4. Abi!Host!CallbackReturns(NativeCall, AbiHostFailure')
    BY <2>1, <2>2
    DEF Abi!Host!CallbackReturns, Abi!Host!Goto, AbiHostPc, AbiHostFailure, AbiHostResult,
        AbiHostHeap
  <2> QED BY <2>3, <2>4 DEF Abi!Host!Work
<1>4. CASE Abi!Answered
  <2>1. answer \in Abi!Answers /\ answer # NoAnswer /\ abi_pc = "answered" /\ abi_pc' = "copy"
        /\ UNCHANGED <<answer, output>> /\ output = "none"
    BY <1>4, AbiNames, AbiAnsweredInv DEF Abi!Answered, AbiIInv
  <2>2. UNCHANGED <<AbiHostPc, AbiHostFailure, AbiHostResult, AbiHostHeap>>
    BY <2>1 DEF AbiHostPc, AbiHostFailure, AbiHostResult, AbiHostHeap
  <2> QED BY <2>2, AbiHostStutters
<1>5. CASE Abi!OutOfMemory
  <2>1. UNCHANGED <<AbiHostPc, AbiHostFailure, AbiHostResult, AbiHostHeap>>
    BY <1>5
    DEF Abi!OutOfMemory, Abi!Throws, Abi!Envelope, AbiIInv, AbiHostPc, AbiHostFailure,
        AbiHostResult, AbiHostHeap
  <2> QED BY <2>1, AbiHostStutters
<1>6. CASE Abi!Copy
  <2>1. AbiHostPc \in {"native", "resumed"} /\ AbiHostPc' = "returned"
        /\ AbiHostFailure' = AbiHostFailure
    BY <1>6 DEF Abi!Copy, AbiHostPc, AbiHostFailure
  <2>2. AbiHostResult' \in {"null", "value", "failure"}
        /\ AbiHostHeap' = IF AbiHostResult' = "null" THEN "none" ELSE "allocated"
    BY <1>6 DEF Abi!Copy, AbiHostResult, AbiHostHeap
  <2>3. AbiHostFailure => AbiHostResult' # "value"
    BY <1>6
    DEF Abi!Copy, AbiHostResult, AbiHostFailure, AbiIInv, AbiDecided, Abi!Contract, Abi!Failed
  <2>4. Abi!Host!NativeReturns(NativeCall, AbiHostResult')
    BY <2>1, <2>2, <2>3
    DEF Abi!Host!NativeReturns, Abi!Host!Goto, AbiHostPc, AbiHostFailure, AbiHostResult,
        AbiHostHeap
  <2> QED BY <2>2, <2>4 DEF Abi!Host!Work, Abi!Host!Results
<1>7. CASE UNCHANGED Abi!vars
  <2>1. UNCHANGED <<AbiHostPc, AbiHostFailure, AbiHostResult, AbiHostHeap>>
    BY <1>7 DEF Abi!vars, AbiHostPc, AbiHostFailure, AbiHostResult, AbiHostHeap
  <2> QED BY <2>1, AbiHostStutters
<1> QED BY <1>1, <1>2, <1>3, <1>4, <1>5, <1>6, <1>7 DEF Abi!Next, Abi!Returned

-------------------------------------------------------------------------------
\* The calls of PHP

PhpPlaces == {"idle", "entered", "native", "callback", "resumed", "returned", "free", "unlease",
              "ended"}
PhpRunning(c) == Php!InNative(c) \/ pc[c] = "unlease"
PhpTop == calls[Len(calls)]

PhpTypes ==
  /\ pc \in [Calls -> PhpPlaces]
  /\ parent \in [Calls -> Calls \cup {None}]
  /\ failure \in [Calls -> BOOLEAN]
  /\ result \in [Calls -> Php!Results]
  /\ heap \in [Calls -> {"none", "allocated", "freed"}]
  /\ outcome \in [Calls -> Php!Outcomes]
  /\ calls \in Seq(Calls)
  /\ served \in [Calls -> Calls \cup {None}]

\* The stack is a chain of callbacks, with the call that runs native code at its top
\* and, above that, at most one call that has not been pushed yet.
PhpStackInv ==
  /\ \A c \in Calls : PhpRunning(c) <=> \E i \in 1 .. Len(calls) : calls[i] = c
  /\ \A i \in 1 .. Len(calls) : parent[calls[i]] = IF i = 1 THEN None ELSE calls[i - 1]
  /\ \A i \in 1 .. Len(calls) : i # Len(calls) => pc[calls[i]] = "callback"
  /\ \A c \in Calls : pc[c] = "entered" =>
       IF Len(calls) = 0 THEN parent[c] = None ELSE parent[c] = PhpTop /\ pc[PhpTop] = "callback"
  /\ \A c, d \in Calls : pc[c] = "entered" /\ pc[d] = "entered" => c = d

\* The error a context keeps is its own call's.
PhpErrorInv == \A c \in Calls :
  /\ served[c] \in {c, None}
  /\ pc[c] = "callback" => served[c] = c
  /\ failure[c] <=> c \in threw
  /\ pc[c] \in {"idle", "entered", "native", "callback"} => ~failure[c]
  /\ pc[c] \in {"free", "unlease", "ended"} => (failure[c] <=> outcome[c] = "host_error")
  /\ heap[c] = "allocated" => pc[c] \in {"returned", "free"}

PhpIInv == PhpTypes /\ PhpStackInv /\ PhpErrorInv

\* The invariant holds before the first call.
LEMMA PhpInitInv == Php!Init => PhpIInv
  BY DEF Php!Init, Php!CallInit, PhpIInv, PhpTypes, PhpPlaces, Php!Results, Php!Outcomes,
         PhpStackInv, PhpErrorInv, PhpRunning, Php!InNative, PhpTop

\* A running call that is not in its callback is the one on top, and no call is about
\* to be pushed; so is one in its callback that no call of its own is active for.
LEMMA PhpOnTop ==
  ASSUME PhpIInv, NEW c \in Calls, PhpRunning(c), pc[c] # "callback" \/ Php!Resumable(c)
  PROVE  /\ Len(calls) > 0 /\ PhpTop = c
         /\ \A i \in 1 .. Len(calls) : calls[i] = c => i = Len(calls)
         /\ \A d \in Calls : pc[d] # "entered"
<1> USE DEF PhpIInv, PhpTypes
<1>1. PICK i \in 1 .. Len(calls) : calls[i] = c
  BY DEF PhpStackInv
<1>2. ASSUME NEW j \in 1 .. Len(calls), calls[j] = c
      PROVE  j = Len(calls)
  <2> SUFFICES ASSUME j # Len(calls) PROVE FALSE
    OBVIOUS
  <2>1. j + 1 \in 1 .. Len(calls) /\ pc[c] = "callback"
    BY <1>2 DEF PhpStackInv
  <2>2. calls[j + 1] \in Calls /\ parent[calls[j + 1]] = c
    BY <1>2, <2>1 DEF PhpStackInv
  <2>3. PhpRunning(calls[j + 1])
    BY <2>1, <2>2 DEF PhpStackInv
  <2> QED BY <2>1, <2>2, <2>3 DEF Php!Resumable, Php!Active, PhpRunning, Php!InNative
<1>3. ASSUME NEW d \in Calls, pc[d] = "entered" PROVE FALSE
  <2>1. parent[d] = c /\ pc[c] = "callback"
    BY <1>1, <1>2, <1>3 DEF PhpStackInv, PhpTop
  <2> QED BY <1>3, <2>1 DEF Php!Resumable, Php!Active
<1> QED BY <1>1, <1>2, <1>3 DEF PhpTop

\* A call begins, from the main program or from the callback on top.
LEMMA PhpInvokeInv ==
  ASSUME PhpIInv, NEW c \in Calls, NEW p \in Calls \cup {None}, NEW with \in BOOLEAN,
         Php!Invoke(c, p, with)
  PROVE  PhpIInv'
<1> USE DEF PhpIInv, Php!Invoke, Php!Enter, Php!Goto
<1>1. PhpTypes'
  BY DEF PhpTypes, PhpPlaces, Php!Outcomes, Php!Results
<1>2. PhpErrorInv'
  BY DEF PhpErrorInv, PhpTypes
<1>3. IF Len(calls) = 0 THEN p = None ELSE p = PhpTop /\ pc[p] = "callback"
  <2>1. CASE p = None
    <3>1. \A d \in Calls : ~PhpRunning(d)
      BY <2>1 DEF Php!Active, PhpRunning, Php!InNative
    <3>2. Len(calls) = 0
      BY <3>1 DEF PhpStackInv, PhpTypes
    <3> QED BY <2>1, <3>2
  <2>2. CASE p # None
    <3>1. p \in Calls /\ PhpRunning(p) /\ Php!Resumable(p) /\ pc[p] = "callback"
      BY <2>2 DEF PhpRunning, Php!InNative
    <3> QED BY <3>1, PhpOnTop DEF PhpTypes
  <2> QED BY <2>1, <2>2
<1>4. \A d \in Calls : pc[d] # "entered"
  <2>1. CASE p = None
    BY <2>1 DEF Php!Active
  <2>2. CASE p # None
    BY <2>2, PhpOnTop DEF PhpRunning, Php!InNative
  <2> QED BY <2>1, <2>2
<1>5. \A i \in 1 .. Len(calls) : calls[i] \in Calls /\ calls[i] # c
  BY DEF PhpStackInv, PhpTypes, PhpRunning, Php!InNative
<1>6. PhpStackInv'
  <2>1. \A d \in Calls : PhpRunning(d)' <=> PhpRunning(d)
    BY DEF PhpRunning, Php!InNative, PhpTypes
  <2>2. calls' = calls /\ \A d \in Calls \ {c} : pc'[d] = pc[d] /\ parent'[d] = parent[d]
    BY DEF PhpTypes
  <2>3. pc'[c] = "entered" /\ parent'[c] = p
    BY DEF PhpTypes
  <2> QED BY <1>3, <1>4, <1>5, <2>1, <2>2, <2>3 DEF PhpStackInv, PhpTop, PhpTypes
<1> QED BY <1>1, <1>2, <1>6

\* The context of a call is pushed, and the call goes native.
LEMMA PhpPushInv ==
  ASSUME PhpIInv, NEW c \in Calls, Php!Push(c)
  PROVE  PhpIInv'
<1> USE DEF PhpIInv, Php!Push, Php!Goto
<1>1. PhpTypes'
  BY DEF PhpTypes, PhpPlaces, Php!Outcomes, Php!Results
<1>2. PhpErrorInv'
  BY DEF PhpErrorInv, PhpTypes
<1>3. /\ Len(calls') = Len(calls) + 1 /\ Len(calls) \in Nat
      /\ \A i \in 1 .. Len(calls) : calls'[i] = calls[i] /\ calls[i] \in Calls
      /\ calls'[Len(calls) + 1] = c
  BY DEF PhpTypes
<1>4. \A i \in 1 .. Len(calls) : calls[i] # c
  BY <1>3 DEF PhpStackInv, PhpRunning, Php!InNative
<1>5. /\ pc'[c] = "native" /\ pc[c] = "entered" /\ parent' = parent
      /\ \A d \in Calls \ {c} : pc'[d] = pc[d] /\ pc[d] # "entered"
  BY DEF PhpTypes, PhpStackInv
<1>6. PhpStackInv'
  <2>1. \A d \in Calls : PhpRunning(d)' <=> \E i \in 1 .. Len(calls') : calls'[i] = d
    <3>1. \A d \in Calls \ {c} : PhpRunning(d)' <=> PhpRunning(d)
      BY <1>5 DEF PhpRunning, Php!InNative
    <3>2. PhpRunning(c)'
      BY <1>5 DEF PhpRunning, Php!InNative
    <3> QED BY <1>3, <3>1, <3>2 DEF PhpStackInv
  <2>2. \A i \in 1 .. Len(calls') : parent'[calls'[i]] = IF i = 1 THEN None ELSE calls'[i - 1]
    <3> SUFFICES ASSUME NEW i \in 1 .. Len(calls')
                 PROVE  parent'[calls'[i]] = IF i = 1 THEN None ELSE calls'[i - 1]
      OBVIOUS
    <3>1. CASE i = Len(calls')
      BY <1>3, <1>5, <3>1 DEF PhpStackInv, PhpTop
    <3>2. CASE i # Len(calls')
      BY <1>3, <1>5, <3>2 DEF PhpStackInv
    <3> QED BY <3>1, <3>2
  <2>3. \A i \in 1 .. Len(calls') : i # Len(calls') => pc'[calls'[i]] = "callback"
    <3> SUFFICES ASSUME NEW i \in 1 .. Len(calls) PROVE pc[calls[i]] = "callback"
      BY <1>3, <1>4, <1>5
    <3> QED BY <1>3, <1>5 DEF PhpStackInv, PhpTop
  <2> QED BY <1>5, <2>1, <2>2, <2>3 DEF PhpStackInv
<1> QED BY <1>1, <1>2, <1>6

\* The stack without its top.
LEMMA PhpDropTop ==
  ASSUME NEW S, NEW s \in Seq(S), Len(s) > 0
  PROVE  /\ SubSeq(s, 1, Len(s) - 1) \in Seq(S)
         /\ Len(SubSeq(s, 1, Len(s) - 1)) = Len(s) - 1
         /\ \A i \in 1 .. Len(s) - 1 : SubSeq(s, 1, Len(s) - 1)[i] = s[i]
<1> DEFINE n == Len(s) - 1
<1>1. n \in Nat /\ \A i \in 1 .. n : s[i] \in S
  OBVIOUS
<1> HIDE DEF n
<1>2. /\ SubSeq(s, 1, n) \in Seq(S)
      /\ Len(SubSeq(s, 1, n)) = IF 1 =< n THEN n - 1 + 1 ELSE 0
      /\ \A i \in 1 .. n - 1 + 1 : SubSeq(s, 1, n)[i] = s[1 + i - 1]
  BY <1>1, SubSeqProperties
<1>3. /\ SubSeq(s, 1, n) \in Seq(S)
      /\ Len(SubSeq(s, 1, n)) = n
      /\ \A i \in 1 .. n : SubSeq(s, 1, n)[i] = s[i]
  BY <1>1, <1>2
<1> QED BY <1>3 DEF n

\* The context of the call that leaves native code is popped.
LEMMA PhpPopInv ==
  ASSUME PhpIInv, NEW c \in Calls, Php!Pop(c)
  PROVE  PhpIInv'
<1> USE DEF PhpIInv, Php!Pop, Php!Goto
<1>1. Len(calls) > 0 /\ PhpTop = c /\ (\A d \in Calls : pc[d] # "entered")
  BY PhpOnTop DEF PhpRunning
<1>2. /\ Len(calls') = Len(calls) - 1 /\ Len(calls) \in Nat
      /\ \A i \in 1 .. Len(calls) - 1 : calls'[i] = calls[i] /\ calls[i] \in Calls
      /\ calls' \in Seq(Calls)
  <2>1. calls \in Seq(Calls) /\ Len(calls) > 0 /\ calls' = SubSeq(calls, 1, Len(calls) - 1)
    BY <1>1 DEF PhpTypes
  <2>2. Len(calls) \in Nat /\ \A i \in 1 .. Len(calls) - 1 : calls[i] \in Calls
    BY <2>1
  <2> QED BY <2>1, <2>2, PhpDropTop
<1>3. PhpTypes'
  BY <1>2 DEF PhpTypes, PhpPlaces, Php!Outcomes, Php!Results
<1>4. PhpErrorInv'
  BY DEF PhpErrorInv, PhpTypes
<1>5. /\ pc'[c] = "ended" /\ parent' = parent
      /\ \A d \in Calls \ {c} : pc'[d] = pc[d]
  BY DEF PhpTypes
<1>6. \A i \in 1 .. Len(calls) - 1 : calls[i] # c
  BY <1>2, PhpOnTop DEF PhpRunning
<1>7. PhpStackInv'
  <2>1. \A d \in Calls : PhpRunning(d)' <=> \E i \in 1 .. Len(calls') : calls'[i] = d
    <3>1. \A d \in Calls \ {c} : PhpRunning(d)' <=> PhpRunning(d)
      BY <1>5 DEF PhpRunning, Php!InNative
    <3>2. ~PhpRunning(c)'
      BY <1>5 DEF PhpRunning, Php!InNative
    <3>3. \A d \in Calls \ {c} : PhpRunning(d) <=> \E i \in 1 .. Len(calls) - 1 : calls[i] = d
      BY <1>1, <1>2 DEF PhpStackInv, PhpTop
    <3> QED BY <1>2, <1>6, <3>1, <3>2, <3>3
  <2> QED BY <1>1, <1>2, <1>5, <1>6, <2>1 DEF PhpStackInv
<1> QED BY <1>3, <1>4, <1>7

\* Encoding the input throws, before the context of the call is pushed.
LEMMA PhpThrowInv ==
  ASSUME PhpIInv, NEW c \in Calls, Php!EncodeThrows(c)
  PROVE  PhpIInv'
<1> USE DEF PhpIInv, Php!EncodeThrows, Php!Goto
<1>1. PhpTypes'
  BY DEF PhpTypes, PhpPlaces, Php!Outcomes, Php!Results
<1>2. PhpErrorInv'
  BY DEF PhpErrorInv, PhpTypes
<1>3. \A d \in Calls : PhpRunning(d)' <=> PhpRunning(d)
  BY DEF PhpRunning, Php!InNative, PhpTypes
<1>4. \A i \in 1 .. Len(calls) : calls[i] \in Calls /\ calls[i] # c
  BY DEF PhpStackInv, PhpTypes, PhpRunning, Php!InNative
<1>5. PhpStackInv'
  BY <1>3, <1>4 DEF PhpStackInv, PhpTypes, PhpTop
<1> QED BY <1>1, <1>2, <1>5

\* Only the call on top, or one that has no context, moves.
LEMMA PhpTopMoves ==
  ASSUME PhpIInv, NEW c \in Calls, PhpRunning(c), pc[c] # "callback" \/ Php!Resumable(c),
         NEW to \in {"callback", "resumed", "returned", "free", "unlease"},
         pc' = [pc EXCEPT ![c] = to], UNCHANGED <<parent, calls>>
  PROVE  PhpStackInv'
<1> USE DEF PhpIInv
<1>1. Len(calls) > 0 /\ PhpTop = c /\ (\A d \in Calls : pc[d] # "entered")
  BY PhpOnTop
<1>2. \A d \in Calls : PhpRunning(d)' <=> PhpRunning(d)
  BY DEF PhpRunning, Php!InNative, PhpTypes
<1>3. \A i \in 1 .. Len(calls) : calls[i] \in Calls /\ (i # Len(calls) => calls[i] # c)
  BY PhpOnTop DEF PhpTypes
<1>4. pc'[c] # "entered" /\ \A d \in Calls \ {c} : pc'[d] = pc[d]
  BY DEF PhpTypes
<1> QED BY <1>1, <1>2, <1>3, <1>4 DEF PhpStackInv

\* Their steps keep the invariant.
LEMMA PhpTopInv ==
  ASSUME PhpIInv, NEW c \in Calls,
         \/ Php!Exchange(c) \/ Php!Finish(c)
         \/ \E throws \in BOOLEAN : Php!ExchangeReturns(c, throws)
         \/ \E r \in Php!Results \ {"none"} : Php!Return(c, r)
  PROVE  PhpIInv'
<1> USE DEF PhpIInv, Php!Goto
<1>1. CASE Php!Exchange(c)
  <2> USE <1>1 DEF Php!Exchange, Php!CallBack
  <2>1. PhpRunning(c) /\ Php!Context = c
    BY PhpOnTop DEF PhpRunning, Php!InNative, Php!Context, PhpTop
  <2>2. PhpStackInv'
    BY <2>1, PhpTopMoves
  <2>3. PhpTypes' /\ PhpErrorInv'
    BY <2>1 DEF PhpTypes, PhpPlaces, Php!Outcomes, Php!Results, PhpErrorInv
  <2> QED BY <2>2, <2>3
<1>2. ASSUME NEW throws \in BOOLEAN, Php!ExchangeReturns(c, throws) PROVE PhpIInv'
  <2> USE <1>2 DEF Php!ExchangeReturns
  <2>1. PhpRunning(c) /\ served[c] = c
    BY DEF PhpRunning, Php!InNative, PhpErrorInv
  <2>2. PhpStackInv'
    BY <2>1, PhpTopMoves
  <2>3. PhpTypes' /\ PhpErrorInv'
    BY <2>1 DEF PhpTypes, PhpPlaces, Php!Outcomes, Php!Results, PhpErrorInv
  <2> QED BY <2>2, <2>3
<1>3. ASSUME NEW r \in Php!Results \ {"none"}, Php!Return(c, r) PROVE PhpIInv'
  <2> USE <1>3 DEF Php!Return, Php!NativeReturns
  <2>1. PhpRunning(c) /\ pc[c] \in {"native", "resumed"}
    BY DEF PhpRunning, Php!InNative
  <2>2. PhpStackInv'
    BY <2>1, PhpTopMoves
  <2>3. PhpTypes'
    BY DEF PhpTypes, PhpPlaces, Php!Outcomes, Php!Results
  <2>4. pc'[c] = "returned" /\ UNCHANGED <<failure, threw, served>>
        /\ \A d \in Calls \ {c} : pc'[d] = pc[d] /\ heap'[d] = heap[d]
           /\ outcome'[d] = outcome[d]
    BY DEF PhpTypes
  <2>5. PhpErrorInv'
    BY <2>1, <2>4 DEF PhpErrorInv
  <2> QED BY <2>2, <2>3, <2>5
<1>4. ASSUME NEW decodes \in BOOLEAN, Php!Decode(c, decodes),
             UNCHANGED <<calls, hosted, served, threw>>
      PROVE  PhpIInv'
  <2> USE <1>4 DEF Php!Decode
  <2>1. PhpRunning(c) /\ pc[c] = "returned"
    BY DEF PhpRunning, Php!InNative
  <2>2. PhpStackInv'
    BY <2>1, PhpTopMoves
  <2>3. /\ Php!Answer(c, decodes) = "host_error" <=> failure[c]
        /\ Php!Answer(c, decodes) \in Php!Outcomes
    BY DEF Php!Answer, Php!Decoded, PhpTypes, Php!Outcomes
  <2>4. PhpTypes' /\ PhpErrorInv'
    BY <2>1, <2>3 DEF PhpTypes, PhpPlaces, Php!Outcomes, Php!Results, PhpErrorInv
  <2> QED BY <2>2, <2>4
<1>5. ASSUME Php!FreeResult(c), UNCHANGED <<calls, hosted, served, threw>>
      PROVE  PhpIInv'
  <2> USE <1>5 DEF Php!FreeResult
  <2>1. PhpRunning(c) /\ pc[c] = "free"
    BY DEF PhpRunning, Php!InNative
  <2>2. PhpStackInv'
    BY <2>1, PhpTopMoves
  <2>3. PhpTypes' /\ PhpErrorInv'
    BY <2>1 DEF PhpTypes, PhpPlaces, Php!Outcomes, Php!Results, PhpErrorInv
  <2> QED BY <2>2, <2>3
<1> QED BY <1>1, <1>2, <1>3, <1>4, <1>5 DEF Php!Finish

\* Every step keeps the invariant.
LEMMA PhpNextInv == PhpIInv /\ [Php!Next]_(Php!vars) => PhpIInv'
<1>1. PhpIInv /\ UNCHANGED Php!vars => PhpIInv'
  BY DEF Php!vars, Php!callVars, PhpIInv, PhpTypes, PhpStackInv, PhpErrorInv, PhpRunning,
         Php!InNative, PhpTop
<1> QED BY <1>1, PhpInvokeInv, PhpPushInv, PhpPopInv, PhpThrowInv, PhpTopInv
        DEF Php!Next, Php!Continue, Php!AllEnded

\* The invariant is as strong as the properties.
LEMMA PhpSafe ==
  PhpIInv => Php!OwnContext /\ Php!OwnErrorWins /\ Php!ResultFreed /\ Php!ContextsAreCalls
<1> SUFFICES ASSUME PhpIInv
             PROVE Php!OwnContext /\ Php!OwnErrorWins /\ Php!ResultFreed /\ Php!ContextsAreCalls
  OBVIOUS
<1>1. Php!OwnContext /\ Php!OwnErrorWins /\ Php!ResultFreed
  BY DEF PhpIInv, PhpErrorInv, Php!OwnContext, Php!OwnErrorWins, Php!ResultFreed
<1>2. \A i \in 1 .. Len(calls) : calls[i] \in Calls
  BY DEF PhpIInv, PhpTypes
<1> QED BY <1>1, <1>2 DEF PhpIInv, PhpStackInv, Php!ContextsAreCalls, PhpRunning

-------------------------------------------------------------------------------
\* The calls of Python

PythonBefore == {"idle", "entered", "locked", "loading", "loaded", "leased", "native", "callback"}
PythonTypes ==
  /\ pc \in [Calls -> PythonBefore \cup {"resumed", "returned", "free", "unlease", "ended"}]
  /\ failure \in [Calls -> BOOLEAN]
  /\ heap \in [Calls -> {"none", "allocated", "freed"}]
  /\ outcome \in [Calls -> Python!Outcomes \cup {"load_error"}]
  /\ library \in [Calls -> Calls \cup {None}]
  /\ default \in Calls \cup {None}

\* A failure is kept until it is the outcome, a result until it is freed.
PythonCallInv == \A c \in Calls :
  /\ failure[c] => pc[c] \notin PythonBefore
  /\ failure[c] /\ pc[c] \in {"free", "unlease", "ended"} => outcome[c] = "host_error"
  /\ heap[c] = "allocated" => pc[c] \in {"returned", "free"}

\* The default is loaded by the call that holds the lock, once.
PythonLibraryInv ==
  /\ \A c \in Calls : pc[c] \in {"locked", "loading", "loaded"} <=> default_lock = c
  /\ \A c \in Calls : pc[c] = "loading" => default = None
  /\ \A c \in Calls : library[c] \in {None, default}

PythonIInv == PythonTypes /\ PythonCallInv /\ PythonLibraryInv

\* The invariant holds before the first call.
LEMMA PythonInitInv == Python!Init => PythonIInv
  BY NoneIsNoCall
  DEF Python!Init, Python!CallInit, Python!LibraryInit, PythonIInv, PythonTypes, PythonCallInv,
      PythonLibraryInv, PythonBefore, Python!Outcomes

\* What a call does with its library keeps the invariant.
LEMMA PythonWorkInv ==
  ASSUME PythonIInv, NEW c \in Calls, Python!Run(c)
  PROVE  PythonIInv'
<1> USE DEF PythonIInv, Python!Run, Python!libraryVars, Python!Goto, PythonBefore
<1>1. ASSUME Python!EncodingFails(c) \/ Python!CallNative(c) \/ Python!CallBack(c)
             \/ Python!FreeResult(c) \/ Python!ReturnLease(c)
      PROVE  PythonIInv'
  BY <1>1
  DEF Python!EncodingFails, Python!CallNative, Python!CallBack, Python!FreeResult,
      Python!ReturnLease, PythonTypes, PythonCallInv, PythonLibraryInv, Python!Outcomes
<1>2. ASSUME NEW failed \in BOOLEAN, Python!CallbackReturns(c, failed)
      PROVE  PythonIInv'
  BY <1>2 DEF Python!CallbackReturns, PythonTypes, PythonCallInv, PythonLibraryInv
<1>3. ASSUME NEW r \in Python!Results \ {"none"}, Python!NativeReturns(c, r)
      PROVE  PythonIInv'
  BY <1>3 DEF Python!NativeReturns, PythonTypes, PythonCallInv, PythonLibraryInv
<1>4. ASSUME NEW decodes \in BOOLEAN, Python!Decode(c, decodes)
      PROVE  PythonIInv'
  <2>1. failure[c] => outcome'[c] = "host_error"
    BY <1>4 DEF Python!Decode, Python!Answer, PythonTypes
  <2>2. Python!Answer(c, decodes) \in Python!Outcomes
    BY DEF Python!Answer, Python!Decoded, Python!Outcomes
  <2> QED BY <1>4, <2>1, <2>2 DEF Python!Decode, PythonTypes, PythonCallInv, PythonLibraryInv
<1> QED BY <1>1, <1>2, <1>3, <1>4 DEF Python!Work

\* Finding or loading the default library keeps the invariant: one is published.
LEMMA PythonLoadInv ==
  ASSUME PythonIInv, NEW c \in Calls,
         Python!GivenLibrary(c) \/ Python!Acquire(c) \/ Python!FindNone(c) \/ Python!Load(c)
         \/ Python!LoadFails(c) \/ Python!ReturnDefault(c)
  PROVE  PythonIInv'
<1> USE NoneIsNoCall
    DEF PythonIInv, Python!libraryVars, Python!Goto, PythonBefore, PythonTypes, PythonCallInv,
        PythonLibraryInv
<1>1. CASE Python!GivenLibrary(c) BY <1>1 DEF Python!GivenLibrary, Python!TakeLease
<1>2. CASE Python!Acquire(c) BY <1>2 DEF Python!Acquire
<1>3. CASE Python!FindNone(c) BY <1>3 DEF Python!FindNone
<1>4. CASE Python!Load(c) BY <1>4 DEF Python!Load
<1>5. CASE Python!LoadFails(c) BY <1>5 DEF Python!LoadFails
<1>6. CASE Python!ReturnDefault(c) BY <1>6 DEF Python!ReturnDefault
<1> QED BY <1>1, <1>2, <1>3, <1>4, <1>5, <1>6

\* Every step keeps the invariant.
LEMMA PythonNextInv == PythonIInv /\ [Python!Next]_(Python!vars) => PythonIInv'
<1> SUFFICES ASSUME PythonIInv, [Python!Next]_(Python!vars) PROVE PythonIInv'
  OBVIOUS
<1>1. ASSUME NEW c \in Calls, NEW p \in Calls \cup {None}, Python!Invoke(c, p)
      PROVE  PythonIInv'
  BY <1>1
  DEF Python!Invoke, Python!Enter, Python!Goto, Python!libraryVars, PythonIInv, PythonTypes,
      PythonCallInv, PythonLibraryInv, PythonBefore
<1>2. CASE UNCHANGED Python!vars
  BY <1>2
  DEF Python!vars, Python!callVars, Python!libraryVars, PythonIInv, PythonTypes, PythonCallInv,
      PythonLibraryInv
<1> QED BY <1>1, <1>2, PythonWorkInv, PythonLoadInv
        DEF Python!Next, Python!Continue, Python!AllEnded

\* The invariant is as strong as the properties.
LEMMA PythonSafe == PythonIInv => Python!OneDefault /\ Python!HostErrorWins /\ Python!ResultFreed
  BY DEF PythonIInv, PythonCallInv, PythonLibraryInv, Python!OneDefault, Python!HostErrorWins,
         Python!ResultFreed

-------------------------------------------------------------------------------
\* The calls of Ruby

RubyLoading == {"locked", "opened", "checked", "bound"}
RubyBefore == {"idle", "entered", "leased", "native", "callback"} \cup RubyLoading
RubyTypes ==
  /\ pc \in [Calls -> RubyBefore \cup {"resumed", "returned", "free", "unlease", "ended"}]
  /\ failure \in [Calls -> BOOLEAN]
  /\ heap \in [Calls -> {"none", "allocated", "freed"}]
  /\ outcome \in [Calls -> Ruby!Outcomes \cup {"load_error"}]
  /\ buffers \in [Calls -> SUBSET {"fallback", "answer"}]
  /\ handle \in BOOLEAN /\ free \in BOOLEAN /\ bridge \in BOOLEAN

RubyCallInv == \A c \in Calls :
  /\ failure[c] => pc[c] \notin RubyBefore
  /\ failure[c] /\ pc[c] \in {"free", "unlease", "ended"} => outcome[c] = "host_error"
  /\ heap[c] = "allocated" => pc[c] \in {"returned", "free"}

\* The bridge is there when its last part is, whoever set the ones before.
RubyLoadInv ==
  /\ bridge => handle /\ free
  /\ \A c \in Calls : /\ pc[c] \in {"opened", "checked", "bound"} => handle
                      /\ pc[c] = "bound" => free
                      /\ Ruby!Leased(c) => bridge

\* A call allocates once it is native.
RubyBuffersInv == Ruby!BuffersOfCalls /\ \A c \in Calls :
  pc[c] \in {"idle", "entered", "leased"} \cup RubyLoading => buffers[c] = {}

RubyIInv == RubyTypes /\ RubyCallInv /\ RubyLoadInv /\ RubyBuffersInv

\* The invariant holds before the first call.
LEMMA RubyInitInv == Ruby!Init => RubyIInv
  BY DEF Ruby!Init, Ruby!CallInit, Ruby!LoadInit, Ruby!BuffersInit, RubyIInv, RubyTypes,
         RubyCallInv, RubyLoadInv, RubyBuffersInv, Ruby!BuffersOfCalls, RubyBefore, RubyLoading,
         Ruby!Outcomes, Ruby!Leased, Ruby!InNative

\* The steps of load_bridge.
LEMMA RubyLoadSteps ==
  ASSUME RubyIInv, NEW c \in Calls,
         \/ Ruby!Synchronize(c) \/ Ruby!Loaded(c) \/ Ruby!Dlopen(c)
         \/ Ruby!CheckAbi(c) \/ Ruby!BindFree(c)
         \/ Ruby!BindInvoke(c) \/ Ruby!LoadFails(c)
  PROVE  RubyIInv'
<1> USE DEF RubyIInv, Ruby!Step, Ruby!Goto, RubyBefore, RubyLoading, RubyTypes, RubyCallInv,
            RubyLoadInv, RubyBuffersInv, Ruby!BuffersOfCalls, Ruby!Leased, Ruby!InNative
<1>1. CASE Ruby!Synchronize(c) BY <1>1 DEF Ruby!Synchronize
<1>2. CASE Ruby!Loaded(c) BY <1>2 DEF Ruby!Loaded
<1>3. CASE Ruby!Dlopen(c) BY <1>3 DEF Ruby!Dlopen
<1>4. CASE Ruby!CheckAbi(c) BY <1>4 DEF Ruby!CheckAbi, Ruby!loadVars
<1>5. CASE Ruby!BindFree(c) BY <1>5 DEF Ruby!BindFree
<1>6. CASE Ruby!BindInvoke(c) BY <1>6 DEF Ruby!BindInvoke
<1>7. CASE Ruby!LoadFails(c) BY <1>7 DEF Ruby!LoadFails
<1> QED BY <1>1, <1>2, <1>3, <1>4, <1>5, <1>6, <1>7

\* The steps of invoke once the bridge is loaded.
LEMMA RubyInvokeSteps ==
  ASSUME RubyIInv, NEW c \in Calls,
         \/ Ruby!GenerateRaises(c) \/ Ruby!Call(c) \/ Ruby!Finish(c) \/ Ruby!Ensure(c)
         \/ \E failed \in BOOLEAN : Ruby!Answered(c, failed)
  PROVE  RubyIInv'
<1> USE DEF RubyIInv, Ruby!Goto, RubyBefore, RubyLoading, RubyTypes, RubyCallInv, RubyLoadInv,
            RubyBuffersInv, Ruby!BuffersOfCalls, Ruby!Leased, Ruby!InNative, Ruby!loadVars,
            Ruby!rubyVars, Ruby!Allocate
<1>1. CASE Ruby!GenerateRaises(c)
  BY <1>1 DEF Ruby!GenerateRaises, Ruby!EncodingFails, Ruby!Outcomes
<1>2. CASE Ruby!Call(c) BY <1>2 DEF Ruby!Call, Ruby!CallNative
<1>3. ASSUME NEW failed \in BOOLEAN, Ruby!Answered(c, failed) PROVE RubyIInv'
  BY <1>3 DEF Ruby!Answered, Ruby!CallbackReturns
<1>4. CASE Ruby!Ensure(c) BY <1>4 DEF Ruby!Ensure, Ruby!ReturnLease
<1>5. CASE Ruby!Finish(c)
  <2>1. ASSUME Ruby!CallBack(c), UNCHANGED Ruby!rubyVars PROVE RubyIInv'
    BY <2>1 DEF Ruby!CallBack
  <2>2. ASSUME NEW r \in Ruby!Results \ {"none"}, Ruby!NativeReturns(c, r),
               UNCHANGED Ruby!rubyVars
        PROVE  RubyIInv'
    BY <2>2 DEF Ruby!NativeReturns
  <2>3. ASSUME NEW decodes \in BOOLEAN, Ruby!Decode(c, decodes), UNCHANGED Ruby!rubyVars
        PROVE RubyIInv'
    <3>1. failure[c] => Ruby!Answer(c, decodes) = "host_error"
      BY DEF Ruby!Answer
    <3>2. Ruby!Answer(c, decodes) \in Ruby!Outcomes
      BY DEF Ruby!Answer, Ruby!Decoded, Ruby!Outcomes
    <3> QED BY <2>3, <3>1, <3>2 DEF Ruby!Decode
  <2>4. ASSUME Ruby!FreeResult(c), UNCHANGED Ruby!rubyVars PROVE RubyIInv'
    BY <2>4 DEF Ruby!FreeResult
  <2> QED BY <1>5, <2>1, <2>2, <2>3, <2>4 DEF Ruby!Finish
<1> QED BY <1>1, <1>2, <1>3, <1>4, <1>5

\* Every step keeps the invariant.
LEMMA RubyNextInv == RubyIInv /\ [Ruby!Next]_(Ruby!vars) => RubyIInv'
<1> SUFFICES ASSUME RubyIInv, [Ruby!Next]_(Ruby!vars) PROVE RubyIInv'
  OBVIOUS
<1> USE DEF RubyIInv, RubyTypes, RubyCallInv, RubyLoadInv, RubyBuffersInv, Ruby!BuffersOfCalls,
            Ruby!Leased, Ruby!InNative, RubyBefore, RubyLoading, Ruby!loadVars, Ruby!rubyVars
<1>1. ASSUME NEW c \in Calls, NEW p \in Calls \cup {None}, Ruby!Invoke(c, p)
      PROVE  RubyIInv'
  BY <1>1 DEF Ruby!Invoke, Ruby!Enter, Ruby!Goto
<1>2. CASE UNCHANGED Ruby!vars
  BY <1>2 DEF Ruby!vars, Ruby!callVars
<1>3. ASSUME NEW c \in Calls, Ruby!Continue(c)
      PROVE  RubyIInv'
  BY <1>3, RubyLoadSteps, RubyInvokeSteps DEF Ruby!Continue
<1> QED BY <1>1, <1>2, <1>3 DEF Ruby!Next, Ruby!AllEnded

\* The invariant is as strong as the properties.
LEMMA RubySafe ==
  RubyIInv =>
  Ruby!BridgeComplete /\ Ruby!BuffersOfCalls /\ Ruby!HostErrorWins /\ Ruby!ResultFreed
  BY DEF RubyIInv, RubyCallInv, RubyLoadInv, RubyBuffersInv, Ruby!BridgeComplete,
         Ruby!HostErrorWins, Ruby!ResultFreed

-------------------------------------------------------------------------------
\* The calls of Rust

RustBefore == {"idle", "entered", "leased", "native", "callback"}
RustTypes ==
  /\ pc \in [Calls -> RustBefore \cup {"resumed", "returned", "unwinding", "free", "unlease",
                                     "ended"}]
  /\ failure \in [Calls -> BOOLEAN]
  /\ heap \in [Calls -> {"none", "allocated", "freed"}]
  /\ outcome \in [Calls -> Rust!Outcomes \cup {"panic"}]

\* A panic is a failure of the callback that never gets to free an output.
RustFailureInv == \A c \in Calls :
  /\ failure[c] => pc[c] \notin RustBefore
  /\ c \in panicked => failure[c] /\ pc[c] \in {"resumed", "returned", "unwinding", "ended"}
  /\ pc[c] = "unwinding" => c \in panicked
  /\ pc[c] \in {"free", "unlease"} =>
     (outcome[c] = "host_error" <=> failure[c]) /\ outcome[c] # "panic"
  /\ heap[c] = "allocated" => pc[c] \in {"returned", "free"}

RustIInv == RustTypes /\ RustFailureInv /\ Rust!OwnFailure

\* The invariant holds before the first call.
LEMMA RustInitInv == Rust!Init => RustIInv
  BY DEF Rust!Init, Rust!CallInit, RustIInv, RustTypes, RustFailureInv, Rust!OwnFailure,
         RustBefore, Rust!Outcomes

\* Every step keeps the invariant.
LEMMA RustNextInv == RustIInv /\ [Rust!Next]_(Rust!vars) => RustIInv'
<1> SUFFICES ASSUME RustIInv, [Rust!Next]_(Rust!vars) PROVE RustIInv'
  OBVIOUS
<1> USE DEF RustIInv, RustTypes, RustFailureInv, Rust!OwnFailure, RustBefore, Rust!Goto
<1>1. ASSUME NEW c \in Calls, NEW p \in Calls \cup {None}, Rust!Invoke(c, p)
      PROVE  RustIInv'
  BY <1>1 DEF Rust!Invoke, Rust!Enter
<1>2. ASSUME NEW c \in Calls, Rust!Borrow(c)
      PROVE  RustIInv'
  BY <1>2 DEF Rust!Borrow, Rust!TakeLease
<1>3. ASSUME NEW c \in Calls, Rust!Proceed(c)
      PROVE  RustIInv'
  <2>1. CASE Rust!EncodingFails(c) /\ UNCHANGED panicked
    BY <2>1 DEF Rust!EncodingFails, Rust!Outcomes
  <2>2. CASE (Rust!CallNative(c) \/ Rust!CallBack(c)) /\ UNCHANGED panicked
    BY <2>2 DEF Rust!CallNative, Rust!CallBack
  <2>3. CASE Rust!FreeResult(c) /\ UNCHANGED panicked
    BY <2>3 DEF Rust!FreeResult
  <2>4. ASSUME NEW r \in Rust!Results \ {"none"}, Rust!NativeReturns(c, r), UNCHANGED panicked
        PROVE  RustIInv'
    BY <2>4 DEF Rust!NativeReturns
  <2>5. CASE Rust!ReturnLease(c) /\ UNCHANGED panicked
    BY <2>5 DEF Rust!ReturnLease
  <2> QED BY <1>3, <2>1, <2>2, <2>3, <2>4, <2>5 DEF Rust!Proceed
<1>4. ASSUME NEW c \in Calls, Rust!DropOutput(c)
      PROVE  RustIInv'
  BY <1>4 DEF Rust!DropOutput, Rust!Panics
<1>5. ASSUME NEW c \in Calls, Rust!ResumeUnwind(c)
      PROVE  RustIInv'
  BY <1>5 DEF Rust!ResumeUnwind, Rust!Outcomes
<1>6. ASSUME NEW c \in Calls, NEW decodes \in BOOLEAN, Rust!Decode(c, decodes),
             ~Rust!Panics(c), UNCHANGED panicked
      PROVE  RustIInv'
  <2>1. Rust!Answer(c, decodes) \in Rust!Outcomes \ {"panic"}
        /\ (Rust!Answer(c, decodes) = "host_error" <=> failure[c])
    BY DEF Rust!Answer, Rust!Decoded, Rust!Outcomes
  <2> QED BY <1>6, <2>1 DEF Rust!Decode, Rust!Panics
<1>7. ASSUME NEW c \in Calls, NEW how \in {"answer", "error", "panic"},
             Rust!ExchangeReturns(c, how)
      PROVE  RustIInv'
  <2>1. (how # "answer") \in BOOLEAN
    OBVIOUS
  <2> QED BY <1>7, <2>1 DEF Rust!ExchangeReturns, Rust!CallbackReturns
<1>8. CASE UNCHANGED Rust!vars
  BY <1>8 DEF Rust!vars, Rust!callVars
<1> QED BY <1>1, <1>2, <1>3, <1>4, <1>5, <1>6, <1>7, <1>8
        DEF Rust!Next, Rust!Continue, Rust!Return, Rust!AllEnded

\* The invariant is as strong as the properties.
LEMMA RustSafe == RustIInv => Rust!OwnFailure /\ Rust!ResultFreed
  BY DEF RustIInv, RustFailureInv, Rust!OwnFailure, Rust!ResultFreed

-------------------------------------------------------------------------------
\* The calls of Java

JavaBefore == {"idle", "entered", "leased", "native", "framed", "callback", "reading"}
JavaTypes ==
  /\ pc \in [Calls -> JavaBefore \cup {"resumed", "returned", "free", "unlease", "ended"}]
  /\ failure \in [Calls -> BOOLEAN]
  /\ heap \in [Calls -> {"none", "allocated", "freed"}]
  /\ outcome \in [Calls -> Java!Outcomes]
  /\ caught \in [Calls -> {"none", "pending", "error"}]

\* Until a call has ended its exception is pending exactly when it was caught as such.
JavaCaughtInv == \A c \in Calls :
  /\ pc[c] \in JavaBefore => caught[c] = "none" /\ ~failure[c] /\ c \notin java_threw
  /\ pc[c] # "ended" => (c \in pending <=> caught[c] = "pending")
  /\ pc[c] \in {"resumed", "returned"} => (failure[c] <=> caught[c] # "none")
  /\ pc[c] \in {"free", "unlease"} /\ caught[c] # "none" => outcome[c] # "value"
  /\ c \in java_threw => /\ failure[c] /\ caught[c] = "pending"
                         /\ pc[c] \in {"free", "unlease", "ended"} => outcome[c] = "host_error"
  /\ heap[c] = "allocated" => pc[c] \in {"returned", "free"}

JavaOwn == Java!OwnException /\ Java!FramesPopped /\ pending \cup frames \subseteq Calls
JavaIInv == JavaTypes /\ JavaCaughtInv /\ JavaOwn

\* The invariant holds before the first call.
LEMMA JavaInitInv == Java!Init => JavaIInv
  BY DEF Java!Init, Java!CallInit, Java!JniInit, JavaIInv, JavaTypes, JavaCaughtInv, JavaOwn,
         Java!OwnException, Java!FramesPopped, JavaBefore, Java!Outcomes

\* Between its entry and the answer of Java, a call keeps the invariant.
LEMMA JavaNativeSteps ==
  ASSUME JavaIInv, NEW c \in Calls,
         \/ Java!Begin(c) \/ Java!Native(c) \/ Java!PushLocalFrame(c)
         \/ Java!JniFails(c) \/ Java!CallJava(c)
         \/ Java!JavaReturns(c) \/ Java!JavaThrows(c) \/ Java!ReplyFails(c) \/ Java!ReplyRead(c)
  PROVE  JavaIInv'
<1> USE DEF JavaIInv, JavaTypes, JavaCaughtInv, JavaOwn, Java!OwnException, Java!FramesPopped,
            JavaBefore, Java!Goto, Java!Step, Java!Fail, Java!jniVars
<1>1. CASE Java!Begin(c) BY <1>1 DEF Java!Begin, Java!TakeLease
<1>2. CASE Java!PushLocalFrame(c) BY <1>2 DEF Java!PushLocalFrame
<1>3. CASE Java!JniFails(c) BY <1>3 DEF Java!JniFails
<1>4. CASE Java!CallJava(c) BY <1>4 DEF Java!CallJava
<1>5. CASE Java!JavaReturns(c) BY <1>5 DEF Java!JavaReturns
<1>6. CASE Java!JavaThrows(c) BY <1>6 DEF Java!JavaThrows
<1>7. CASE Java!ReplyFails(c) BY <1>7 DEF Java!ReplyFails
<1>8. CASE Java!ReplyRead(c) BY <1>8 DEF Java!ReplyRead
<1>9. ASSUME Java!CallNative(c), UNCHANGED Java!jniVars PROVE JavaIInv'
  BY <1>9 DEF Java!CallNative
<1>10. ASSUME NEW r \in Java!Results \ {"none"}, Java!NativeReturns(c, r), UNCHANGED Java!jniVars
       PROVE JavaIInv'
  <2> USE <1>10 DEF Java!NativeReturns
  <2>1. JavaTypes'
    OBVIOUS
  <2>2. /\ pc[c] \in {"native", "resumed"} /\ pc'[c] = "returned"
        /\ UNCHANGED <<failure, outcome>>
        /\ \A d \in Calls \ {c} : pc'[d] = pc[d] /\ heap'[d] = heap[d]
    OBVIOUS
  <2> HIDE <1>10
  <2>3. UNCHANGED <<pending, frames, caught, java_threw>>
    BY <1>10
  <2>4. JavaCaughtInv'
    BY <2>2, <2>3
  <2>5. JavaOwn'
    BY <2>2, <2>3
  <2> QED BY <2>1, <2>4, <2>5
<1> QED BY <1>1, <1>2, <1>3, <1>4, <1>5, <1>6, <1>7, <1>8, <1>9, <1>10 DEF Java!Native

\* The callback guard and the way out of a call keep the invariant.
LEMMA JavaGuardSteps ==
  ASSUME JavaIInv, NEW c \in Calls,
         \/ Java!Rethrow(c) \/ Java!Read(c) \/ Java!Free(c)
         \/ Java!ReturnPending(c) \/ Java!Raise(c) \/ Java!ReturnValue(c) \/ Java!ValueFails(c)
         \/ \E how \in {"pending", "error"} : Java!ArgumentsFail(c, how)
  PROVE  JavaIInv'
<1> USE DEF JavaIInv, JavaTypes, JavaCaughtInv, JavaOwn, Java!OwnException, Java!FramesPopped,
            JavaBefore, Java!Goto, Java!Step, Java!Outcomes, Java!jniVars
<1>1. CASE Java!Rethrow(c) BY <1>1 DEF Java!Rethrow
<1>2. ASSUME ~failure[c], NEW decodes \in BOOLEAN, Java!Decode(c, decodes), UNCHANGED Java!jniVars
      PROVE JavaIInv'
  <2>1. Java!Answer(c, decodes) \in Java!Outcomes
    BY DEF Java!Answer, Java!Decoded
  <2> QED BY <1>2, <2>1 DEF Java!Decode
<1>3. CASE Java!Free(c) BY <1>3 DEF Java!Free, Java!FreeResult
<1>4. CASE Java!ReturnPending(c) BY <1>4 DEF Java!ReturnPending, Java!ReturnLease
<1>5. CASE Java!Raise(c) BY <1>5 DEF Java!Raise, Java!Raises, Java!ReturnLease
<1>6. CASE Java!ReturnValue(c) BY <1>6 DEF Java!ReturnValue, Java!ReturnLease
<1>7. CASE Java!ValueFails(c) BY <1>7 DEF Java!ValueFails
<1>8. ASSUME NEW how \in {"pending", "error"}, Java!ArgumentsFail(c, how) PROVE JavaIInv'
  BY <1>8 DEF Java!ArgumentsFail, Java!EncodingFails
<1> QED BY <1>1, <1>2, <1>3, <1>4, <1>5, <1>6, <1>7, <1>8 DEF Java!Read

\* Every step keeps the invariant.
LEMMA JavaNextInv == JavaIInv /\ [Java!Next]_(Java!vars) => JavaIInv'
<1> SUFFICES ASSUME JavaIInv, [Java!Next]_(Java!vars) PROVE JavaIInv'
  OBVIOUS
<1> USE DEF JavaIInv, JavaTypes, JavaCaughtInv, JavaOwn, Java!OwnException, Java!FramesPopped,
            JavaBefore
<1>1. ASSUME NEW c \in Calls, NEW p \in Calls \cup {None}, Java!Invoke(c, p)
      PROVE  JavaIInv'
  BY <1>1 DEF Java!Invoke, Java!Enter, Java!Goto, Java!jniVars
<1>2. CASE UNCHANGED Java!vars
  BY <1>2 DEF Java!vars, Java!callVars, Java!jniVars
<1>3. ASSUME NEW c \in Calls, Java!Continue(c)
      PROVE  JavaIInv'
  BY <1>3, JavaNativeSteps, JavaGuardSteps DEF Java!Continue
<1> QED BY <1>1, <1>2, <1>3 DEF Java!Next, Java!AllEnded

\* The invariant is as strong as the properties.
LEMMA JavaSafe ==
  JavaIInv =>
  Java!OwnException /\ Java!FramesPopped /\ Java!NoCallWhilePending /\ Java!ResultFreed
  BY DEF JavaIInv, JavaCaughtInv, JavaOwn, JavaBefore, Java!OwnException, Java!FramesPopped,
         Java!NoCallWhilePending, Java!CallsJni, Java!ResultFreed

-------------------------------------------------------------------------------
\* The local references of Java's JNI code

\* Nat is well founded, so it can be inducted over: a set that is closed under
\* successor and contains 0 contains every natural number.
Less == {pair \in Nat \X Nat : pair[1] < pair[2]}

\* A nonempty set of numbers has a least one: the library's theorem about the
\* order of Nat, applied to a set.
LEMMA LeastNumber ==
  ASSUME NEW T, T \subseteq Nat, T # {}
  PROVE  \E x \in T : \A y \in T : x =< y
<1>1. OpToRel(<, Nat) = Less
  BY DEF OpToRel, Less
<1>2. IsWellFoundedOn(Less, Nat)
  BY <1>1, NatLessThanWellFounded
<1>3. PICK x \in T : \A y \in T : ~(<<y, x>> \in Less)
  BY <1>2, WFMin, Zenon
<1>4. ASSUME NEW y \in T PROVE x =< y
  <2>1. ~(<<y, x>> \in Less)
    BY <1>3
  <2>2. ~(y < x)
    BY <2>1 DEF Less
  <2> QED BY <2>2
<1> QED BY <1>4

\* Induction over the numbers, for the set of those that have a property.
LEMMA SetInduction ==
  ASSUME NEW S, 0 \in S, \A n \in Nat : n \in S => n + 1 \in S
  PROVE  Nat \subseteq S
<1> SUFFICES ASSUME NEW m \in Nat, m \notin S PROVE FALSE
  OBVIOUS
<1> DEFINE T == {n \in Nat : n \notin S}
<1>1. PICK x \in T : \A y \in T : x =< y
  BY LeastNumber, m \in T
<1>2. x # 0 /\ x - 1 \in Nat /\ x - 1 \notin T
  BY <1>1
<1> QED BY <1>1, <1>2

\* A piece of code that starts with "from" references and ends with "to" never holds
\* more than "room" on the way: "held" is how many it holds after each of its calls.
Fits(piece, from, to, room) ==
  piece \in Seq(Int) /\ \E held \in [0 .. Len(piece) -> 0 .. room] :
    /\ held[0] = from /\ held[Len(piece)] = to
    /\ \A i \in 1 .. Len(piece) : held[i] = held[i - 1] + piece[i]

\* No code, no references.
LEMMA EmptyFits ==
  ASSUME NEW room \in Nat, NEW from \in 0 .. room, NEW piece \in Seq(Int), Len(piece) = 0
  PROVE  Fits(piece, from, from, room)
<1> DEFINE held == [i \in 0 .. 0 |-> from]
<1>1. held \in [0 .. 0 -> 0 .. room] /\ held[0] = from
  OBVIOUS
<1>2. 1 .. 0 = {}
  OBVIOUS
<1> HIDE DEF held
<1> QED BY <1>1, <1>2 DEF Fits

\* One piece after the other.
LEMMA ConcatFits ==
  ASSUME NEW room \in Nat, NEW from, NEW middle, NEW to, NEW s, NEW t,
         Fits(s, from, middle, room), Fits(t, middle, to, room)
  PROVE  Fits(s \o t, from, to, room)
<1>0. s \in Seq(Int) /\ t \in Seq(Int)
  BY DEF Fits
<1>1. PICK f \in [0 .. Len(s) -> 0 .. room] :
        /\ f[0] = from /\ f[Len(s)] = middle
        /\ \A i \in 1 .. Len(s) : f[i] = f[i - 1] + s[i]
  BY DEF Fits
<1>2. PICK g \in [0 .. Len(t) -> 0 .. room] :
        /\ g[0] = middle /\ g[Len(t)] = to
        /\ \A i \in 1 .. Len(t) : g[i] = g[i - 1] + t[i]
  BY DEF Fits
<1> DEFINE m == Len(s)
           n == Len(t)
           h == [i \in 0 .. m + n |-> IF i =< m THEN f[i] ELSE g[i - m]]
<1>3. m \in Nat /\ n \in Nat /\ Len(s \o t) = m + n /\ s \o t \in Seq(Int)
  BY <1>0
<1>4. /\ \A i \in 1 .. m : (s \o t)[i] = s[i]
      /\ \A i \in m + 1 .. m + n : (s \o t)[i] = t[i - m]
  BY <1>0, ConcatProperties
<1>5. ASSUME NEW i \in 0 .. m + n PROVE h[i] \in 0 .. room
  <2>1. CASE i =< m
    BY <1>1, <1>3, <2>1
  <2>2. CASE ~(i =< m)
    <3>1. i - m \in 0 .. n
      BY <1>3, <2>2
    <3> QED BY <1>2, <1>3, <2>2, <3>1
  <2> QED BY <2>1, <2>2
<1>6. h \in [0 .. m + n -> 0 .. room]
  BY <1>5
<1>7. h[0] = from /\ h[m + n] = to
  <2>1. h[0] = f[0]
    BY <1>3
  <2>2. CASE n = 0
    BY <1>1, <1>2, <1>3, <2>1, <2>2
  <2>3. CASE n # 0
    <3>1. h[m + n] = g[(m + n) - m] /\ (m + n) - m = n
      BY <1>3, <2>3
    <3> QED BY <1>1, <1>2, <2>1, <3>1
  <2> QED BY <2>2, <2>3
<1>8. ASSUME NEW i \in 1 .. m + n PROVE h[i] = h[i - 1] + (s \o t)[i]
  <2>1. CASE i =< m
    BY <1>1, <1>3, <1>4, <2>1
  <2>2. CASE i = m + 1
    <3>1. h[i] = g[1] /\ h[i - 1] = f[m] /\ n >= 1 /\ (s \o t)[i] = t[1]
      BY <1>3, <1>4, <2>2
    <3>2. g[1] = g[0] + t[1]
      BY <1>2, <1>3, <3>1
    <3> QED BY <1>1, <1>2, <3>1, <3>2
  <2>3. CASE i > m + 1
    <3>1. i \in m + 1 .. m + n /\ i - 1 \in 0 .. m + n /\ i - m \in 1 .. n
          /\ (i - 1) - m = (i - m) - 1
      BY <1>3, <2>3
    <3>2. h[i] = g[i - m] /\ h[i - 1] = g[(i - 1) - m]
      BY <1>3, <2>3, <3>1
    <3>3. (s \o t)[i] = t[i - m]
      BY <1>4, <3>1
    <3> QED BY <1>2, <3>1, <3>2, <3>3
  <2> QED BY <1>3, <2>1, <2>2, <2>3
<1> HIDE DEF h, m, n
<1> QED BY <1>3, <1>6, <1>7, <1>8 DEF Fits

\* What is left of a piece after its first call.
LEMMA TailFits ==
  ASSUME NEW room \in Nat, NEW from, NEW to, NEW s, s # <<>>, Fits(s, from, to, room)
  PROVE  Fits(Tail(s), from + Head(s), to, room)
<1>0. s \in Seq(Int)
  BY DEF Fits
<1>1. PICK f \in [0 .. Len(s) -> 0 .. room] :
        /\ f[0] = from /\ f[Len(s)] = to
        /\ \A i \in 1 .. Len(s) : f[i] = f[i - 1] + s[i]
  BY DEF Fits
<1> DEFINE n == Len(s) - 1
           h == [i \in 0 .. n |-> f[i + 1]]
<1>2. n \in Nat /\ Len(Tail(s)) = n /\ Len(s) = n + 1
      /\ (\A i \in 1 .. n : Tail(s)[i] = s[i + 1]) /\ Head(s) = s[1] /\ Tail(s) \in Seq(Int)
  BY <1>0
<1>3. h \in [0 .. n -> 0 .. room]
  BY <1>1, <1>2
<1>4. h[0] = from + Head(s) /\ h[n] = to
  BY <1>1, <1>2
<1>5. \A i \in 1 .. n : h[i] = h[i - 1] + Tail(s)[i]
  BY <1>1, <1>2
<1> HIDE DEF h, n
<1> QED BY <1>2, <1>3, <1>4, <1>5 DEF Fits

\* It starts and ends within the room.
LEMMA FitsBounds ==
  ASSUME NEW room \in Nat, NEW from, NEW to, NEW s, Fits(s, from, to, room)
  PROVE  from \in 0 .. room /\ to \in 0 .. room
  BY DEF Fits

\* FlattenSeq puts one piece after the other.
LEMMA FlattenFits ==
  ASSUME NEW room \in Nat, NEW n \in Nat, NEW seqs \in [1 .. n -> Seq(Int)],
         NEW at \in [0 .. n -> 0 .. room],
         \A i \in 1 .. n : Fits(seqs[i], at[i - 1], at[i], room)
  PROVE  Fits(Jni!FlattenSeq(seqs), at[0], at[n], room)
<1>1. seqs \in Seq(Seq(Int)) /\ Len(seqs) = n
  OBVIOUS
<1>2. CASE n = 0
  <2>1. Jni!FlattenSeq(seqs) = seqs /\ seqs \in Seq(Int)
    BY <1>1, <1>2 DEF Jni!FlattenSeq
  <2>2. at[0] \in 0 .. room /\ at[n] = at[0] /\ Len(seqs) = 0
    BY <1>1, <1>2
  <2>3. Fits(seqs, at[0], at[0], room)
    BY <2>1, <2>2, EmptyFits
  <2> QED BY <2>1, <2>2, <2>3
<1>3. CASE n # 0
  <2> DEFINE Flat(f, m) == f = [i \in 1 .. m |-> IF i = 1 THEN seqs[i] ELSE f[i - 1] \o seqs[i]]
             S == {m \in Nat : \E f : Flat(f, m)}
  <2>1. 0 \in S
    <3>1. Flat(<<>>, 0)
      OBVIOUS
    <3> QED BY <3>1
  <2>2. ASSUME NEW m \in Nat, m \in S PROVE m + 1 \in S
    <3>1. PICK f : Flat(f, m)
      BY <2>2
    <3> DEFINE g == [i \in 1 .. m + 1 |-> IF i = 1 THEN seqs[i]
                                          ELSE IF i = m + 1 THEN f[m] \o seqs[i] ELSE f[i]]
    <3>2. \A i \in 1 .. m : g[i] = f[i]
      BY <3>1
    <3>3. ASSUME NEW i \in 1 .. m + 1
          PROVE  g[i] = IF i = 1 THEN seqs[i] ELSE g[i - 1] \o seqs[i]
      <4>1. CASE i = 1
        BY <4>1
      <4>2. CASE i # 1 /\ i = m + 1
        <5>1. m \in 1 .. m /\ i - 1 = m
          BY <4>2
        <5>2. g[i - 1] = f[m]
          BY <3>2, <5>1
        <5>3. g[i] = f[m] \o seqs[i]
          BY <4>2
        <5> QED BY <4>2, <5>2, <5>3
      <4>3. CASE i # 1 /\ i # m + 1
        <5>1. i \in 1 .. m /\ i - 1 \in 1 .. m
          BY <4>3
        <5>2. g[i] = f[i] /\ g[i - 1] = f[i - 1]
          BY <3>2, <5>1
        <5>3. f[i] = IF i = 1 THEN seqs[i] ELSE f[i - 1] \o seqs[i]
          BY <3>1, <5>1
        <5> HIDE DEF g
        <5> QED BY <5>2, <5>3
      <4> QED BY <4>1, <4>2, <4>3
    <3>4. Flat(g, m + 1)
      BY <3>3
    <3> HIDE DEF Flat, g
    <3> QED BY <3>4
  <2>3. n \in S
    <3> HIDE DEF S
    <3> QED BY <2>1, <2>2, SetInduction
  <2> DEFINE flatten == CHOOSE f : Flat(f, n)
  <2>4. Flat(flatten, n)
    <3> HIDE DEF Flat
    <3> QED BY <2>3
  <2>5. Jni!FlattenSeq(seqs) = flatten[n]
    BY <1>1, <1>3 DEF Jni!FlattenSeq
  <2> HIDE DEF flatten
  <2> DEFINE T == {m \in Nat : m + 1 \in 1 .. n =>
                       Fits(flatten[m + 1], at[0], at[m + 1], room)}
  <2>6. 0 \in T
    BY <1>3, <2>4
  <2>7. ASSUME NEW m \in Nat, m \in T PROVE m + 1 \in T
    <3> SUFFICES ASSUME m + 2 \in 1 .. n
                 PROVE  Fits(flatten[m + 2], at[0], at[m + 2], room)
      <4>1. (m + 1) + 1 = m + 2
        OBVIOUS
      <4> QED BY <4>1
    <3>0. m + 1 \in 1 .. n /\ (m + 2) - 1 = m + 1 /\ m + 2 # 1
      OBVIOUS
    <3>1. flatten[m + 2] = flatten[m + 1] \o seqs[m + 2]
      BY <2>4, <3>0
    <3>2. Fits(flatten[m + 1], at[0], at[m + 1], room)
      BY <2>7, <3>0
    <3>3. Fits(seqs[m + 2], at[m + 1], at[m + 2], room)
      BY <3>0
    <3> QED BY <3>1, <3>2, <3>3, ConcatFits
  <2>8. n - 1 \in T
    <3>1. Nat \subseteq T
      <4> HIDE DEF T
      <4> QED BY <2>6, <2>7, SetInduction
    <3> HIDE DEF T
    <3> QED BY <1>3, <3>1
  <2> QED BY <1>3, <2>5, <2>8
<1> QED BY <1>2, <1>3

\* A piece that deletes what it creates may be repeated.
LEMMA TimesFits ==
  ASSUME NEW room \in Nat, NEW n \in Nat, NEW piece \in Seq(Int),
         NEW at \in [0 .. n -> 0 .. room],
         \A i \in 1 .. n : Fits(piece, at[i - 1], at[i], room)
  PROVE  Fits(Jni!Times(n, piece), at[0], at[n], room)
<1> DEFINE seqs == [i \in 1 .. n |-> piece]
<1>1. seqs \in [1 .. n -> Seq(Int)] /\ \A i \in 1 .. n : Fits(seqs[i], at[i - 1], at[i], room)
  OBVIOUS
<1>2. Jni!Times(n, piece) = Jni!FlattenSeq(seqs)
  BY DEF Jni!Times
<1> HIDE DEF seqs
<1> QED BY <1>1, <1>2, FlattenFits

\* A call that returns one reference.
LEMMA OneFits ==
  ASSUME NEW room \in Nat, NEW from \in 0 .. room, NEW d \in Int, from + d \in 0 .. room
  PROVE  Fits(<<d>>, from, from + d, room)
<1> DEFINE held == [i \in 0 .. 1 |-> IF i = 0 THEN from ELSE from + d]
<1>1. held \in [0 .. 1 -> 0 .. room] /\ held[0] = from /\ held[1] = from + d
  OBVIOUS
<1>2. Len(<<d>>) = 1 /\ <<d>>[1] = d /\ <<d>> \in Seq(Int)
  OBVIOUS
<1>3. \A i \in 1 .. 1 : i = 1 /\ i - 1 = 0
  OBVIOUS
<1> HIDE DEF held
<1> QED BY <1>1, <1>2, <1>3 DEF Fits

\* Text holds three on the way and leaves one.
LEMMA TextFits ==
  ASSUME NEW room \in Nat, NEW from \in Nat, from + 3 =< room
  PROVE  Fits(Jni!Text, from, from + 1, room)
<1> DEFINE held == [i \in 0 .. 5 |-> IF i \in {0} THEN from ELSE IF i \in {1, 5} THEN from + 1
                                    ELSE IF i \in {2, 4} THEN from + 2 ELSE from + 3]
<1>1. held \in [0 .. 5 -> 0 .. room] /\ held[0] = from /\ held[5] = from + 1
  OBVIOUS
<1>2. Len(Jni!Text) = 5 /\ Jni!Text \in Seq(Int)
  BY DEF Jni!Text
<1>3. \A i \in 1 .. 5 : held[i] = held[i - 1] + Jni!Text[i]
  BY DEF Jni!Text
<1> HIDE DEF held
<1> QED BY <1>1, <1>2, <1>3 DEF Fits

\* Utf8 holds two on the way and leaves none.
LEMMA Utf8Fits ==
  ASSUME NEW room \in Nat, NEW from \in Nat, from + 2 =< room
  PROVE  Fits(Jni!Utf8, from, from, room)
<1> DEFINE held == [i \in 0 .. 4 |-> IF i \in {0, 4} THEN from ELSE IF i \in {1, 3} THEN from + 1
                                    ELSE from + 2]
<1>1. held \in [0 .. 4 -> 0 .. room] /\ held[0] = from /\ held[4] = from
  OBVIOUS
<1>2. Len(Jni!Utf8) = 4 /\ Jni!Utf8 \in Seq(Int)
  BY DEF Jni!Utf8
<1>3. \A i \in 1 .. 4 : held[i] = held[i - 1] + Jni!Utf8[i]
  BY DEF Jni!Utf8
<1> HIDE DEF held
<1> QED BY <1>1, <1>2, <1>3 DEF Fits

\* Three calls that return a reference each.
LEMMA ThreeFit ==
  ASSUME NEW room \in Nat, NEW from \in Nat, from + 3 =< room
  PROVE  Fits(<<1, 1, 1>>, from, from + 3, room)
<1> DEFINE held == [i \in 0 .. 3 |-> from + i]
<1>1. held \in [0 .. 3 -> 0 .. room] /\ held[0] = from /\ held[3] = from + 3
  OBVIOUS
<1>2. Len(<<1, 1, 1>>) = 3 /\ <<1, 1, 1>> \in Seq(Int)
  OBVIOUS
<1>3. \A i \in 1 .. 3 : held[i] = held[i - 1] + <<1, 1, 1>>[i]
  OBVIOUS
<1> HIDE DEF held
<1> QED BY <1>1, <1>2, <1>3 DEF Fits

\* Texts that are all kept.
LEMMA TextsFit ==
  ASSUME NEW room \in Nat, NEW from \in Nat, NEW n \in Nat, from + n + 2 =< room
  PROVE  Fits(Jni!Times(n, Jni!Text), from, from + n, room)
<1> DEFINE at == [i \in 0 .. n |-> from + i]
<1>1. at \in [0 .. n -> 0 .. room] /\ at[0] = from /\ at[n] = from + n
  OBVIOUS
<1>2. ASSUME NEW i \in 1 .. n PROVE Fits(Jni!Text, at[i - 1], at[i], room)
  <2>1. at[i - 1] = from + i - 1 /\ at[i] = (from + i - 1) + 1
        /\ from + i - 1 \in Nat /\ (from + i - 1) + 3 =< room
    OBVIOUS
  <2> HIDE DEF at
  <2> QED BY <2>1, TextFits
<1>3. Jni!Text \in Seq(Int)
  BY DEF Jni!Text
<1> HIDE DEF at
<1> QED BY <1>1, <1>2, <1>3, TimesFits

\* References let go of one by one.
LEMMA ReleasesFit ==
  ASSUME NEW room \in Nat, NEW n \in Nat, NEW to \in Nat, to + n =< room
  PROVE  Fits(Jni!Times(n, <<-1>>), to + n, to, room)
<1> DEFINE at == [i \in 0 .. n |-> to + (n - i)]
<1>1. at \in [0 .. n -> 0 .. room] /\ at[0] = to + n /\ at[n] = to
  OBVIOUS
<1>2. ASSUME NEW i \in 1 .. n PROVE Fits(<<-1>>, at[i - 1], at[i], room)
  <2>1. at[i - 1] \in 0 .. room /\ at[i] \in 0 .. room /\ at[i] = at[i - 1] + (-1) /\ -1 \in Int
    OBVIOUS
  <2> HIDE DEF at
  <2> QED BY <2>1, OneFits
<1>3. <<-1>> \in Seq(Int)
  OBVIOUS
<1> HIDE DEF at
<1> QED BY <1>1, <1>2, <1>3, TimesFits

\* The record of a part of the event holds its class, its members and itself;
\* only the last stays.
LEMMA RecordFits ==
  ASSUME NEW room \in Nat, NEW from \in Nat, NEW n \in Nat, from + n + 3 =< room
  PROVE  Fits(Jni!Record(n), from, from + 1, room)
<1>1. Fits(<<1>>, from, from + 1, room)
  BY OneFits
<1>2. Fits(Jni!Times(n, Jni!Text), from + 1, (from + 1) + n, room)
  BY TextsFit
<1>3. Fits(<<1>>, (from + 1) + n, ((from + 1) + n) + 1, room)
  BY OneFits
<1>4. ((from + 1) + n) + 1 = (from + 2) + n
  OBVIOUS
<1>5. Fits(Jni!Times(n, <<-1>>), (from + 2) + n, from + 2, room)
  BY ReleasesFit
<1>6. Fits(<<-1>>, from + 2, (from + 2) + (-1), room)
  BY OneFits
<1>7. (from + 2) + (-1) = from + 1
  OBVIOUS
<1>8. Fits(<<1>> \o Jni!Times(n, Jni!Text), from, (from + 1) + n, room)
  BY <1>1, <1>2, ConcatFits
<1>9. Fits(<<1>> \o Jni!Times(n, Jni!Text) \o <<1>>, from, (from + 2) + n, room)
  BY <1>8, <1>3, <1>4, ConcatFits
<1>10. Fits(<<1>> \o Jni!Times(n, Jni!Text) \o <<1>> \o Jni!Times(n, <<-1>>),
            from, from + 2, room)
  BY <1>9, <1>5, ConcatFits
<1> QED BY <1>10, <1>6, <1>7, ConcatFits DEF Jni!Record

\* The key and the value of a header are let go of before the next one.
LEMMA HeaderFits ==
  ASSUME NEW room \in Nat, NEW from \in Nat, from + 3 =< room
  PROVE  Fits(Jni!Header, from, from, room)
<1>1. Fits(Jni!Text \o <<-1>>, from, from, room)
  <2>1. Fits(<<-1>>, from + 1, (from + 1) + (-1), room)
    BY OneFits
  <2>2. (from + 1) + (-1) = from
    OBVIOUS
  <2> QED BY <2>1, <2>2, TextFits, ConcatFits
<1> DEFINE at == [i \in 0 .. 2 |-> from]
<1>2. at \in [0 .. 2 -> 0 .. room] /\ at[0] = from /\ at[2] = from
      /\ \A i \in 1 .. 2 : at[i - 1] = from /\ at[i] = from
  OBVIOUS
<1>3. Jni!Text \o <<-1>> \in Seq(Int)
  BY <1>1 DEF Fits
<1> HIDE DEF at
<1> QED BY <1>1, <1>2, <1>3, TimesFits DEF Jni!Header

\* A request fits the 32 of its frame, whatever the number of its headers.
LEMMA SendFits ==
  ASSUME NEW headers \in Nat
  PROVE  Fits(Jni!Send(headers), 0, 9, 32)
<1>1. Fits(<<1, 1, 1>>, 0, 3, 32)
  BY ThreeFit
<1>2. Fits(Jni!Times(headers, Jni!Header), 3, 3, 32)
  <2> DEFINE at == [i \in 0 .. headers |-> 3]
  <2>1. at \in [0 .. headers -> 0 .. 32] /\ at[0] = 3 /\ at[headers] = 3
        /\ \A i \in 1 .. headers : at[i - 1] = 3 /\ at[i] = 3
    OBVIOUS
  <2>2. Fits(Jni!Header, 3, 3, 32)
    BY HeaderFits
  <2>3. Jni!Header \in Seq(Int)
    BY <2>2 DEF Fits
  <2> HIDE DEF at
  <2> QED BY <2>1, <2>2, <2>3, TimesFits
<1>3. Fits(Jni!Text, 3, 4, 32) /\ Fits(Jni!Text, 4, 5, 32)
  BY TextFits
<1>4. Fits(Jni!ToBytes, 5, 6, 32)
  BY OneFits DEF Jni!ToBytes
<1>5. Fits(<<1, 1, 1>>, 6, 9, 32)
  BY ThreeFit
<1>6. Fits(<<1, 1, 1>> \o Jni!Times(headers, Jni!Header), 0, 3, 32)
  BY <1>1, <1>2, ConcatFits
<1>7. Fits(<<1, 1, 1>> \o Jni!Times(headers, Jni!Header) \o Jni!Text, 0, 4, 32)
  BY <1>6, <1>3, ConcatFits
<1>8. Fits(<<1, 1, 1>> \o Jni!Times(headers, Jni!Header) \o Jni!Text \o Jni!Text, 0, 5, 32)
  BY <1>7, <1>3, ConcatFits
<1>9. Fits(<<1, 1, 1>> \o Jni!Times(headers, Jni!Header) \o Jni!Text \o Jni!Text \o Jni!ToBytes,
           0, 6, 32)
  BY <1>8, <1>4, ConcatFits
<1> QED BY <1>9, <1>5, ConcatFits DEF Jni!Send

\* The key provider fits the 16 of its frame.
LEMMA KeyProviderFits == Fits(Jni!KeyProvider, 0, 3, 16)
<1>1. Fits(<<1>>, 0, 1, 16) /\ Fits(<<1>>, 2, 3, 16)
  BY OneFits
<1>2. Fits(Jni!Text, 1, 2, 16)
  BY TextFits
<1>3. Fits(Jni!Utf8, 3, 3, 16)
  BY Utf8Fits
<1>4. Fits(<<1>> \o Jni!Text, 0, 2, 16)
  BY <1>1, <1>2, ConcatFits
<1>5. Fits(<<1>> \o Jni!Text \o <<1>>, 0, 3, 16)
  BY <1>1, <1>4, ConcatFits
<1> QED BY <1>3, <1>5, ConcatFits DEF Jni!KeyProvider

\* Guard raises from any state that leaves it five.
LEMMA RaiseFits ==
  ASSUME NEW room \in Nat, NEW from \in Nat, from + 5 =< room
  PROVE  Fits(Jni!Raise, from, from + 4, room)
<1>1. Fits(<<1>>, from, from + 1, room) /\ Fits(<<1>>, from + 3, (from + 3) + 1, room)
  BY OneFits
<1>2. Fits(Jni!Text, from + 1, (from + 1) + 1, room)
      /\ Fits(Jni!Text, from + 2, (from + 2) + 1, room)
  BY TextFits
<1>3. (from + 1) + 1 = from + 2 /\ (from + 2) + 1 = from + 3 /\ (from + 3) + 1 = from + 4
  OBVIOUS
<1>4. Fits(<<1>> \o Jni!Text, from, from + 2, room)
  BY <1>1, <1>2, <1>3, ConcatFits
<1>5. Fits(<<1>> \o Jni!Text \o Jni!Text, from, from + 3, room)
  BY <1>4, <1>2, <1>3, ConcatFits
<1> QED BY <1>5, <1>1, <1>3, ConcatFits DEF Jni!Raise

\* The event fits the 64 of receive, whichever parts it has, with room for Guard.
LEMMA EventFits ==
  ASSUME NEW parts \in SUBSET DOMAIN Jni!Members
  PROVE  \E to : Fits(Jni!Event(parts), 0, to, 59)
<1> DEFINE seqs == [i \in 1 .. 5 |-> IF i \in parts THEN Jni!Record(Jni!Members[i]) ELSE <<>>]
           Has(i, k) == IF k \in parts /\ k =< i THEN 1 ELSE 0
           at == [i \in 0 .. 5 |-> 4 + Has(i, 1) + Has(i, 2) + Has(i, 3) + Has(i, 4) + Has(i, 5)]
<1>1. at \in [0 .. 5 -> 0 .. 59] /\ at[0] = 4 /\ at[5] =< 9
  OBVIOUS
<1>2. ASSUME NEW i \in 1 .. 5
      PROVE  at[i - 1] \in 0 .. 9 /\ at[i] = at[i - 1] + (IF i \in parts THEN 1 ELSE 0)
  OBVIOUS
<1>3. DOMAIN Jni!Members = 1 .. 5 /\ \A i \in 1 .. 5 : Jni!Members[i] \in 2 .. 4
  BY DEF Jni!Members
<1> HIDE DEF at
<1>4. ASSUME NEW i \in 1 .. 5
      PROVE  Fits(seqs[i], at[i - 1], at[i], 59)
  <2>1. CASE i \in parts
    <3>1. at[i - 1] \in Nat /\ at[i] = at[i - 1] + 1 /\ Jni!Members[i] \in Nat
          /\ at[i - 1] + Jni!Members[i] + 3 =< 59
      BY <1>2, <1>3, <2>1
    <3> QED BY <2>1, <3>1, RecordFits
  <2>2. CASE i \notin parts
    <3>1. at[i - 1] \in 0 .. 59 /\ at[i] = at[i - 1]
      BY <1>2, <2>2
    <3>2. <<>> \in Seq(Int) /\ Len(<<>>) = 0
      OBVIOUS
    <3> QED BY <2>2, <3>1, <3>2, EmptyFits
  <2> QED BY <2>1, <2>2
<1>5. seqs \in [1 .. 5 -> Seq(Int)]
  <2>1. \A i \in 1 .. 5 : seqs[i] \in Seq(Int)
    BY <1>4 DEF Fits
  <2> QED BY <2>1
<1> DEFINE middle == Jni!FlattenSeq([i \in DOMAIN Jni!Members |->
                         IF i \in parts THEN Jni!Record(Jni!Members[i]) ELSE <<>>])
<1>6. middle = Jni!FlattenSeq(seqs)
  BY <1>3
<1> HIDE DEF seqs, middle
<1>7. Fits(middle, 4, at[5], 59)
  BY <1>1, <1>4, <1>5, <1>6, FlattenFits
<1>8. Fits(<<1>>, 0, 1, 59) /\ Fits(<<1>>, at[5], at[5] + 1, 59)
  <2>1. at[5] \in 0 .. 59 /\ at[5] + 1 \in 0 .. 59
    BY <1>1
  <2>2. ASSUME NEW from \in 0 .. 59, from + 1 \in 0 .. 59
        PROVE  Fits(<<1>>, from, from + 1, 59)
    BY <2>2, OneFits
  <2>3. 0 \in 0 .. 59 /\ 0 + 1 = 1 /\ 0 + 1 \in 0 .. 59
    OBVIOUS
  <2>4. Fits(<<1>>, 0, 0 + 1, 59)
    BY <2>2, <2>3
  <2>5. Fits(<<1>>, at[5], at[5] + 1, 59)
    BY <2>1, <2>2
  <2> QED BY <2>3, <2>4, <2>5
<1>9. Fits(Jni!Times(3, Jni!Text), 1, 4, 59)
  BY TextsFit
<1>10. Fits(<<1>> \o Jni!Times(3, Jni!Text), 0, 4, 59)
  BY <1>8, <1>9, ConcatFits
<1>11. Fits(<<1>> \o Jni!Times(3, Jni!Text) \o middle, 0, at[5], 59)
  BY <1>7, <1>10, ConcatFits
<1>12. Fits(<<1>> \o Jni!Times(3, Jni!Text) \o middle \o <<1>>, 0, at[5] + 1, 59)
  BY <1>8, <1>11, ConcatFits
<1>13. Jni!Event(parts) = <<1>> \o Jni!Times(3, Jni!Text) \o middle \o <<1>>
  BY DEF Jni!Event, middle
<1> QED BY <1>12, <1>13

\* A frame of local references.
JniFrame == [held : Nat, capacity : {16, 32, 64}]

\* A frame in the place of another.
LEMMA JniPut ==
  ASSUME NEW stack \in Seq(JniFrame), NEW i \in 1 .. Len(stack), NEW frame \in JniFrame,
         NEW next, next = [stack EXCEPT ![i] = frame]
  PROVE  /\ next \in Seq(JniFrame) /\ Len(next) = Len(stack) /\ next[i] = frame
         /\ \A j \in 1 .. Len(stack) : j # i => next[j] = stack[j]
  BY ExceptSeq

\* A frame is its two fields.
LEMMA JniFrameType ==
  ASSUME NEW frame \in JniFrame
  PROVE  frame.held \in Nat /\ frame.capacity \in {16, 32, 64} /\ frame.capacity \in Nat
  BY DEF JniFrame

\* What a frame holds and may hold.
LEMMA JniFrameFields ==
  ASSUME NEW frame \in JniFrame, NEW n \in Nat
  PROVE  /\ frame.held \in Nat /\ frame.capacity \in {16, 32, 64}
         /\ [frame EXCEPT !.held = n] \in JniFrame
         /\ [frame EXCEPT !.held = n].held = n
         /\ [frame EXCEPT !.held = n].capacity = frame.capacity
  BY DEF JniFrame

\* The code that runs leaves Guard the five references it raises with.
JniRoom(capacity, m) == IF m = "raising" THEN capacity ELSE capacity - 5

\* The method runs, or a callback in a frame of its own.
JniOuter == /\ Len(references) = 1
            /\ \E to : Fits(code, references[1].held, to, JniRoom(references[1].capacity, method))
JniInner == /\ Len(references) = 2 /\ method # "raising"
            /\ references[1].held = 0
            /\ \E to : Fits(code, references[2].held, to, references[2].capacity)

JniIInv == /\ method \in {"call", "receive", "raising"}
           /\ references \in Seq(JniFrame)
           /\ references[1].capacity \in {16, 64}
           /\ method = "call" => references[1].capacity = 16
           /\ method = "receive" => references[1].capacity = 64
           /\ JniOuter \/ JniInner

\* There are one or two frames.
LEMMA JniTheFrames ==
  ASSUME JniIInv
  PROVE  /\ references \in Seq(JniFrame) /\ Len(references) \in {1, 2}
         /\ \A i \in 1 .. Len(references) : references[i] \in JniFrame
<1>1. references \in Seq(JniFrame) /\ Len(references) \in {1, 2}
  BY DEF JniIInv, JniOuter, JniInner
<1> QED BY <1>1, ElementOfSeq

\* The invariant holds when the native method is entered.
LEMMA JniInitInv == Jni!Init => JniIInv
<1> SUFFICES ASSUME Jni!Init PROVE JniIInv
  OBVIOUS
<1>1. <<>> \in Seq(Int) /\ Len(<<>>) = 0
  OBVIOUS
<1>2. ASSUME NEW room \in Nat PROVE Fits(<<>>, 0, 0, room)
  <2>1. 0 \in 0 .. room
    OBVIOUS
  <2> QED BY <1>1, <2>1, EmptyFits
<1>3. PICK frame \in JniFrame : /\ references = <<frame>> /\ frame.held = 0
                                 /\ frame.capacity = (IF method = "receive" THEN 64 ELSE 16)
  BY DEF Jni!Init, Jni!Guaranteed, JniFrame
<1>4. references \in Seq(JniFrame) /\ Len(references) = 1 /\ references[1] = frame
  BY <1>3
<1>5. JniRoom(frame.capacity, method) \in Nat
  BY <1>3 DEF Jni!Init, JniRoom
<1>6. JniOuter
  BY <1>2, <1>3, <1>4, <1>5 DEF Jni!Init, JniOuter
<1> QED BY <1>3, <1>4, <1>6 DEF Jni!Init, JniIInv

\* What fits from here on fits now.
LEMMA JniSafe == JniIInv => Jni!ReferencesFit
<1> SUFFICES ASSUME JniIInv PROVE Jni!ReferencesFit
  OBVIOUS
<1>1. CASE JniOuter
  <2>1. PICK to : Fits(code, references[1].held, to, JniRoom(references[1].capacity, method))
    BY <1>1 DEF JniOuter
  <2>2. JniRoom(references[1].capacity, method) \in Nat
        /\ JniRoom(references[1].capacity, method) =< references[1].capacity
    BY DEF JniIInv, JniRoom
  <2>3. references[1].held \in 0 .. JniRoom(references[1].capacity, method)
    BY <2>1, <2>2, FitsBounds
  <2> QED BY <1>1, <2>2, <2>3 DEF JniIInv, JniOuter, Jni!ReferencesFit
<1>2. CASE JniInner
  <2>1. PICK to : Fits(code, references[2].held, to, references[2].capacity)
    BY <1>2 DEF JniInner
  <2>2. references[2].capacity \in Nat
    <3>1. references[2] \in JniFrame
      BY <1>2, JniTheFrames DEF JniInner
    <3> QED BY <3>1, JniFrameType
  <2>3. references[2].held \in 0 .. references[2].capacity
    BY <2>1, <2>2, FitsBounds
  <2> QED BY <1>2, <2>3 DEF JniIInv, JniInner, Jni!ReferencesFit
<1> QED BY <1>1, <1>2 DEF JniIInv

\* Every step keeps the invariant: what is left of the code fits the room that is
\* left.
LEMMA JniNextInv == MaxHeaders \in Nat /\ JniIInv /\ [Jni!Next]_(Jni!vars) => JniIInv'
<1> SUFFICES ASSUME MaxHeaders \in Nat, JniIInv, [Jni!Next]_(Jni!vars) PROVE JniIInv'
  OBVIOUS
<1>e. ASSUME NEW room \in Nat PROVE Fits(<<>>, 0, 0, room)
  <2>1. <<>> \in Seq(Int) /\ Len(<<>>) = 0 /\ 0 \in 0 .. room
    OBVIOUS
  <2> QED BY <2>1, EmptyFits
<1>1. CASE Jni!Step
  <2>1. CASE JniOuter
    <3>1. PICK to : Fits(code, references[1].held, to, JniRoom(references[1].capacity, method))
      BY <2>1 DEF JniOuter
    <3>2. JniRoom(references[1].capacity, method) \in Nat
      BY DEF JniIInv, JniRoom
    <3>3. Fits(Tail(code), references[1].held + Head(code), to,
               JniRoom(references[1].capacity, method))
      BY <1>1, <3>1, <3>2, TailFits DEF Jni!Step
    <3>4. references[1].held + Head(code) \in Nat
      BY <3>2, <3>3, FitsBounds
    <3>5. UNCHANGED method /\ code' = Tail(code)
      BY <1>1 DEF Jni!Step
    <3> DEFINE g == [references[1] EXCEPT !.held = references[1].held + Head(code)]
    <3>a. references \in Seq(JniFrame) /\ Len(references) = 1 /\ references[1] \in JniFrame
      BY <2>1, JniTheFrames DEF JniOuter
    <3>b. references' = [references EXCEPT ![1] = g]
      BY <1>1, <3>a DEF Jni!Step
    <3>g. g \in JniFrame /\ g.held = references[1].held + Head(code)
          /\ g.capacity = references[1].capacity
      BY <3>4, <3>a, JniFrameFields
    <3> HIDE DEF g
    <3>c. Len(references') = 1 /\ references' \in Seq(JniFrame) /\ references'[1] = g
      <4>1. 1 \in 1 .. Len(references)
        BY <3>a
      <4>2. PICK next : next = references'
        OBVIOUS
      <4>3. Len(next) = Len(references) /\ next \in Seq(JniFrame) /\ next[1] = g
        <5>1. next = [references EXCEPT ![1] = g]
          BY <3>b, <4>2
        <5>2. references \in Seq(JniFrame) /\ 1 \in 1 .. Len(references) /\ g \in JniFrame
          BY <3>a, <3>g, <4>1
        <5> QED BY <5>1, <5>2, JniPut
      <4> QED BY <3>a, <4>2, <4>3
    <3>6. /\ references'[1].held = references[1].held + Head(code)
          /\ references'[1].capacity = references[1].capacity
          /\ Len(references') = 1 /\ references' \in Seq(JniFrame)
      BY <3>c, <3>g
    <3>7. JniOuter'
      BY <3>3, <3>5, <3>6 DEF JniOuter
    <3> QED BY <3>5, <3>6, <3>7 DEF JniIInv
  <2>2. CASE JniInner
    <3>1. PICK to : Fits(code, references[2].held, to, references[2].capacity)
      BY <2>2 DEF JniInner
    <3>2. references[2].capacity \in Nat
      <4>1. references[2] \in JniFrame
        BY <2>2, JniTheFrames DEF JniInner
      <4> QED BY <4>1, JniFrameType
    <3>3. Fits(Tail(code), references[2].held + Head(code), to, references[2].capacity)
      BY <1>1, <3>1, <3>2, TailFits DEF Jni!Step
    <3>4. references[2].held + Head(code) \in Nat
      BY <3>2, <3>3, FitsBounds
    <3>5. UNCHANGED method /\ code' = Tail(code)
      BY <1>1 DEF Jni!Step
    <3> DEFINE g == [references[2] EXCEPT !.held = references[2].held + Head(code)]
    <3>a. references \in Seq(JniFrame) /\ Len(references) = 2 /\ references[2] \in JniFrame
      BY <2>2, JniTheFrames DEF JniInner
    <3>b. references' = [references EXCEPT ![2] = g]
      BY <1>1, <3>a DEF Jni!Step
    <3>g. g \in JniFrame /\ g.held = references[2].held + Head(code)
          /\ g.capacity = references[2].capacity
      BY <3>4, <3>a, JniFrameFields
    <3> HIDE DEF g
    <3>c. Len(references') = 2 /\ references' \in Seq(JniFrame) /\ references'[2] = g
          /\ references'[1] = references[1]
      <4>1. 2 \in 1 .. Len(references) /\ 1 \in 1 .. Len(references) /\ 1 # 2
        BY <3>a
      <4>2. PICK next : next = references'
        OBVIOUS
      <4>3. /\ Len(next) = Len(references) /\ next \in Seq(JniFrame) /\ next[2] = g
            /\ \A j \in 1 .. Len(references) : j # 2 => next[j] = references[j]
        <5>1. next = [references EXCEPT ![2] = g]
          BY <3>b, <4>2
        <5>2. references \in Seq(JniFrame) /\ 2 \in 1 .. Len(references) /\ g \in JniFrame
          BY <3>a, <3>g, <4>1
        <5> QED BY <5>1, <5>2, JniPut
      <4> QED BY <3>a, <4>1, <4>2, <4>3
    <3>6. /\ references'[2].held = references[2].held + Head(code)
          /\ references'[2].capacity = references[2].capacity
          /\ Len(references') = 2 /\ references' \in Seq(JniFrame)
          /\ references'[1] = references[1]
      BY <3>c, <3>g
    <3>7. JniInner'
      BY <2>2, <3>3, <3>5, <3>6 DEF JniInner
    <3> QED BY <3>5, <3>6, <3>7 DEF JniIInv
  <2> QED BY <2>1, <2>2 DEF JniIInv
<1>2. CASE Jni!PushLocalFrame
  <2>1. Len(references) = 1 /\ method \in {"call", "receive"} /\ references[1].held = 0
        /\ UNCHANGED method
    BY <1>2 DEF Jni!PushLocalFrame, JniIInv
  <2>2. PICK room \in {16, 32} :
        /\ references' = Append(references, [held |-> 0, capacity |-> room])
                                 /\ \E to : Fits(code', 0, to, room)
    <3>1. CASE method = "call"
      BY <1>2, <3>1, SendFits DEF Jni!PushLocalFrame
    <3>2. CASE method # "call"
      BY <1>2, <3>2, KeyProviderFits DEF Jni!PushLocalFrame
    <3> QED BY <3>1, <3>2
  <2>a. [held |-> 0, capacity |-> room] \in JniFrame
    BY DEF JniFrame
  <2>3. /\ Len(references') = 2 /\ references'[1] = references[1]
        /\ references'[2] = [held |-> 0, capacity |-> room]
        /\ references' \in Seq(JniFrame)
    <3>1. references \in Seq(JniFrame)
      BY DEF JniIInv
    <3> DEFINE g == [held |-> 0, capacity |-> room]
    <3>2. g \in JniFrame /\ references' = Append(references, g)
      BY <2>2, <2>a
    <3> HIDE DEF g
    <3>3. Len(references') = 2 /\ references'[1] = references[1] /\ references'[2] = g
          /\ references' \in Seq(JniFrame)
      <4> DEFINE grown == Append(references, g)
      <4>1. /\ grown \in Seq(JniFrame) /\ Len(grown) = Len(references) + 1
            /\ (\A i \in 1 .. Len(references) : grown[i] = references[i])
               /\ grown[Len(references) + 1] = g
        BY <3>1, <3>2, AppendProperties
      <4> HIDE DEF grown
      <4>2. references' = grown
        BY <3>2 DEF grown
      <4> QED BY <2>1, <4>1, <4>2
    <3> QED BY <3>3 DEF g
  <2>4. JniInner'
    BY <2>1, <2>2, <2>3 DEF JniInner
  <2> QED BY <2>1, <2>3, <2>4 DEF JniIInv
<1>3. CASE Jni!PopLocalFrame
  <2>1. Len(references) = 2 /\ JniInner /\ UNCHANGED <<method, code>> /\ code = <<>>
    BY <1>3 DEF Jni!PopLocalFrame, JniIInv, JniOuter
  <2>2. /\ Len(references') = 1 /\ references'[1] = references[1]
        /\ references' \in Seq(JniFrame)
    <3>1. references' = SubSeq(references, 1, Len(references) - 1)
          /\ references \in Seq(JniFrame) /\ Len(references) - 1 = 1
      BY <1>3, <2>1 DEF Jni!PopLocalFrame, JniIInv, Jni!Front
    <3>2. references' = SubSeq(references, 1, 1) /\ \A i \in 1 .. 1 : references[i] \in JniFrame
      BY <2>1, <3>1
    <3> QED BY <3>2, SubSeqProperties
  <2>3. JniRoom(references[1].capacity, method) \in Nat
    BY DEF JniRoom, JniIInv
  <2>4. JniOuter'
    BY <2>1, <2>2, <2>3, <1>e DEF JniInner, JniOuter
  <2> QED BY <2>1, <2>2, <2>4 DEF JniIInv
<1>4. CASE Jni!Return
  <2>1. Len(references) = 1 /\ method \in {"call", "receive"} /\ references[1].held = 0
        /\ UNCHANGED <<method, references>>
    BY <1>4 DEF Jni!Return, JniIInv
  <2>2. \E to : Fits(code', 0, to, JniRoom(references[1].capacity, method))
    <3>1. CASE method = "call"
      <4>1. JniRoom(references[1].capacity, method) = 11
        BY <3>1 DEF JniIInv, JniRoom
      <4>2. Fits(Jni!ToBytes, 0, 1, 11)
        BY OneFits DEF Jni!ToBytes
      <4> QED BY <1>4, <3>1, <4>1, <4>2 DEF Jni!Return
    <3>2. CASE method = "receive"
      <4>1. JniRoom(references[1].capacity, method) = 59
        BY <3>2 DEF JniIInv, JniRoom
      <4> QED BY <1>4, <3>2, <4>1, EventFits DEF Jni!Return
    <3> QED BY <2>1, <3>1, <3>2
  <2>3. JniOuter'
    BY <2>1, <2>2 DEF JniOuter
  <2> QED BY <2>1, <2>3 DEF JniIInv
<1>5. CASE Jni!Throw
  <2>1. /\ method \in {"call", "receive"} /\ method' = "raising"
        /\ Len(references) \in {1, 2}
    BY <1>5 DEF Jni!Throw, JniIInv, JniOuter, JniInner
  <2>2. /\ references' = <<references[1]>> /\ Len(references') = 1
        /\ references'[1] = references[1]
        /\ references' \in Seq(JniFrame)
    <3>1. references' = <<references[1]>> /\ references \in Seq(JniFrame)
          /\ references[1] \in JniFrame
      BY <1>5, <2>1 DEF Jni!Throw, JniIInv
    <3> QED BY <3>1
  <2>3. references[1].held \in Nat /\ references[1].held + 5 =< references[1].capacity
    <3>1. CASE JniOuter
      <4>1. JniRoom(references[1].capacity, method) \in Nat
            /\ JniRoom(references[1].capacity, method) = references[1].capacity - 5
        BY <2>1 DEF JniIInv, JniRoom
      <4>2. references[1].held \in 0 .. JniRoom(references[1].capacity, method)
        BY <3>1, <4>1, FitsBounds DEF JniOuter
      <4> QED BY <4>1, <4>2 DEF JniIInv
    <3>2. CASE JniInner
      BY <3>2 DEF JniIInv, JniInner
    <3> QED BY <3>1, <3>2 DEF JniIInv
  <2>4. \E to : Fits(code', references[1].held, to, references[1].capacity)
    <3>1. CASE code' = Jni!Raise
      BY <2>3, <3>1, RaiseFits DEF JniIInv
    <3>2. CASE code' = <<>>
      <4>1. references[1].held \in 0 .. references[1].capacity /\ references[1].capacity \in Nat
        BY <2>3 DEF JniIInv
      <4>2. <<>> \in Seq(Int) /\ Len(<<>>) = 0
        OBVIOUS
      <4> QED BY <3>2, <4>1, <4>2, EmptyFits
    <3> QED BY <1>5, <3>1, <3>2 DEF Jni!Throw
  <2>5. JniOuter'
    BY <2>1, <2>2, <2>4 DEF JniOuter, JniRoom
  <2> QED BY <2>1, <2>2, <2>5 DEF JniIInv
<1>6. CASE UNCHANGED Jni!vars
  BY <1>6 DEF Jni!vars, JniIInv, JniOuter, JniInner, JniRoom
<1>7. CASE Jni!Returned
  BY <1>6, <1>7 DEF Jni!Returned
<1> QED BY <1>1, <1>2, <1>3, <1>4, <1>5, <1>6, <1>7 DEF Jni!Next

-------------------------------------------------------------------------------
\* The calls of all five, JNI and the C ABI (MCBindingCalls.tla)

\* A process uses one binding; what the others would use is as it was.
CallsInv ==
  /\ host \in Hosts
  /\ host = "php" => PhpIInv
  /\ host = "python" => PythonIInv
  /\ host = "ruby" => RubyIInv
  /\ host = "rust" => RustIInv
  /\ host = "java" => JavaIInv
  /\ host # "java" => pending = {}
  /\ host \in {"jni", "c"} => CallInit
  /\ JniIInv /\ AbiIInv

\* The instances' calls are HostInvoke's.
LEMMA SameCalls ==
  /\ Php!ResultFreed <=> ResultFreed
  /\ Python!HostErrorWins <=> HostErrorWins
  /\ Python!ResultFreed <=> ResultFreed
  /\ Ruby!HostErrorWins <=> HostErrorWins
  /\ Ruby!ResultFreed <=> ResultFreed
  /\ Rust!ResultFreed <=> ResultFreed
  /\ Java!ResultFreed <=> ResultFreed
  /\ Php!CallInit <=> CallInit
  BY DEF ResultFreed, HostErrorWins, CallInit, Php!ResultFreed, Python!HostErrorWins,
         Python!ResultFreed, Ruby!HostErrorWins, Ruby!ResultFreed, Rust!ResultFreed,
         Java!ResultFreed, Php!CallInit

\* The invariant holds before the first call.
LEMMA CallsInitInv == Calls_Init => CallsInv
<1> SUFFICES ASSUME Calls_Init PROVE CallsInv
  OBVIOUS
<1>1. PhpIInv /\ PythonIInv /\ RubyIInv /\ RustIInv /\ JavaIInv /\ JniIInv /\ AbiIInv
  BY PhpInitInv, PythonInitInv, RubyInitInv, RustInitInv, JavaInitInv, JniInitInv, AbiInitInv
  DEF Calls_Init
<1>2. pending = {} /\ CallInit
  BY SameCalls DEF Calls_Init, Java!Init, Java!JniInit, Php!Init
<1> QED BY <1>1, <1>2 DEF Calls_Init, CallsInv

\* To the native side every step is one of its own, or none.
LEMMA CallsAbiStep == [Calls_Next]_<<callVars, host, hostVars>> => [Abi!Next]_(Abi!vars)
<1>1. UNCHANGED abiVars => UNCHANGED Abi!vars
  BY DEF abiVars, Abi!vars
<1> QED BY <1>1 DEF Calls_Next, hostVars

\* Every step keeps the invariant: it is a step of one binding, or of JNI, or of
\* the native side.
LEMMA CallsNextInv == CallsInv /\ [Calls_Next]_<<callVars, host, hostVars>> => CallsInv'
<1> SUFFICES ASSUME CallsInv, [Calls_Next]_<<callVars, host, hostVars>> PROVE CallsInv'
  OBVIOUS
<1> USE DEF javaVars
<1>0. AbiIInv' /\ host' \in Hosts /\ UNCHANGED host
  BY CallsAbiStep, AbiNextInv DEF CallsInv, Calls_Next
<1>1. ASSUME UNCHANGED referenceVars PROVE JniIInv'
  <2>1. UNCHANGED Jni!vars
    BY <1>1 DEF referenceVars, Jni!vars
  <2> QED BY <2>1, JniNextInv, BoundsAssumption DEF CallsInv
<1>2. CASE host = "php" /\ UNCHANGED <<referenceVars, javaVars>> /\ Php!Next
  BY <1>0, <1>1, <1>2, PhpNextInv DEF CallsInv
<1>3. CASE host = "python" /\ UNCHANGED <<referenceVars, javaVars>> /\ Python!Next
  BY <1>0, <1>1, <1>3, PythonNextInv DEF CallsInv
<1>4. CASE host = "ruby" /\ UNCHANGED <<referenceVars, javaVars>> /\ Ruby!Next
  BY <1>0, <1>1, <1>4, RubyNextInv DEF CallsInv
<1>5. CASE host = "rust" /\ UNCHANGED <<referenceVars, javaVars>> /\ Rust!Next
  BY <1>0, <1>1, <1>5, RustNextInv DEF CallsInv
<1>6. CASE host = "java" /\ UNCHANGED referenceVars /\ Java!Next
  BY <1>0, <1>1, <1>6, JavaNextInv DEF CallsInv
<1>7. CASE host \in {"jni", "c"} /\ UNCHANGED <<callVars, javaVars>>
           /\ (Jni!Next \/ UNCHANGED referenceVars)
  <2>1. CallInit'
    BY <1>7 DEF CallsInv, CallInit, callVars
  <2>2. JniIInv'
    BY <1>1, <1>7, JniNextInv, BoundsAssumption DEF CallsInv
  <2> QED BY <1>0, <1>7, <2>1, <2>2 DEF CallsInv
<1>8. CASE UNCHANGED <<callVars, host, hostVars>>
  <2>1. /\ UNCHANGED <<referenceVars, pending>>
        /\ UNCHANGED <<Php!vars, Python!vars, Ruby!vars, Rust!vars, Java!vars>>
    BY <1>8
    DEF callVars, hostVars, phpVars, pythonVars, rubyVars, Php!vars, Php!callVars, Python!vars,
        Python!callVars, Python!libraryVars, Ruby!vars, Ruby!callVars, Ruby!loadVars,
        Ruby!rubyVars, Rust!vars, Rust!callVars, Java!vars, Java!callVars, Java!jniVars
  <2>2. CallInit => CallInit'
    BY <1>8 DEF CallInit, callVars
  <2> QED BY <1>0, <1>1, <2>1, <2>2, PhpNextInv, PythonNextInv, RubyNextInv, RustNextInv,
             JavaNextInv
          DEF CallsInv
<1> QED BY <1>2, <1>3, <1>4, <1>5, <1>6, <1>7, <1>8 DEF Calls_Next

\* The invariant is kept for ever.
LEMMA CallsAlways == Calls_Spec => []CallsInv
  BY CallsInitInv, CallsNextInv, PTL DEF Calls_Spec

\* OwnContext (MCBindingCalls.tla): the stack of PHP's contexts is the chain of its
\* callbacks, and the library of Python and Ruby is loaded whole, by one call.
THEOREM ContextsAreOwn == Calls_Spec => []OwnContext
<1>1. CallsInv => OwnContext
  BY PhpSafe, PythonSafe, RubySafe DEF CallsInv, OwnContext
<1> QED BY <1>1, CallsAlways, PTL

\* OwnErrorWins (MCBindingCalls.tla): through the native call and back, for any
\* number of calls.
THEOREM ErrorsAreOwn == Calls_Spec => []OwnErrorWins
<1>1. CallInit => HostErrorWins
  BY DEF CallInit, HostErrorWins
<1>2. CallsInv => OwnErrorWins
  BY <1>1, SameCalls, PhpSafe, PythonSafe, RubySafe, RustSafe, JavaSafe
  DEF CallsInv, OwnErrorWins, Hosts
<1> QED BY <1>2, CallsAlways, PTL

\* CallsCleanUp (MCBindingCalls.tla): on every path out of a call, a panic and an
\* error of JNI included.
THEOREM EveryCallCleansUp == Calls_Spec => []CallsCleanUp
<1>1. CallInit => ResultFreed
  BY DEF CallInit, ResultFreed
<1>2. CallsInv => CallsCleanUp
  BY <1>1, SameCalls, PhpSafe, PythonSafe, RubySafe, RustSafe, JavaSafe
  DEF CallsInv, CallsCleanUp, Hosts
<1> QED BY <1>2, CallsAlways, PTL

\* JniRespected (MCBindingCalls.tla): for any number of headers of a request, which
\* the room of 32 references does not depend on, and any number of calls.
THEOREM JniIsRespected == Calls_Spec => []JniRespected
<1>1. host # "java" /\ pending = {} => Java!NoCallWhilePending
  BY DEF Java!NoCallWhilePending
<1>2. CallsInv => JniRespected
  BY <1>1, JavaSafe, JniSafe DEF CallsInv, JniRespected
<1> QED BY <1>2, CallsAlways, PTL

\* EnvelopeTrue (MCCAbi.tla), for any status a host may answer.
THEOREM EnvelopeIsTrue == Calls_Spec => []EnvelopeTrue
<1>1. CallsInv => EnvelopeTrue
  BY AbiSafe DEF CallsInv
<1> QED BY <1>1, CallsAlways, PTL

\* ImplementsHostInvoke (MCCAbi.tla): what the proofs about the bindings above, and
\* those of ModuleLeaseProofs, take a native call to be is what lks_invoke does.
THEOREM CallIsAHostInvoke == Calls_Spec => ImplementsHostInvoke
<1>1. CallsInv /\ [Calls_Next]_<<callVars, host, hostVars>> =>
        [Abi!Host!Work(NativeCall)]_(Abi!Host!callVars)
  BY CallsAbiStep, AbiStepHost DEF CallsInv
<1> QED BY <1>1, CallsAlways, PTL
        DEF Calls_Spec, ImplementsHostInvoke, Abi!ImplementsHostInvoke
===============================================================================
