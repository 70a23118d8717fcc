---------------------------- MODULE TransportProofs ----------------------------
(***************************************************************************)
(* CurlTransport for any number of threads and of response blocks, and     *)
(* WinHttpTransport for any number of threads, targets and handles, the    *)
(* two modules of MCTransports.                                            *)
(*                                                                         *)
(* What makes one handle of libcurl safe to share is that an option points *)
(* to the Send that holds the mutex or to nothing (OptionInv): then        *)
(* libcurl sends the request of the Send that performs and stores into its *)
(* state (StoredInv, SentInv), and there is nothing to dangle after it.    *)
(*                                                                         *)
(* What makes the cache of WinHTTP right is that only the Send that holds  *)
(* the mutex can add to it, when it has found nothing (CacheInv), and that *)
(* nothing leaves it before the destructor (WorkInv).                      *)
(***************************************************************************)
EXTENDS MCTransports, TLAPS

Holding == {"locked", "requesting", "receiving", "ready", "performing", "performed",
            "resetting", "unlocking"}
After == {"resetting", "unlocking", "returned"}

MutexInv == \A s \in Sends : pc[s] \in Holding <=> mutex = s

OptionInv ==
  /\ \A o \in Options : option[o] # None => Borrowable(option[o])
  /\ \A s \in Sends : /\ pc[s] \in {"receiving", "ready", "performing"} =>
                           \A o \in RequestOptions : option[o] = s
                      /\ pc[s] \in {"ready", "performing"} =>
                           \A o \in ResponseOptions : option[o] = s

StoredInv == \A s \in Sends : stored[s] \subseteq {<<s, block[s]>>}

FailureInv == \A s \in Sends : failure[s] =>
  /\ pc[s] \in {"performing", "performed"} \cup After
  /\ pc[s] \in After => outcome[s] = "callback_failure"

ResponseInv == \A s \in Sends : outcome[s] = "response" => pc[s] \in After

SentInv == \A m \in sent : /\ m.of = {m.by}
                           /\ pc[m.by] \in {"performing", "performed"} \cup After

Inv == MutexInv /\ OptionInv /\ StoredInv /\ FailureInv /\ ResponseInv /\ SentInv
IInv == TypeOK /\ Inv

-------------------------------------------------------------------------------
\* Nothing is set, sent or stored at first.
LEMMA InitInv == Init => IInv
  BY SendAssumptions
     DEF Init, IInv, TypeOK, Inv, MutexInv, OptionInv, StoredInv, FailureInv, ResponseInv, SentInv,
         Unset, Options, RequestOptions, ResponseOptions, Holding, After, Codes, Outcomes

\* The Send that performs is the one libcurl calls back for.
LEMMA OwnSink ==
  ASSUME IInv, NEW s \in Sends, pc[s] = "performing"
  PROVE  Sink = s
  BY DEF IInv, Inv, OptionInv, Sink, ResponseOptions

\* Before a Send holds the mutex it moves nothing but itself.
LEMMA BeginInv ==
  ASSUME IInv, NEW s \in Sends, Check(s) \/ Lock(s)
  PROVE  IInv'
<1> USE DEF IInv, Inv, TypeOK, Goto, reading, Ends
<1>1. CASE Check(s)
  <2>1. TypeOK'
    BY <1>1 DEF Check, Outcomes
  <2>2. \A t \in Sends : t # s => pc'[t] = pc[t] /\ outcome'[t] = outcome[t]
    BY <1>1 DEF Check
  <2>3. /\ pc[s] = "idle" /\ pc'[s] \in {"waiting", "returned"}
        /\ outcome'[s] = "response" => outcome[s] = "response"
    BY <1>1 DEF Check
  <2>4. UNCHANGED <<mutex, option, sent, block, stored, failure>>
    BY <1>1 DEF Check
  <2>5. MutexInv' /\ FailureInv' /\ ResponseInv'
    BY <2>2, <2>3, <2>4 DEF MutexInv, FailureInv, ResponseInv, Holding, After
  <2>6. OptionInv' /\ StoredInv' /\ SentInv'
    BY <2>2, <2>3, <2>4, SendAssumptions DEF OptionInv, StoredInv, SentInv, Borrowable, After
  <2> QED BY <2>1, <2>5, <2>6
<1>2. CASE Lock(s)
  <2>1. TypeOK'
    BY <1>2 DEF Lock
  <2>2. pc' = [pc EXCEPT ![s] = "locked"] /\ pc[s] = "waiting"
    BY <1>2 DEF Lock
  <2>3. UNCHANGED <<option, sent, block, stored, failure, outcome>>
    BY <1>2 DEF Lock
  <2>4. MutexInv'
    BY <1>2, <2>2, SendAssumptions DEF Lock, MutexInv, Holding
  <2>5. OptionInv' /\ StoredInv' /\ SentInv' /\ FailureInv' /\ ResponseInv'
    BY <2>2, <2>3, SendAssumptions
       DEF OptionInv, StoredInv, SentInv, FailureInv, ResponseInv, Borrowable, After
  <2> QED BY <2>1, <2>4, <2>5
<1> QED BY <1>1, <1>2

\* Both resets leave the handle pointing nowhere.
LEMMA ResetInv ==
  ASSUME IInv, NEW s \in Sends, ResetFirst(s) \/ ResetLast(s)
  PROVE  IInv'
<1> USE DEF IInv, Inv, TypeOK, Goto, reading, ResetFirst, ResetLast
<1>1. option' = Unset /\ \A o \in Options : option'[o] = None
  BY DEF Unset
<1>2. TypeOK'
  BY <1>1 DEF Unset
<1>3. /\ \A t \in Sends \ {s} : pc'[t] = pc[t]
      /\ pc[s] \in {"locked", "resetting"} /\ pc'[s] \in {"requesting", "unlocking"}
      /\ pc[s] = "locked" => pc'[s] = "requesting"
      /\ pc[s] = "resetting" => pc'[s] = "unlocking"
  OBVIOUS
<1>4. UNCHANGED <<mutex, sent, block, stored, failure, outcome>>
  OBVIOUS
<1>5. MutexInv'
  BY <1>3, <1>4 DEF MutexInv, Holding
<1>6. \A t \in Sends : pc'[t] \notin {"receiving", "ready", "performing"}
  BY <1>3 DEF MutexInv, Holding
<1>7. OptionInv'
  BY <1>1, <1>6 DEF OptionInv
<1>8. StoredInv' /\ FailureInv' /\ ResponseInv' /\ SentInv'
  BY <1>3, <1>4 DEF StoredInv, FailureInv, ResponseInv, SentInv, After
<1> QED BY <1>2, <1>5, <1>7, <1>8

\* Options are set to the Send that holds the mutex.
LEMMA SetInv ==
  ASSUME IInv, NEW s \in Sends, SetRequest(s) \/ SetResponse(s) \/ SetOptionThrows(s)
  PROVE  IInv'
<1> USE DEF IInv, Inv, Goto, reading, Ends
<1>1. PICK options \in SUBSET Options : Set(s, options)
  BY DEF SetRequest, SetResponse, SetOptionThrows, Options
<1>2. /\ option' \in [Options -> Sends \cup {None}]
      /\ \A o \in Options : option'[o] = IF o \in options THEN s ELSE option[o]
  BY <1>1 DEF Set, TypeOK
<1>3. TypeOK'
  <2>1. CASE SetRequest(s) \/ SetResponse(s)
    BY <1>2, <2>1 DEF TypeOK, SetRequest, SetResponse
  <2>2. CASE SetOptionThrows(s)
    <3>1. pc' = [pc EXCEPT ![s] = "resetting"] /\ UNCHANGED <<mutex, reading>>
      BY <2>2 DEF SetOptionThrows
    <3>2. outcome' = [outcome EXCEPT ![s] = "transport_error"]
      BY <2>2 DEF SetOptionThrows
    <3> QED BY <1>2, <3>1, <3>2 DEF TypeOK, Outcomes
  <2> QED BY <2>1, <2>2
<1>4. /\ \A t \in Sends \ {s} : pc'[t] = pc[t]
      /\ pc[s] \in {"requesting", "receiving"} /\ pc'[s] \in {"receiving", "ready", "resetting"}
      /\ UNCHANGED <<mutex, sent, block, stored, failure>>
  BY DEF TypeOK, SetRequest, SetResponse, SetOptionThrows
<1>5. MutexInv'
  BY <1>4 DEF MutexInv, Holding
<1>6. OptionInv'
  <2>1. \A t \in Sends \ {s} : ~Borrowable(t) /\ ~Borrowable(t)'
    BY <1>4 DEF MutexInv, Holding, Borrowable
  <2>2. \A o \in Options : option[o] \in {s, None}
    BY <2>1 DEF OptionInv, TypeOK
  <2>3. \A o \in Options : option'[o] \in {s, None}
    BY <1>2, <2>2
  <2>4. Borrowable(s)'
    BY <1>4 DEF Borrowable
  <2>5. pc'[s] \in {"receiving", "ready"} => \A o \in RequestOptions : option'[o] = s
    BY DEF SetRequest, SetResponse, SetOptionThrows, Set, OptionInv, Options, RequestOptions,
           ResponseOptions, TypeOK
  <2>6. pc'[s] = "ready" => \A o \in ResponseOptions : option'[o] = s
    BY DEF SetRequest, SetResponse, SetOptionThrows, Set, Options, RequestOptions,
           ResponseOptions, TypeOK
  <2> QED BY <1>4, <2>1, <2>3, <2>4, <2>5, <2>6 DEF OptionInv, Borrowable
<1>7. StoredInv' /\ FailureInv' /\ ResponseInv' /\ SentInv'
  <2>1. \A t \in Sends : failure[t] => pc[t] # "requesting" /\ pc[t] # "receiving"
    BY DEF FailureInv, After
  <2>2. /\ \A t \in Sends \ {s} : outcome'[t] = outcome[t]
        /\ outcome'[s] = "response" => outcome[s] = "response"
    BY DEF TypeOK, SetRequest, SetResponse, SetOptionThrows
  <2> QED BY <1>4, <2>1, <2>2 DEF StoredInv, FailureInv, ResponseInv, SentInv, After, TypeOK
<1> QED BY <1>3, <1>5, <1>6, <1>7

\* libcurl transmits, reads and stores for the Send that performs.
LEMMA TransferInv ==
  ASSUME IInv, NEW s \in Sends,
         Transmit(s) \/ StatusLine(s) \/ Store(s) \/ StoreThrows(s) \/ PerformEnds(s)
  PROVE  IInv'
<1> USE DEF IInv, Inv, Goto
<1>1. CASE Transmit(s)
  <2>1. {option[o] : o \in RequestOptions} = {s}
    BY <1>1 DEF Transmit, OptionInv, RequestOptions
  <2>2. sent' = sent \cup {[by |-> s, of |-> {s}]}
    BY <1>1, <2>1 DEF Transmit
  <2>3. TypeOK'
    BY <1>1, <2>2 DEF Transmit, TypeOK
  <2>4. SentInv'
    BY <1>1, <2>2 DEF Transmit, SentInv, After, TypeOK
  <2> QED BY <1>1, <2>3, <2>4 DEF Transmit, MutexInv, OptionInv, StoredInv, FailureInv, ResponseInv,
                                  Holding, After, Borrowable, TypeOK
<1>2. CASE StatusLine(s)
  <2>1. stored' = [stored EXCEPT ![s] = {}] /\ block' = [block EXCEPT ![s] = block[s] + 1]
    BY <1>2, OwnSink DEF StatusLine, Receives
  <2>2. block[s] + 1 \in 0 .. MaxBlocks
    BY <1>2, SendAssumptions DEF StatusLine, TypeOK
  <2>3. TypeOK'
    BY <1>2, <2>1, <2>2 DEF StatusLine, TypeOK
  <2>4. StoredInv'
    BY <2>1 DEF StoredInv, TypeOK
  <2> QED BY <1>2, <2>3, <2>4 DEF StatusLine, MutexInv, OptionInv, FailureInv, ResponseInv, SentInv,
                                  Borrowable
<1>3. CASE Store(s)
  <2>1. stored' = [stored EXCEPT ![s] = stored[s] \cup {<<s, block[s]>>}] /\ block' = block
    BY <1>3, OwnSink DEF Store, Receives
  <2>2. block[s] \in 1 .. MaxBlocks
    BY <1>3, SendAssumptions DEF Store, TypeOK
  <2>3. stored' \in [Sends -> SUBSET (Sends \X (1 .. MaxBlocks))]
    BY <2>1, <2>2 DEF TypeOK
  <2>4. TypeOK'
    BY <1>3, <2>3 DEF Store, TypeOK
  <2>5. StoredInv'
    BY <2>1 DEF StoredInv, TypeOK
  <2> QED BY <1>3, <2>4, <2>5 DEF Store, MutexInv, OptionInv, FailureInv, ResponseInv, SentInv, Borrowable
<1>4. CASE StoreThrows(s)
  <2>1. failure' = [failure EXCEPT ![s] = TRUE] /\ pc[s] = "performing"
    BY <1>4, OwnSink DEF StoreThrows, Receives
  <2>2. FailureInv' /\ ResponseInv'
    BY <1>4, <2>1 DEF StoreThrows, FailureInv, ResponseInv, After, TypeOK
  <2> QED BY <1>4, <2>1, <2>2 DEF StoreThrows, TypeOK, MutexInv, OptionInv, StoredInv,
                                  SentInv, Borrowable
<1>5. CASE PerformEnds(s)
  <2>1. /\ pc' = [pc EXCEPT ![s] = "performed"] /\ pc[s] \in {"ready", "performing"}
        /\ UNCHANGED <<mutex, option, sent, block, stored, failure, outcome>>
    BY <1>5 DEF PerformEnds
  <2>2. TypeOK'
    BY <1>5 DEF PerformEnds, TypeOK, Codes
  <2>3. MutexInv' /\ OptionInv'
    BY <2>1 DEF MutexInv, OptionInv, Borrowable, Holding, TypeOK
  <2>4. StoredInv' /\ FailureInv' /\ ResponseInv' /\ SentInv'
    BY <2>1 DEF StoredInv, FailureInv, ResponseInv, SentInv, After, TypeOK
  <2> QED BY <2>2, <2>3, <2>4
<1> QED BY <1>1, <1>2, <1>3, <1>4, <1>5

\* What Send makes of the transfer.
LEMMA JudgeInv ==
  ASSUME IInv, NEW s \in Sends, Judge(s)
  PROVE  IInv'
<1> USE DEF IInv, Inv, Goto, reading, Ends
<1>1. /\ pc' = [pc EXCEPT ![s] = "resetting"] /\ pc[s] = "performed"
      /\ UNCHANGED <<mutex, option, sent, block, stored, failure>>
  BY DEF Judge
<1>2. TypeOK'
  BY DEF Judge, TypeOK, Outcomes
<1>3. /\ failure[s] => outcome'[s] = "callback_failure"
      /\ \A t \in Sends \ {s} : outcome'[t] = outcome[t]
  BY DEF Judge, TypeOK
<1>4. FailureInv' /\ ResponseInv'
  BY <1>1, <1>3 DEF FailureInv, ResponseInv, After, TypeOK
<1>5. MutexInv' /\ OptionInv'
  BY <1>1 DEF MutexInv, OptionInv, Borrowable, Holding, TypeOK
<1>6. StoredInv' /\ SentInv'
  BY <1>1 DEF StoredInv, SentInv, After, TypeOK
<1> QED BY <1>2, <1>4, <1>5, <1>6

\* The mutex is given up when the handle points nowhere.
LEMMA UnlockInv ==
  ASSUME IInv, NEW s \in Sends, Unlock(s)
  PROVE  IInv'
<1> USE DEF IInv, Inv, Goto, reading, Unlock
<1>1. /\ pc' = [pc EXCEPT ![s] = "returned"] /\ pc[s] = "unlocking"
      /\ UNCHANGED <<option, sent, block, stored, failure, outcome>>
  OBVIOUS
<1>2. TypeOK'
  BY DEF TypeOK
<1>3. MutexInv'
  BY <1>1, SendAssumptions DEF MutexInv, Holding, TypeOK
<1>4. OptionInv'
  BY <1>1 DEF OptionInv, Borrowable, TypeOK
<1>5. StoredInv' /\ FailureInv' /\ ResponseInv' /\ SentInv'
  BY <1>1 DEF StoredInv, FailureInv, ResponseInv, SentInv, After, TypeOK
<1> QED BY <1>2, <1>3, <1>4, <1>5

\* One case for each disjunct of Next.
LEMMA NextInv == IInv /\ [Next]_vars => IInv'
<1> SUFFICES ASSUME IInv, [Next]_vars PROVE IInv'
  OBVIOUS
<1>1. ASSUME NEW s \in Sends, Check(s) \/ Lock(s) \/ Continue(s)
      PROVE  IInv'
  BY <1>1, BeginInv, ResetInv, SetInv, TransferInv, JudgeInv, UnlockInv DEF Continue
<1>2. CASE UNCHANGED vars
  BY <1>2 DEF vars, reading, IInv, TypeOK, Inv, MutexInv, OptionInv, StoredInv, FailureInv, ResponseInv,
              SentInv, Borrowable
<1> QED BY <1>1, <1>2 DEF Next, AllReturned

\* The inductive invariant holds in every state.
LEMMA Invariance == Spec => []IInv
  BY InitInv, NextInv, PTL DEF Spec

-------------------------------------------------------------------------------
\* The state of the handle and of each Send stays well typed.
THEOREM TypeCorrect == Spec => []TypeOK
<1>1. IInv => TypeOK
  BY DEF IInv
<1> QED BY <1>1, Invariance, PTL

\* However many threads share the handle and whatever fails, it never points
\* into a Send whose buffers are gone.
THEOREM NothingDangles == Spec => []NoDanglingOption
<1>1. IInv => NoDanglingOption
  BY DEF IInv, Inv, OptionInv, NoDanglingOption, Borrowed
<1> QED BY <1>1, Invariance, PTL

\* A response holds lines of the final block of the Send's own transfer only.
THEOREM OwnFinalResponse == Spec => []FinalResponseOnly
<1>1. IInv => FinalResponseOnly
  BY DEF IInv, Inv, StoredInv, FinalResponseOnly
<1> QED BY <1>1, Invariance, PTL

\* What a callback could not store is what Send throws.
THEOREM CallbackFailureKept == Spec => []CallbackFailureWins
<1>1. IInv => CallbackFailureWins
  BY DEF IInv, Inv, FailureInv, After, CallbackFailureWins
<1> QED BY <1>1, Invariance, PTL

-------------------------------------------------------------------------------
(* CurlTransport implements HttpTransport. *)

Requested == {m.by : m \in sent}

\* A complete transfer had a request, and a response a complete transfer.
AnswerInv == \A s \in Sends :
  /\ pc[s] = "performing" \/ code[s] = "ok" => s \in Requested
  /\ outcome[s] = "response" => code[s] = "ok"

\* A transmission adds the Send that makes it to those that have requested.
LEMMA OneMore ==
  ASSUME NEW s \in Sends, Transmit(s)
  PROVE  Requested' = Requested \cup {s}
<1> DEFINE r == [by |-> s, of |-> {option[o] : o \in RequestOptions}]
<1>1. sent' = sent \cup {r} /\ r.by = s
  BY DEF Transmit
<1> HIDE DEF r
<1> QED BY <1>1 DEF Requested

\* Only Transmit adds a request, only PerformEnds a code.
LEMMA AnswerStep == IInv /\ AnswerInv /\ [Next]_vars => AnswerInv'
<1> SUFFICES ASSUME IInv, AnswerInv, [Next]_vars PROVE AnswerInv'
  OBVIOUS
<1> USE DEF AnswerInv, IInv, TypeOK, Goto, reading, Ends
<1>1. ASSUME NEW s \in Sends, Check(s) \/ Lock(s)
      PROVE  AnswerInv'
  BY <1>1 DEF Check, Lock, Requested
<1>2. ASSUME NEW s \in Sends, ResetFirst(s) \/ ResetLast(s) \/ Unlock(s)
      PROVE  AnswerInv'
  BY <1>2 DEF ResetFirst, ResetLast, Unlock, Requested
<1>3. ASSUME NEW s \in Sends, SetRequest(s) \/ SetResponse(s) \/ SetOptionThrows(s)
      PROVE  AnswerInv'
  BY <1>3 DEF SetRequest, SetResponse, SetOptionThrows, Requested
<1>4. ASSUME NEW s \in Sends, Transmit(s)
      PROVE  AnswerInv'
  <2>1. Requested' = Requested \cup {s}
    BY <1>4, OneMore
  <2> QED BY <1>4, <2>1 DEF Transmit
<1>5. ASSUME NEW s \in Sends, StatusLine(s) \/ Store(s) \/ StoreThrows(s)
      PROVE  AnswerInv'
  BY <1>5 DEF StatusLine, Store, StoreThrows, Requested
<1>6. ASSUME NEW s \in Sends, PerformEnds(s)
      PROVE  AnswerInv'
  <2>1. Requested' = Requested /\ outcome' = outcome
    BY <1>6 DEF PerformEnds, Requested
  <2>2. outcome[s] # "response"
    BY <1>6 DEF PerformEnds, Inv, ResponseInv, After
  <2> QED BY <1>6, <2>1, <2>2 DEF PerformEnds
<1>7. ASSUME NEW s \in Sends, Judge(s)
      PROVE  AnswerInv'
  BY <1>7 DEF Judge, Requested
<1>8. CASE UNCHANGED vars
  BY <1>8 DEF vars, Requested
<1> QED BY <1>1, <1>2, <1>3, <1>4, <1>5, <1>6, <1>7, <1>8 DEF Next, Continue, AllReturned

\* The inductive invariant of the refinement.
LEMMA AnswerInvariance == Spec => [](IInv /\ AnswerInv)
<1>1. Init => AnswerInv
  BY DEF Init, AnswerInv
<1> QED BY <1>1, InitInv, NextInv, AnswerStep, PTL DEF Spec

\* What a Send answers when nothing is mixed.
Answer(s) == IF pc[s] # "returned" THEN None
             ELSE IF outcome[s] # "response" THEN "error" ELSE s

\* By the invariant no request and no answer is mixed.
LEMMA NothingMixed ==
  ASSUME IInv
  PROVE  /\ {RequestOf(m) : m \in sent} = Requested
         /\ [s \in Sends |-> Returned(s)] = [s \in Sends |-> Answer(s)]
<1>1. {RequestOf(m) : m \in sent} = Requested
  BY DEF IInv, Inv, SentInv, Requested, RequestOf
<1>2. \A s \in Sends : Returned(s) = Answer(s)
  BY DEF IInv, Inv, StoredInv, Returned, Answer
<1> QED BY <1>1, <1>2

\* The same in the next state.
LEMMA NothingMixedNext ==
  ASSUME IInv'
  PROVE  /\ {RequestOf(m) : m \in sent}' = Requested'
         /\ [s \in Sends |-> Returned(s)]' = [s \in Sends |-> Answer(s)']
<1>1. {RequestOf(m) : m \in sent}' = Requested'
  BY DEF IInv, Inv, SentInv, Requested, RequestOf
<1>2. \A s \in Sends : Returned(s)' = Answer(s)'
  BY DEF IInv, Inv, StoredInv, Returned, Answer
<1> QED BY <1>1, <1>2

\* Nothing is sent or answered at first.
LEMMA TransportInit == Init => Transport!Init
  BY DEF Init, Transport!Init, Returned

\* The request goes out once: the Send had sent none before.
LEMMA TransmitRefines ==
  ASSUME IInv, IInv', NEW s \in Sends, Transmit(s)
  PROVE  Transport!Next
<1>1. Requested' = Requested \cup {s}
  BY OneMore
<1>2. pc[s] = "ready" /\ pc' = [pc EXCEPT ![s] = "performing"] /\ outcome' = outcome
  BY DEF Transmit, Goto
<1>3. s \notin Requested
  BY <1>2 DEF Requested, IInv, Inv, SentInv, After
<1>4. \A t \in Sends : Answer(t)' = Answer(t)
  BY <1>2 DEF Answer, IInv, TypeOK
<1>5. [t \in Sends |-> Returned(t)]' = [t \in Sends |-> Returned(t)]
  BY <1>4, NothingMixed, NothingMixedNext
<1>6. [t \in Sends |-> Returned(t)][s] = None
  BY <1>2 DEF Returned
<1>7. Transport!Transmit(s)
  BY <1>1, <1>3, <1>5, <1>6, NothingMixed, NothingMixedNext DEF Transport!Transmit
<1> QED BY <1>7 DEF Transport!Next

\* A Send returns an error, or the response to the request it made.
LEMMA ReturnRefines ==
  ASSUME IInv, AnswerInv, IInv', NEW s \in Sends,
         pc[s] # "returned", pc'[s] = "returned", UNCHANGED sent,
         \A t \in Sends \ {s} : pc'[t] = pc[t] /\ outcome'[t] = outcome[t],
         outcome'[s] = "response" => outcome[s] = "response"
  PROVE  Transport!Next
<1>1. {RequestOf(m) : m \in sent}' = {RequestOf(m) : m \in sent}
  BY NothingMixed, NothingMixedNext DEF Requested
<1>2. [t \in Sends |-> Returned(t)][s] = None
  BY DEF Returned
<1>3. \A t \in Sends \ {s} : Answer(t)' = Answer(t)
  BY DEF Answer
<1>4. [t \in Sends |-> Returned(t)]' =
        [[t \in Sends |-> Returned(t)] EXCEPT ![s] = Answer(s)']
  <2>1. [t \in Sends |-> Answer(t)]' = [[t \in Sends |-> Answer(t)] EXCEPT ![s] = Answer(s)']
    BY <1>3
  <2>2. [t \in Sends |-> Returned(t)] = [t \in Sends |-> Answer(t)]
    BY NothingMixed
  <2>3. [t \in Sends |-> Returned(t)]' = [t \in Sends |-> Answer(t)]'
    BY NothingMixedNext
  <2> QED BY <2>1, <2>2, <2>3
<1>5. CASE outcome'[s] # "response"
  <2>1. Answer(s)' = "error"
    BY <1>5 DEF Answer
  <2>2. Transport!Fail(s)
    BY <1>1, <1>2, <1>4, <2>1 DEF Transport!Fail
  <2> QED BY <2>2 DEF Transport!Next
<1>6. CASE outcome'[s] = "response"
  <2>1. Answer(s)' = s
    BY <1>6 DEF Answer
  <2>2. s \in {RequestOf(m) : m \in sent}
    BY <1>6, NothingMixed DEF AnswerInv
  <2>3. Transport!Respond(s)
    BY <1>1, <1>2, <1>4, <2>1, <2>2 DEF Transport!Respond
  <2> QED BY <2>3 DEF Transport!Next
<1> QED BY <1>5, <1>6

\* A step that sends nothing and ends no Send changes nothing for the callers.
LEMMA OtherRefines ==
  ASSUME IInv, IInv', UNCHANGED sent,
         \A t \in Sends : /\ pc'[t] = "returned" <=> pc[t] = "returned"
                          /\ pc[t] = "returned" => outcome'[t] = outcome[t]
  PROVE  UNCHANGED Transport!vars
<1>1. \A t \in Sends : Answer(t)' = Answer(t)
  BY DEF Answer
<1>2. [t \in Sends |-> Returned(t)]' = [t \in Sends |-> Returned(t)]
  BY <1>1, NothingMixed, NothingMixedNext
<1>3. {RequestOf(m) : m \in sent}' = {RequestOf(m) : m \in sent}
  BY NothingMixed, NothingMixedNext DEF Requested
<1> QED BY <1>2, <1>3 DEF Transport!vars

\* Every step is a step of the abstract transport or leaves it alone.
LEMMA NextRefines ==
  IInv /\ IInv' /\ AnswerInv /\ [Next]_vars => [Transport!Next]_(Transport!vars)
<1> SUFFICES ASSUME IInv, IInv', AnswerInv, [Next]_vars
             PROVE  [Transport!Next]_(Transport!vars)
  OBVIOUS
<1> USE DEF Goto, reading, Ends
<1>1. ASSUME NEW s \in Sends, Transmit(s)
      PROVE  Transport!Next
  BY <1>1, TransmitRefines
<1>2. ASSUME NEW s \in Sends, Check(s)
      PROVE  [Transport!Next]_(Transport!vars)
  <2>1. /\ pc[s] = "idle" /\ UNCHANGED sent
        /\ pc'[s] \in {"waiting", "returned"}
        /\ \A t \in Sends \ {s} : pc'[t] = pc[t] /\ outcome'[t] = outcome[t]
        /\ outcome'[s] = "response" => outcome[s] = "response"
    BY <1>2 DEF Check, IInv, TypeOK
  <2>2. CASE pc'[s] = "waiting"
    BY <2>1, <2>2, OtherRefines
  <2>3. CASE pc'[s] = "returned"
    BY <2>1, <2>3, ReturnRefines
  <2> QED BY <2>1, <2>2, <2>3
<1>3. ASSUME NEW s \in Sends, Unlock(s)
      PROVE  Transport!Next
  <2>1. /\ pc[s] = "unlocking" /\ pc'[s] = "returned" /\ UNCHANGED sent
        /\ \A t \in Sends \ {s} : pc'[t] = pc[t] /\ outcome'[t] = outcome[t]
        /\ outcome'[s] = "response" => outcome[s] = "response"
    BY <1>3 DEF Unlock, IInv, TypeOK
  <2> QED BY <2>1, ReturnRefines
<1>4. ASSUME NEW s \in Sends,
             \/ Lock(s) \/ ResetFirst(s) \/ SetRequest(s) \/ SetResponse(s)
             \/ SetOptionThrows(s) \/ PerformEnds(s) \/ Judge(s) \/ ResetLast(s)
      PROVE  UNCHANGED Transport!vars
  <2>1. /\ UNCHANGED sent
        /\ pc[s] # "returned" /\ pc'[s] # "returned"
        /\ \A t \in Sends \ {s} : pc'[t] = pc[t] /\ outcome'[t] = outcome[t]
    BY <1>4 DEF Lock, ResetFirst, SetRequest, SetResponse, SetOptionThrows, PerformEnds,
                Judge, ResetLast, IInv, TypeOK
  <2> QED BY <2>1, OtherRefines
<1>5. ASSUME NEW s \in Sends, StatusLine(s) \/ Store(s) \/ StoreThrows(s)
      PROVE  UNCHANGED Transport!vars
  BY <1>5, OtherRefines DEF StatusLine, Store, StoreThrows
<1>6. CASE UNCHANGED vars
  BY <1>6, OtherRefines DEF vars
<1> QED BY <1>1, <1>2, <1>3, <1>4, <1>5, <1>6 DEF Next, Continue, AllReturned

\* Sharing one easy handle between threads implements a transport of
\* independent requests: sent at most once, answered by their own response.
THEOREM TransportImplemented == Spec => ImplementsTransport
<1>1. Init => Transport!Init
  BY TransportInit
<1>2. IInv /\ IInv' /\ AnswerInv /\ [Next]_vars => [Transport!Next]_(Transport!vars)
  BY NextRefines
<1> QED BY <1>1, <1>2, AnswerInvariance, PTL DEF Spec, ImplementsTransport, Transport!Spec

-------------------------------------------------------------------------------
(* WinHttpTransport *)

Searching == {"searching", "connecting"}
Requesting == {"ready", "sent", "reading", "closing"}
Working == {"opening"} \cup Requesting

WinTypeOK ==
  /\ win_pc \in [Sends -> {"idle", "waiting", "returned"} \cup Searching \cup Working]
  /\ alive \in BOOLEAN /\ win_mutex \in Sends \cup {None}
  /\ cached \in [Targets -> Handles \cup {None}]
  /\ open \subseteq Handles /\ leaked \subseteq Handles
  /\ connection \in [Sends -> Handles \cup {None}]
  /\ requests \subseteq Sends /\ win_sent \subseteq Sends
  /\ followed \in [Sends -> Nat] /\ arrived \in [Sends -> Nat] /\ length \in [Sends -> Nat]
  /\ win_outcome \in [Sends -> {"none", "response", "transport_error", "invalid_argument",
                                "bad_alloc"}]

\* Who looks at the cache holds the mutex.
WinMutexInv == \A s \in Sends : win_pc[s] \in Searching <=> win_mutex = s

\* The open handles are the cached ones, each of one target, and the lost ones.
CacheInv ==
  /\ \A s \in Sends : win_pc[s] = "connecting" => cached[Target[s]] = None
  /\ \A t \in Targets : cached[t] # None => /\ cached[t] \notin leaked
                                            /\ alive => cached[t] \in open
  /\ \A t, u \in Targets : cached[t] = cached[u] /\ cached[t] # None => t = u
  /\ leaked \subseteq open
  /\ \A h \in open : h \in leaked \/ \E t \in Targets : cached[t] = h
  /\ ~alive => open = leaked

\* A Send works over the connection of its target, on a transport that lives.
WorkInv == \A s \in Sends :
  /\ ~alive => win_pc[s] \in {"idle", "returned"}
  /\ win_pc[s] \in Working => connection[s] = cached[Target[s]] /\ connection[s] # None
  /\ s \in requests <=> win_pc[s] \in Requesting

WinInv == WinMutexInv /\ CacheInv /\ WorkInv
WinIInv == WinTypeOK /\ WinInv

\* Nothing is open or cached at first.
LEMMA WinInitInv == Win!Init => WinIInv
  BY WinAssumption
     DEF Win!Init, Win!ConstantsFit, WinIInv, WinTypeOK, WinInv, WinMutexInv, CacheInv, WorkInv,
         Searching, Working, Requesting

\* Up to the mutex a Send moves nothing but itself.
LEMMA WinBeginInv ==
  ASSUME WinIInv, NEW s \in Sends, Win!Check(s) \/ Win!Lock(s)
  PROVE  WinIInv'
<1> USE DEF WinIInv, WinInv, Win!Goto, Win!Ends, Win!shared, Win!reading, Searching, Working,
            Requesting
<1>1. WinTypeOK'
  BY DEF Win!Check, Win!Lock, WinTypeOK
<1>2. WinMutexInv'
  BY WinAssumption DEF Win!ConstantsFit, Win!Check, Win!Lock, WinTypeOK, WinMutexInv
<1>3. CacheInv'
  BY DEF Win!Check, Win!Lock, WinTypeOK, CacheInv
<1>4. WorkInv'
  BY DEF Win!Check, Win!Lock, WinTypeOK, WorkInv
<1> QED BY <1>1, <1>2, <1>3, <1>4

\* A connection that is found is that of the target, one that is not is made
\* by this Send alone.
LEMMA FindInv ==
  ASSUME WinIInv, NEW s \in Sends, Win!Find(s)
  PROVE  WinIInv'
<1> USE DEF WinIInv, WinInv, Win!Goto, Searching, Working, Requesting
<1> Target[s] \in Targets
  BY WinAssumption DEF Win!ConstantsFit
<1>1. WinTypeOK'
  <2>1. /\ win_pc' = [win_pc EXCEPT ![s] = "connecting"] \/ win_pc' = [win_pc EXCEPT ![s] = "opening"]
        /\ UNCHANGED win_mutex \/ win_mutex' = None
        /\ \/ UNCHANGED connection
           \/ connection' = [connection EXCEPT ![s] = cached[Target[s]]]
        /\ UNCHANGED <<alive, cached, open, leaked, requests, win_sent, followed, arrived, length,
                      win_outcome>>
    BY DEF Win!Find, Win!reading
  <2>2. cached[Target[s]] \in Handles \cup {None}
    BY DEF WinTypeOK
  <2> QED BY <2>1, <2>2 DEF WinTypeOK
<1>2. WinMutexInv'
  BY WinAssumption DEF Win!ConstantsFit, Win!Find, WinTypeOK, WinMutexInv
<1>3. CacheInv'
  BY DEF Win!Find, WinTypeOK, CacheInv
<1>4. WorkInv'
  BY DEF Win!Find, WinTypeOK, WorkInv
<1> QED BY <1>1, <1>2, <1>3, <1>4

LEMMA ConnectInv ==
  ASSUME WinIInv, NEW s \in Sends, Win!Connect(s)
  PROVE  WinIInv'
<1> USE DEF WinIInv, WinInv, Win!Goto, Searching, Working, Requesting
<1>0. /\ Target \in [Sends -> Targets] /\ None \notin Sends /\ None \notin Handles
  BY WinAssumption DEF Win!ConstantsFit
<1>1. PICK h \in Handles \ open :
        /\ open' = open \cup {h}
        /\ cached' = [cached EXCEPT ![Target[s]] = IF @ = None THEN h ELSE @]
        /\ connection' = [connection EXCEPT ![s] = h]
  BY DEF Win!Connect
<1>2. /\ win_pc[s] = "connecting" /\ win_pc' = [win_pc EXCEPT ![s] = "opening"]
      /\ win_mutex' = None /\ win_mutex = s /\ alive
      /\ UNCHANGED <<alive, leaked, requests, win_sent, followed, arrived, length, win_outcome>>
  BY DEF Win!Connect, Win!reading, WinMutexInv, WorkInv, WinTypeOK
<1>3. cached' = [cached EXCEPT ![Target[s]] = h] /\ cached[Target[s]] = None
  BY <1>1, <1>2 DEF CacheInv
<1>4. h \notin leaked /\ \A t \in Targets : cached[t] # h
  BY <1>0, <1>1, <1>2 DEF CacheInv
<1>5. WinTypeOK'
  BY <1>0, <1>1, <1>2, <1>3 DEF WinTypeOK
<1>6. WinMutexInv'
  BY <1>0, <1>2 DEF WinMutexInv, WinTypeOK
<1>7. \A r \in Sends : r # s => win_pc[r] \notin Searching
  BY <1>2 DEF WinMutexInv
<1>8. CacheInv'
  <2>1. \A r \in Sends : win_pc'[r] # "connecting"
    BY <1>2, <1>7 DEF WinTypeOK
  <2>2. \A t \in Targets : cached'[t] = IF t = Target[s] THEN h ELSE cached[t]
    BY <1>0, <1>3 DEF WinTypeOK
  <2>3. \A t \in Targets : cached'[t] # None => cached'[t] \notin leaked' /\ cached'[t] \in open'
    BY <1>1, <1>2, <1>4, <2>2 DEF CacheInv
  <2>4. \A t, u \in Targets : cached'[t] = cached'[u] /\ cached'[t] # None => t = u
    BY <1>4, <2>2 DEF CacheInv
  <2>5. \A g \in open' : g \in leaked' \/ \E t \in Targets : cached'[t] = g
    <3>1. cached'[Target[s]] = h /\ Target[s] \in Targets
      BY <1>0, <2>2
    <3>2. \A g \in open : g \in leaked \/ \E t \in Targets : cached[t] = g /\ t # Target[s]
      BY <1>0, <1>1, <1>3 DEF CacheInv, WinTypeOK
    <3> QED BY <1>1, <1>2, <2>2, <3>1, <3>2
  <2> QED BY <1>1, <1>2, <2>1, <2>3, <2>4, <2>5 DEF CacheInv
<1>9. WorkInv'
  <2>1. ASSUME NEW r \in Sends, r # s, win_pc[r] \in Working
        PROVE  connection'[r] = cached'[Target[r]]
    <3>1. Target[r] # Target[s]
      BY <1>3, <2>1 DEF WorkInv
    <3> QED BY <1>0, <1>1, <1>3, <2>1, <3>1 DEF WorkInv, WinTypeOK
  <2> QED BY <1>0, <1>1, <1>2, <1>3, <2>1 DEF WorkInv, WinTypeOK
<1> QED BY <1>5, <1>6, <1>8, <1>9

\* A failure frees the mutex and caches nothing.
LEMMA ConnectFailsInv ==
  ASSUME WinIInv, NEW s \in Sends, Win!ConnectFails(s) \/ Win!EmplaceThrows(s)
  PROVE  WinIInv'
<1> USE DEF WinIInv, WinInv, Win!Goto, Win!Ends, Searching, Working, Requesting
<1>1. /\ win_pc[s] = "connecting" /\ win_pc' = [win_pc EXCEPT ![s] = "returned"]
      /\ win_mutex' = None
      /\ UNCHANGED <<alive, cached, connection, requests, win_sent, followed, arrived, length>>
      /\ win_outcome' \in [Sends -> {"none", "response", "transport_error", "invalid_argument",
                                     "bad_alloc"}]
  BY DEF Win!ConnectFails, Win!EmplaceThrows, Win!reading, WinTypeOK
<1>2. \/ UNCHANGED <<open, leaked>>
      \/ \E h \in Handles \ open : open' = open \cup {h} /\ leaked' = leaked \cup {h}
  BY DEF Win!ConnectFails, Win!EmplaceThrows
<1>3. alive /\ None \notin Sends
  BY <1>1, WinAssumption DEF WorkInv, Win!ConstantsFit
<1>4. WinTypeOK'
  BY <1>1, <1>2 DEF WinTypeOK
<1>5. WinMutexInv'
  BY <1>1, <1>3 DEF WinMutexInv, WinTypeOK
<1>6. CacheInv'
  BY <1>1, <1>2, <1>3 DEF CacheInv, WinTypeOK
<1>7. WorkInv'
  BY <1>1, <1>3 DEF WorkInv, WinTypeOK
<1> QED BY <1>4, <1>5, <1>6, <1>7

\* With the mutex free a Send moves its own request and response only.
LEMMA RequestInv ==
  ASSUME WinIInv, NEW s \in Sends,
         \/ Win!OpenRequest(s) \/ Win!PrepareFails(s) \/ Win!Transmit(s) \/ Win!Redirect(s)
         \/ Win!Receive(s) \/ Win!Read(s) \/ Win!ReadEnds(s) \/ Win!TransferFails(s) \/ Win!Close(s)
  PROVE  WinIInv'
<1> USE DEF WinIInv, WinInv
<1>1. /\ win_pc[s] \in Working
      /\ \E to \in Requesting \cup {"returned"} : win_pc' = [win_pc EXCEPT ![s] = to]
      /\ UNCHANGED <<alive, win_mutex, cached, open, leaked, connection>>
      /\ \A r \in Sends \ {s} : r \in requests' <=> r \in requests
      /\ s \in requests' <=> win_pc'[s] \in Requesting
      /\ requests' \subseteq Sends /\ win_sent' \subseteq Sends
  BY DEF WinTypeOK, WorkInv, Working, Requesting, Win!Goto, Win!shared,
         Win!OpenRequest, Win!PrepareFails, Win!Transmit, Win!Redirect, Win!Receive, Win!Read,
         Win!ReadEnds, Win!TransferFails, Win!Close
<1>2. /\ followed' \in [Sends -> Nat] /\ arrived' \in [Sends -> Nat]
      /\ length' \in [Sends -> Nat]
  <2>1. CASE Win!Read(s)
    BY <2>1 DEF Win!Read, WinTypeOK
  <2>2. CASE Win!Redirect(s) \/ Win!TransferFails(s)
    BY <2>2 DEF Win!Redirect, Win!TransferFails, WinTypeOK
  <2>3. CASE ~Win!Read(s) /\ ~Win!Redirect(s) /\ ~Win!TransferFails(s)
    BY <2>3 DEF WinTypeOK, Win!reading, Win!OpenRequest, Win!PrepareFails, Win!Transmit,
                Win!Receive, Win!ReadEnds, Win!Close
  <2> QED BY <2>1, <2>2, <2>3
<1>3. win_outcome' \in [Sends -> {"none", "response", "transport_error", "invalid_argument",
                                  "bad_alloc"}]
  <2>1. \/ UNCHANGED win_outcome
        \/ \E o \in {"response", "transport_error", "invalid_argument", "bad_alloc"} :
             win_outcome' = [win_outcome EXCEPT ![s] = o]
    <3>1. CASE \/ Win!OpenRequest(s) \/ Win!PrepareFails(s) \/ Win!Transmit(s)
               \/ Win!Redirect(s) \/ Win!Receive(s)
      BY <3>1 DEF Win!Ends, Win!OpenRequest, Win!PrepareFails, Win!Transmit, Win!Redirect,
                  Win!Receive
    <3>2. CASE Win!Read(s) \/ Win!ReadEnds(s) \/ Win!TransferFails(s) \/ Win!Close(s)
      BY <3>2 DEF Win!Ends, Win!Read, Win!ReadEnds, Win!TransferFails, Win!Close
    <3> QED BY <3>1, <3>2
  <2> QED BY <2>1 DEF WinTypeOK
<1>4. WinTypeOK'
  <2>1. win_pc' \in [Sends -> {"idle", "waiting", "returned"} \cup Searching \cup Working]
    <3>1. Requesting \cup {"returned"} \subseteq {"idle", "waiting", "returned"} \cup Searching \cup Working
      BY DEF Working
    <3> QED BY <1>1, <3>1 DEF WinTypeOK
  <2>2. /\ UNCHANGED <<alive, win_mutex, cached, open, leaked, connection>>
        /\ requests' \subseteq Sends /\ win_sent' \subseteq Sends
    BY <1>1
  <2> QED BY <1>2, <1>3, <2>1, <2>2 DEF WinTypeOK
<1>5. WinMutexInv'
  BY <1>1 DEF WinMutexInv, WinTypeOK, Searching, Working, Requesting
<1>6. CacheInv'
  BY <1>1 DEF CacheInv, WinTypeOK, Requesting
<1>7. WorkInv'
  BY <1>1 DEF WorkInv, WinTypeOK, Working, Requesting
<1> QED BY <1>4, <1>5, <1>6, <1>7

\* The destructor runs when no Send does, and closes what is cached.
LEMMA DestroyInv ==
  ASSUME WinIInv, Win!Destroy
  PROVE  WinIInv'
<1> USE DEF WinIInv, WinInv, Win!Destroy, Win!reading
<1>1. WinTypeOK'
  BY DEF WinTypeOK
<1>2. WinMutexInv'
  BY DEF WinMutexInv
<1>3. open' = leaked
  <2>1. \A h \in leaked : h \in open /\ \A t \in Targets : cached[t] # h
    BY WinAssumption DEF Win!ConstantsFit, CacheInv, WinTypeOK
  <2>2. \A h \in open' : h \in leaked
    BY DEF CacheInv
  <2> QED BY <2>1, <2>2
<1>4. CacheInv'
  BY <1>3 DEF CacheInv
<1>5. WorkInv'
  BY DEF WorkInv
<1> QED BY <1>1, <1>2, <1>4, <1>5

\* No step breaks the invariant.
LEMMA WinNextInv == WinIInv /\ [Win!Next]_(Win!vars) => WinIInv'
<1> SUFFICES ASSUME WinIInv, [Win!Next]_(Win!vars) PROVE WinIInv'
  OBVIOUS
<1>1. CASE UNCHANGED Win!vars
  BY <1>1 DEF Win!vars, Win!shared, Win!reading, WinIInv, WinTypeOK, WinInv, WinMutexInv,
              CacheInv, WorkInv
<1> QED BY <1>1, WinBeginInv, FindInv, ConnectInv, ConnectFailsInv, RequestInv, DestroyInv
        DEF Win!Next, Win!Continue, Win!Destroyed

LEMMA WinInvariance == Win!Spec => []WinIInv
  BY WinInitInv, WinNextInv, PTL DEF Win!Spec

\* The states of the WinHTTP transport are of their types (http_transport.cpp).
THEOREM WinTypeCorrect == Win!Spec => []WinTypeOK
  BY WinInvariance, PTL DEF WinIInv

\* Whatever number of threads, targets and handles there are, no target gets a
\* second connection, and what was opened is closed.
THEOREM ConnectionsAreKept == Win!Spec => []ConnectionsKept
<1>1. WinIInv => ConnectionsKept
  <2> SUFFICES ASSUME WinIInv PROVE ConnectionsKept
    OBVIOUS
  <2>1. Win!OneConnection
    BY WinAssumption
       DEF Win!ConstantsFit, Win!OneConnection, WinIInv, WinInv, WorkInv, CacheInv, Working,
           Requesting, WinTypeOK
  <2>2. Win!HandlesClosed
    BY DEF Win!HandlesClosed, WinIInv, WinInv, WorkInv, CacheInv, Requesting, WinTypeOK
  <2> QED BY <2>1, <2>2 DEF ConnectionsKept, Win!ConnectionsKept
<1> QED BY <1>1, WinInvariance, PTL

-------------------------------------------------------------------------------
(* WinHttpTransport implements HttpTransport. *)

\* What a Send has sent and read, by where it is; the body is cut to what was
\* read.
ReadInv == \A s \in Sends :
  /\ length[s] = arrived[s]
  /\ s \in win_sent => win_pc[s] \in {"sent", "reading", "closing", "returned"}
  /\ win_pc[s] \in {"sent", "reading"} => s \in win_sent
  /\ win_outcome[s] = "response" => /\ win_pc[s] \in {"closing", "returned"}
                                    /\ s \in win_sent

\* The chunk that arrived is the chunk that is kept.
LEMMA ReadInvStep == WinIInv /\ ReadInv /\ [Win!Next]_(Win!vars) => ReadInv'
<1> SUFFICES ASSUME WinIInv, ReadInv, [Win!Next]_(Win!vars) PROVE ReadInv'
  OBVIOUS
<1> USE DEF WinIInv, ReadInv, Win!Goto, Win!Ends, Win!shared, Win!reading
<1>1. ASSUME NEW s \in Sends, Win!Check(s) \/ Win!Lock(s) \/ Win!Find(s) PROVE ReadInv'
  BY <1>1 DEF Win!Check, Win!Lock, Win!Find, WinTypeOK
<1>2. ASSUME NEW s \in Sends, Win!Connect(s) \/ Win!ConnectFails(s) \/ Win!EmplaceThrows(s)
      PROVE  ReadInv'
  BY <1>2 DEF Win!Connect, Win!ConnectFails, Win!EmplaceThrows, WinTypeOK
<1>3. ASSUME NEW s \in Sends, Win!OpenRequest(s) \/ Win!PrepareFails(s) \/ Win!Transmit(s)
      PROVE  ReadInv'
  BY <1>3 DEF Win!OpenRequest, Win!PrepareFails, Win!Transmit, WinTypeOK
<1>4. ASSUME NEW s \in Sends, Win!Redirect(s) \/ Win!Receive(s) PROVE ReadInv'
  BY <1>4 DEF Win!Redirect, Win!Receive, WinTypeOK
<1>5. ASSUME NEW s \in Sends, Win!Read(s) PROVE ReadInv'
  <2>1. PICK available \in 1 .. MaxBody - length[s] : \E received \in 0 .. available :
          LET grown == length[s] + available
          IN /\ length' = [length EXCEPT ![s] = grown - (available - received)]
             /\ arrived' = [arrived EXCEPT ![s] = @ + received]
    BY <1>5 DEF Win!Read
  <2>2. length'[s] = arrived'[s]
    BY <2>1 DEF WinTypeOK
  <2>3. /\ win_pc[s] = "reading" /\ win_pc' = win_pc
        /\ UNCHANGED <<win_sent, win_outcome>>
    BY <1>5 DEF Win!Read, WinTypeOK
  <2>4. \A r \in Sends \ {s} : length'[r] = length[r] /\ arrived'[r] = arrived[r]
    BY <2>1 DEF WinTypeOK
  <2> QED BY <2>2, <2>3, <2>4
<1>6. ASSUME NEW s \in Sends, Win!ReadEnds(s) \/ Win!TransferFails(s) \/ Win!Close(s)
      PROVE  ReadInv'
  BY <1>6 DEF Win!ReadEnds, Win!TransferFails, Win!Close, WinTypeOK
<1>7. CASE Win!Destroy \/ UNCHANGED Win!vars
  BY <1>7 DEF Win!Destroy, Win!vars
<1> QED BY <1>1, <1>2, <1>3, <1>4, <1>5, <1>6, <1>7 DEF Win!Next, Win!Continue, Win!Destroyed

LEMMA ReadInvariance == Win!Spec => [](WinIInv /\ ReadInv)
<1>1. Win!Init => ReadInv
  BY DEF Win!Init, ReadInv
<1> QED BY <1>1, ReadInvStep, WinInvariance, PTL DEF Win!Spec

\* The answer of one Send under the refinement mapping of WinHttpTransport.
WinAnswer(s) == IF win_pc[s] # "returned" THEN None
                ELSE IF win_outcome[s] # "response" THEN "error"
                ELSE IF length[s] = arrived[s] THEN s ELSE "padded"

\* A Send returns: its answer is an error or its own response, and the others
\* are as they were.
LEMMA WinReturns ==
  ASSUME WinIInv, ReadInv', NEW s \in Sends, UNCHANGED <<win_sent, followed>>,
         win_pc[s] # "returned", win_pc'[s] = "returned",
         \A r \in Sends \ {s} : WinAnswer(r)' = WinAnswer(r)
  PROVE  Win!Transport!Next
<1> DEFINE answer == [r \in Sends |-> WinAnswer(r)]
<1>1. answer[s] = None /\ WinAnswer(s)' \in {"error", s}
  BY DEF WinAnswer, ReadInv
<1>2. answer' = [answer EXCEPT ![s] = WinAnswer(s)']
  OBVIOUS
<1>3. WinAnswer(s)' = "error" \/ (WinAnswer(s)' = s /\ s \in win_sent)
  BY <1>1 DEF WinAnswer, ReadInv
<1>4. CASE WinAnswer(s)' = "error"
  <2>1. answer[s] = None /\ answer' = [answer EXCEPT ![s] = "error"]
    BY <1>1, <1>2, <1>4
  <2>2. Win!Transport!Fail(s)
    BY <2>1, ZenonT(60) DEF Win!Transport!Fail, WinAnswer
  <2> QED BY <2>2 DEF Win!Transport!Next
<1>5. CASE WinAnswer(s)' = s /\ s \in win_sent
  <2>1. Win!Transport!Respond(s)
    BY <1>1, <1>2, <1>5 DEF Win!Transport!Respond, WinAnswer
  <2> QED BY <2>1 DEF Win!Transport!Next
<1> QED BY <1>3, <1>4, <1>5

\* A step that sends nothing, follows no redirect and ends no Send changes
\* nothing for the callers.
LEMMA WinQuiet ==
  ASSUME UNCHANGED <<win_sent, followed>>, \A r \in Sends : WinAnswer(r)' = WinAnswer(r)
  PROVE  UNCHANGED Win!Transport!vars
  BY DEF Win!Transport!vars, WinAnswer

\* Every step is a step of the abstract transport or leaves it alone.
LEMMA WinNextRefines ==
  WinIInv /\ ReadInv /\ ReadInv' /\ [Win!Next]_(Win!vars) =>
    [Win!Transport!Next]_(Win!Transport!vars)
<1> SUFFICES ASSUME WinIInv, ReadInv, ReadInv', [Win!Next]_(Win!vars)
             PROVE  [Win!Transport!Next]_(Win!Transport!vars)
  OBVIOUS
<1> USE DEF WinIInv, Win!Goto, Win!Ends, Win!shared, Win!reading
<1>1. ASSUME NEW s \in Sends, Win!Transmit(s)
      PROVE  Win!Transport!Next
  <2>1. /\ win_pc[s] = "ready" /\ win_pc' = [win_pc EXCEPT ![s] = "sent"]
        /\ win_sent' = win_sent \cup {s} /\ UNCHANGED <<followed, arrived, length, win_outcome>>
    BY <1>1 DEF Win!Transmit
  <2>2. s \notin win_sent
    BY <2>1 DEF ReadInv
  <2>3. \A r \in Sends : WinAnswer(r)' = WinAnswer(r)
    BY <2>1 DEF WinAnswer, WinTypeOK
  <2>4. WinAnswer(s) = None
    BY <2>1 DEF WinAnswer
  <2>5. Win!Transport!Transmit(s)
    BY <2>1, <2>2, <2>3, <2>4 DEF Win!Transport!Transmit, WinAnswer
  <2> QED BY <2>5 DEF Win!Transport!Next
<1>2. ASSUME NEW s \in Sends,
             \/ Win!ConnectFails(s) \/ Win!EmplaceThrows(s) \/ Win!Close(s)
             \/ (Win!Check(s) \/ Win!OpenRequest(s)) /\ win_pc'[s] = "returned"
      PROVE  Win!Transport!Next
  <2>1. /\ win_pc[s] # "returned" /\ win_pc'[s] = "returned"
        /\ UNCHANGED <<win_sent, followed, arrived, length>>
        /\ \A r \in Sends \ {s} : win_pc'[r] = win_pc[r] /\ win_outcome'[r] = win_outcome[r]
    BY <1>2 DEF Win!ConnectFails, Win!EmplaceThrows, Win!Close, Win!Check, Win!OpenRequest, WinTypeOK
  <2> QED BY <2>1, WinReturns DEF WinAnswer
<1>3. ASSUME NEW s \in Sends, Win!Redirect(s)
      PROVE  Win!Transport!Next
  <2>1. /\ win_pc[s] = "sent" /\ followed[s] < MaxRedirects
        /\ followed' = [followed EXCEPT ![s] = @ + 1]
        /\ UNCHANGED <<win_pc, win_sent, arrived, length, win_outcome>>
    BY <1>3 DEF Win!Redirect, WinTypeOK
  <2>2. s \in win_sent /\ WinAnswer(s) = None
    BY <2>1 DEF ReadInv, WinAnswer
  <2>3. Win!Transport!Redirect(s)
    BY <2>1, <2>2 DEF Win!Transport!Redirect, WinAnswer
  <2> QED BY <2>3 DEF Win!Transport!Next
<1>4. ASSUME NEW s \in Sends,
             \/ Win!Lock(s) \/ Win!Find(s) \/ Win!Connect(s) \/ Win!PrepareFails(s)
             \/ Win!Receive(s) \/ Win!Read(s) \/ Win!ReadEnds(s) \/ Win!TransferFails(s)
             \/ (Win!Check(s) \/ Win!OpenRequest(s)) /\ win_pc'[s] # "returned"
      PROVE  UNCHANGED Win!Transport!vars
  <2>1. /\ win_pc[s] # "returned" /\ win_pc'[s] # "returned"
        /\ UNCHANGED <<win_sent, followed>>
        /\ \A r \in Sends \ {s} : /\ win_pc'[r] = win_pc[r] /\ win_outcome'[r] = win_outcome[r]
                                  /\ length'[r] = length[r] /\ arrived'[r] = arrived[r]
    BY <1>4 DEF Win!Lock, Win!Find, Win!Connect, Win!PrepareFails, Win!Receive, Win!Read,
                Win!ReadEnds, Win!TransferFails, Win!Check, Win!OpenRequest, WinTypeOK
  <2> QED BY <2>1, WinQuiet DEF WinAnswer
<1>5. CASE Win!Destroy \/ UNCHANGED Win!vars
  BY <1>5, WinQuiet DEF Win!Destroy, Win!vars, WinAnswer
<1> QED BY <1>1, <1>2, <1>3, <1>4, <1>5 DEF Win!Next, Win!Continue, Win!Destroyed

\* Sends over cached connections implement a transport of independent requests:
\* each goes out at most once, with the redirects WinHTTP follows after it, and
\* the body of a response is exactly what was read of the last one.  That the
\* server meant to say no more is not claimed: the code takes the first time
\* nothing is available for the end (http_transport.cpp:133).
THEOREM WinTransportImplemented == Win!Spec => WinImplementsTransport
<1>1. Win!Init => Win!Transport!Init
  BY DEF Win!Init, Win!Transport!Init
<1> QED BY <1>1, WinNextRefines, ReadInvariance, PTL
        DEF Win!Spec, WinImplementsTransport, Win!ImplementsTransport, Win!Transport!Spec
================================================================================
