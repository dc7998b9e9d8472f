--------------------- MODULE BoundedBlockingQueueProofs ---------------------
(***************************************************************************)
(* Theorems of BoundedBlockingQueue, for every finite set of threads and   *)
(* every capacity: no notification is lost.  Each of the two invariants    *)
(* counts the threads that are awake against the work there is for them; a *)
(* put() removes one awake producer and one free place, and brings one     *)
(* element and, if somebody sleeps, one awake consumer; a take mirrors it. *)
(***************************************************************************)
EXTENDS BoundedBlockingQueue, FiniteSetTheorems, TLAPS

IInv == TypeOK /\ NoElementSleptOn /\ NoPlaceSleptOn

-----------------------------------------------------------------------------
LEMMA ReadyFinite ==
    /\ IsFiniteSet(ReadyTakers) /\ Cardinality(ReadyTakers) \in Nat
    /\ IsFiniteSet(ReadyPutters) /\ Cardinality(ReadyPutters) \in Nat
<1>1. ReadyTakers \subseteq Threads /\ ReadyPutters \subseteq Threads
  BY DEF ReadyTakers, ReadyPutters
<1> QED BY <1>1, QueueAssumption, FS_Subset, FS_CardinalityType

\* More threads ready can only help.
LEMMA MoreReady ==
    ASSUME IInv, TypeOK', UNCHANGED queue_,
           notEmpty_' \subseteq notEmpty_, notFull_' \subseteq notFull_,
           ReadyTakers \subseteq ReadyTakers', ReadyPutters \subseteq ReadyPutters'
    PROVE  IInv'
<1>1. ReadyTakers' \subseteq Threads /\ ReadyPutters' \subseteq Threads
  BY DEF ReadyTakers, ReadyPutters
<1>2. IsFiniteSet(ReadyTakers') /\ IsFiniteSet(ReadyPutters')
  BY <1>1, QueueAssumption, FS_Subset
<1>3. /\ Cardinality(ReadyTakers) <= Cardinality(ReadyTakers')
      /\ Cardinality(ReadyPutters) <= Cardinality(ReadyPutters')
      /\ Cardinality(ReadyTakers') \in Nat
      /\ Cardinality(ReadyPutters') \in Nat
  BY <1>2, FS_Subset, FS_CardinalityType
<1>4. Len(queue_) \in Nat /\ maxSize_ \in Nat
  BY QueueAssumption DEF IInv, TypeOK
<1>5. NoElementSleptOn'
  BY <1>3, <1>4, ReadyFinite DEF IInv, NoElementSleptOn
<1>6. NoPlaceSleptOn'
  BY <1>3, <1>4, ReadyFinite DEF IInv, NoPlaceSleptOn
<1> QED BY <1>5, <1>6 DEF IInv

\* notify() leaves the condition as it is when nobody sleeps, and takes
\* exactly one thread out otherwise.
LEMMA NotifyTakesOne ==
    ASSUME NEW cond, NEW after \in Notify(cond)
    PROVE  \/ cond = {} /\ after = {}
           \/ \E u \in cond : after = cond \ {u}
BY DEF Notify

-----------------------------------------------------------------------------
LEMMA Initially == Init => IInv
<1> SUFFICES ASSUME Init PROVE IInv
  OBVIOUS
<1>1. TypeOK
  BY QueueAssumption DEF Init, TypeOK, Takes
<1> QED BY <1>1 DEF Init, IInv, NoElementSleptOn, NoPlaceSleptOn

LEMMA BeginKeepsIInv ==
    ASSUME IInv, NEW t \in Threads, begin(t)
    PROVE  IInv'
<1>1. call[t] = "none" /\ t \notin notEmpty_ /\ t \notin notFull_
  BY DEF begin, IInv, TypeOK, Takes
<1>2. PICK c \in {"put"} \cup Takes : call' = [call EXCEPT ![t] = c]
  BY DEF begin
<1>3. TypeOK'
  BY <1>1, <1>2 DEF begin, IInv, TypeOK, Takes
<1>4. ReadyTakers \subseteq ReadyTakers' /\ ReadyPutters \subseteq ReadyPutters'
  BY <1>1, <1>2 DEF begin, IInv, TypeOK, ReadyTakers, ReadyPutters, Takes
<1> QED BY <1>3, <1>4, MoreReady DEF begin

LEMMA WakeUpKeepsIInv ==
    ASSUME IInv, NEW t \in Threads, timeTakeExpires(t) \/ spuriousWakeup(t)
    PROVE  IInv'
<1>1. /\ notEmpty_' \subseteq notEmpty_ /\ notFull_' \subseteq notFull_
      /\ UNCHANGED <<queue_, call, puts, taken>>
  BY DEF timeTakeExpires, spuriousWakeup
<1>2. TypeOK'
  BY <1>1 DEF IInv, TypeOK
<1>3. ReadyTakers \subseteq ReadyTakers' /\ ReadyPutters \subseteq ReadyPutters'
  BY <1>1 DEF ReadyTakers, ReadyPutters
<1> QED BY <1>1, <1>2, <1>3, MoreReady

LEMMA PutWaitsKeepsIInv ==
    ASSUME IInv, NEW t \in Threads, putWaits(t)
    PROVE  IInv'
<1>1. TypeOK'
  BY DEF IInv, TypeOK, putWaits
<1>2. ReadyTakers' = ReadyTakers
  BY DEF ReadyTakers, putWaits
<1>3. NoElementSleptOn'
  BY <1>2 DEF IInv, NoElementSleptOn, putWaits
<1>4. ReadyPutters' \subseteq Threads
  BY DEF ReadyPutters
<1>5. Cardinality(ReadyPutters') \in Nat
  BY <1>4, QueueAssumption, FS_Subset, FS_CardinalityType
<1>6. maxSize_ - Len(queue_') = 0
  BY QueueAssumption DEF putWaits, Full
<1>7. NoPlaceSleptOn'
  BY <1>5, <1>6 DEF NoPlaceSleptOn
<1> QED BY <1>1, <1>3, <1>7 DEF IInv

LEMMA TakeWaitsKeepsIInv ==
    ASSUME IInv, NEW t \in Threads, takeWaits(t)
    PROVE  IInv'
<1>1. TypeOK'
  BY DEF IInv, TypeOK, takeWaits
<1>2. ReadyPutters' = ReadyPutters
  BY DEF ReadyPutters, takeWaits
<1>3. NoPlaceSleptOn'
  BY <1>2 DEF IInv, NoPlaceSleptOn, takeWaits
<1>4. ReadyTakers' \subseteq Threads
  BY DEF ReadyTakers
<1>5. Cardinality(ReadyTakers') \in Nat
  BY <1>4, QueueAssumption, FS_Subset, FS_CardinalityType
<1>6. Len(queue_') = 0
  BY DEF takeWaits
<1>7. NoElementSleptOn'
  BY <1>5, <1>6 DEF NoElementSleptOn
<1> QED BY <1>1, <1>3, <1>7 DEF IInv

LEMMA PutKeepsIInv ==
    ASSUME IInv, NEW t \in Threads, put(t)
    PROVE  IInv'
<1>1. /\ Len(queue_') = Len(queue_) + 1 /\ Len(queue_) \in Nat
      /\ queue_' \in Seq(Nat)
      /\ Len(queue_) < maxSize_ /\ maxSize_ \in Nat
  BY QueueAssumption DEF IInv, TypeOK, put, Full
<1>2. call[t] = "put" /\ t \in ReadyPutters /\ call'[t] = "none"
  BY DEF IInv, TypeOK, put, Ready, ReadyPutters, Returns
<1>3. ReadyPutters' = ReadyPutters \ {t}
  BY <1>2 DEF IInv, TypeOK, put, ReadyPutters, Returns
<1>4. Cardinality(ReadyPutters') = Cardinality(ReadyPutters) - 1
  BY <1>2, <1>3, ReadyFinite, FS_RemoveElement
<1>5. notEmpty_' \subseteq notEmpty_
  BY NotifyTakesOne DEF put
<1>6. TypeOK'
  BY <1>1, <1>2, <1>5 DEF IInv, TypeOK, put, Returns, Ready, Takes
<1>7. NoPlaceSleptOn'
  BY <1>1, <1>4, ReadyFinite DEF IInv, NoPlaceSleptOn, put
<1>8. NoElementSleptOn'
  <2>1. CASE notEmpty_ = {}
    BY <1>5, <2>1 DEF NoElementSleptOn
  <2>2. CASE notEmpty_ # {}
    <3>1. PICK u \in notEmpty_ : notEmpty_' = notEmpty_ \ {u}
      BY <2>2, NotifyTakesOne DEF put
    <3>2. u \notin ReadyTakers /\ u # t /\ call[u] \in Takes /\ u \in Threads
      BY <1>2 DEF ReadyTakers, IInv, TypeOK, Takes
    <3>3. ReadyTakers' = ReadyTakers \cup {u}
      BY <1>2, <3>1, <3>2 DEF IInv, TypeOK, put, Returns, ReadyTakers, Takes
    <3>4. Cardinality(ReadyTakers') = Cardinality(ReadyTakers) + 1
      BY <3>2, <3>3, ReadyFinite, FS_AddElement
    <3> QED BY <1>1, <2>2, <3>4, ReadyFinite DEF IInv, NoElementSleptOn
  <2> QED BY <2>1, <2>2
<1> QED BY <1>6, <1>7, <1>8 DEF IInv

LEMMA TakeKeepsIInv ==
    ASSUME IInv, NEW t \in Threads, take(t)
    PROVE  IInv'
<1>1. /\ Len(queue_') = Len(queue_) - 1 /\ Len(queue_) \in Nat
      /\ queue_' \in Seq(Nat)
      /\ Len(queue_) <= maxSize_ /\ maxSize_ \in Nat
  BY QueueAssumption DEF IInv, TypeOK, take
<1>2. call[t] \in Takes /\ t \in ReadyTakers /\ call'[t] = "none"
  BY DEF IInv, TypeOK, take, Ready, ReadyTakers, Returns
<1>3. ReadyTakers' = ReadyTakers \ {t}
  BY <1>2 DEF IInv, TypeOK, take, ReadyTakers, Returns, Takes
<1>4. Cardinality(ReadyTakers') = Cardinality(ReadyTakers) - 1
  BY <1>2, <1>3, ReadyFinite, FS_RemoveElement
<1>5. notFull_' \subseteq notFull_
  BY NotifyTakesOne DEF take
<1>6. TypeOK'
  BY <1>1, <1>2, <1>5 DEF IInv, TypeOK, take, Returns, Ready, Takes
<1>7. NoElementSleptOn'
  BY <1>1, <1>4, ReadyFinite DEF IInv, NoElementSleptOn, take
<1>8. NoPlaceSleptOn'
  <2>1. CASE notFull_ = {}
    BY <1>5, <2>1 DEF NoPlaceSleptOn
  <2>2. CASE notFull_ # {}
    <3>1. PICK u \in notFull_ : notFull_' = notFull_ \ {u}
      BY <2>2, NotifyTakesOne DEF take
    <3>2. u \notin ReadyPutters /\ u # t /\ call[u] = "put" /\ u \in Threads
      BY <1>2 DEF ReadyPutters, IInv, TypeOK, Takes
    <3>3. ReadyPutters' = ReadyPutters \cup {u}
      BY <1>2, <3>1, <3>2 DEF IInv, TypeOK, take, Returns, ReadyPutters, Takes
    <3>4. Cardinality(ReadyPutters') = Cardinality(ReadyPutters) + 1
      BY <3>2, <3>3, ReadyFinite, FS_AddElement
    <3> QED BY <1>1, <2>2, <3>4, ReadyFinite DEF IInv, NoPlaceSleptOn
  <2> QED BY <2>1, <2>2
<1> QED BY <1>6, <1>7, <1>8 DEF IInv

-----------------------------------------------------------------------------
LEMMA Inductive == Spec => []IInv
<1>1. IInv /\ [Next]_vars => IInv'
  <2> SUFFICES ASSUME IInv, [Next]_vars PROVE IInv'
    OBVIOUS
  <2>1. ASSUME NEW t \in Threads,
               begin(t) \/ Pass(t) \/ timeTakeExpires(t) \/ spuriousWakeup(t)
        PROVE  IInv'
    BY <2>1, BeginKeepsIInv, WakeUpKeepsIInv, PutWaitsKeepsIInv, PutKeepsIInv,
       TakeWaitsKeepsIInv, TakeKeepsIInv DEF Pass
  <2>2. CASE UNCHANGED vars
    BY <2>2 DEF vars, IInv, TypeOK, NoElementSleptOn, NoPlaceSleptOn,
                ReadyTakers, ReadyPutters
  <2> QED BY <2>1, <2>2 DEF Next
<1> QED BY <1>1, Initially, PTL DEF Spec

\* No element waits while the consumers that could take it sleep.
THEOREM ElementsNotSleptOn == Spec => []NoElementSleptOn
BY Inductive, PTL DEF IInv

\* No free place waits while the producers that could fill it sleep.
THEOREM PlacesNotSleptOn == Spec => []NoPlaceSleptOn
BY Inductive, PTL DEF IInv

-----------------------------------------------------------------------------
(* The queue without a limit. *)

\* What a consumer does is a take to it, timed or not.
seen == [t \in Threads |-> IF call[t] = "timeTake" THEN "take" ELSE call[t]]

LEMMA SeenCalls ==
    ASSUME TypeOK, NEW t \in Threads
    PROVE  /\ seen[t] = "none" <=> call[t] = "none"
           /\ seen[t] = "put" <=> call[t] = "put"
           /\ seen[t] = "take" <=> call[t] \in Takes
BY DEF seen, TypeOK, Takes

LEMMA SeenChange ==
    ASSUME TypeOK, NEW t \in Threads, NEW c \in {"none", "put"} \cup Takes,
           call' = [call EXCEPT ![t] = c]
    PROVE  seen' = [seen EXCEPT ![t] = IF c = "timeTake" THEN "take" ELSE c]
BY DEF seen, TypeOK

LEMMA ReadyWhenSeen ==
    ASSUME TypeOK, NEW t \in Threads, Ready(t)
    PROVE  seen[t] # "none" /\ t \notin notEmpty_
BY SeenCalls DEF Ready

LEMMA NotifiesOne ==
    ASSUME notEmpty_' \in Notify(notEmpty_)
    PROVE  Unbounded!NotifyOne
BY DEF Notify, Unbounded!NotifyOne

LEMMA StepIsQueueStep ==
    ASSUME TypeOK, [Next]_vars
    PROVE  [Unbounded!Next]_(Unbounded!vars)
<1> USE DEF Unbounded!vars
<1>1. ASSUME NEW t \in Threads, begin(t)
      PROVE  Unbounded!begin(t)
  <2>1. PICK c \in {"put"} \cup Takes : call' = [call EXCEPT ![t] = c]
    BY <1>1 DEF begin
  <2>2. seen' = [seen EXCEPT ![t] = IF c = "timeTake" THEN "take" ELSE c]
    BY <2>1, SeenChange
  <2>3. seen[t] = "none"
    BY <1>1, SeenCalls DEF begin
  <2>4. (IF c = "timeTake" THEN "take" ELSE c) \in {"put", "take"}
    BY DEF Takes
  <2> QED BY <1>1, <2>2, <2>3, <2>4 DEF begin, Unbounded!begin, Unbounded!Calls, seen
<1>2. ASSUME NEW t \in Threads, put(t)
      PROVE  Unbounded!put(t)
  <2>1. seen' = [seen EXCEPT ![t] = "none"]
    BY <1>2, SeenChange DEF put, Returns
  <2>2. seen[t] = "put" /\ t \notin notEmpty_
    BY <1>2, SeenCalls, ReadyWhenSeen DEF put
  <2>3. Unbounded!NotifyOne
    BY <1>2, NotifiesOne DEF put
  <2> QED BY <1>2, <2>1, <2>2, <2>3 DEF put, Unbounded!put, Unbounded!Ready, Unbounded!Calls, seen
<1>3. ASSUME NEW t \in Threads, takeWaits(t)
      PROVE  Unbounded!takeWaits(t)
  <2>1. seen[t] = "take" /\ t \notin notEmpty_
    BY <1>3, SeenCalls, ReadyWhenSeen DEF takeWaits
  <2> QED BY <1>3, <2>1 DEF takeWaits, Unbounded!takeWaits, Unbounded!Ready, seen
<1>4. ASSUME NEW t \in Threads, take(t)
      PROVE  Unbounded!take(t)
  <2>1. seen' = [seen EXCEPT ![t] = "none"]
    BY <1>4, SeenChange DEF take, Returns
  <2>2. seen[t] = "take" /\ t \notin notEmpty_
    BY <1>4, SeenCalls, ReadyWhenSeen DEF take
  <2> QED BY <1>4, <2>1, <2>2 DEF take, Unbounded!take, Unbounded!Ready, Unbounded!Calls, seen
<1>5. ASSUME NEW t \in Threads, timeTakeExpires(t)
      PROVE  Unbounded!spuriousWakeup(t)
  BY <1>5 DEF timeTakeExpires, Unbounded!spuriousWakeup
<1>6. ASSUME NEW t \in Threads, spuriousWakeup(t)
      PROVE  Unbounded!spuriousWakeup(t) \/ UNCHANGED Unbounded!vars
  <2>1. CASE t \in notEmpty_
    BY <1>6, <2>1 DEF spuriousWakeup, Unbounded!spuriousWakeup
  <2>2. CASE t \notin notEmpty_
    BY <1>6, <2>2 DEF spuriousWakeup
  <2> QED BY <2>1, <2>2
<1>7. ASSUME NEW t \in Threads, putWaits(t)
      PROVE  UNCHANGED Unbounded!vars
  BY <1>7 DEF putWaits
<1>8. CASE UNCHANGED vars
  BY <1>8 DEF vars
<1> QED BY <1>1, <1>2, <1>3, <1>4, <1>5, <1>6, <1>7, <1>8 DEF Next, Pass, Unbounded!Next

\* To those who use it, a bounded queue is a queue without a limit: every step
\* is one of its steps or changes nothing it shows (the safety half of
\* ImplementsUnbounded).
THEOREM BoundedIsUnbounded == Spec => Unbounded!Spec
<1>1. Init => Unbounded!Init
  BY DEF Init, Unbounded!Init
<1>2. IInv => TypeOK
  BY DEF IInv
<1> QED BY <1>1, <1>2, Inductive, StepIsQueueStep, PTL DEF Spec, Unbounded!Spec
=============================================================================
