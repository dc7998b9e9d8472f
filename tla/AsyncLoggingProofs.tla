------------------------- MODULE AsyncLoggingProofs -------------------------
(***************************************************************************)
(* Theorems of AsyncLogging, for every buffer size, set of message lengths *)
(* and drop threshold of at least two.  First its types and assertions:    *)
(* the heart of the matter is the accounting of buffers in Spares.  The    *)
(* front end leaves nextBuffer_ null only with a full buffer queued, so a  *)
(* batch that had to give up both spares holds at least two buffers to     *)
(* replace them with.  Then where the lines are:                           *)
(*   NothingVanishes    each line ever appended is in the file, in a       *)
(*                      buffer on its way there, or in one of the two sets *)
(*                      of lines given up;                                 *)
(*   InOrderOnce        what is in the file and in the buffers is in the   *)
(*                      order of the calls;                                *)
(*   ImplementsChannel  the file, what is pending and the number of calls  *)
(*                      behave as the abstract LogChannel;                 *)
(*   DropsAreAnnounced  the file says where lines were dropped.            *)
(* These are proved place by place - the batch, the full buffers, the      *)
(* current one - and need Spares as well: a buffer that is taken over or   *)
(* taken back has no lines in it, and the batch is empty while no batch is *)
(* being written.                                                          *)
(***************************************************************************)
EXTENDS AsyncLogging, SequenceLemmas, FiniteSetTheorems

\* Where the owner and the backend can be relative to each other.
Handshake ==
    /\ owner = "idle" => pc = "unborn"
    /\ pc \in {"unborn", "born"} => threadLatch = 1
    /\ pc \in {"unborn", "born", "begin"} => latch_ = 1
    /\ pc \in {"born", "begin"} => running_
    /\ owner \in {"started", "notify", "join", "stopped"} => latch_ = 0

\* Whose hands the two spare buffers are in.
Spares ==
    /\ nextBuffer_ \in {NoBuffer, EmptyBuffer}
    /\ nextBuffer_ = NoBuffer => buffers_ # <<>>
    /\ pc \notin {"drop", "write"} => buffersToWrite = <<>>
    /\ pc \in {"test", "lock", "timeWait", "woken"} =>
         newBuffer1 = EmptyBuffer /\ newBuffer2 = EmptyBuffer
    /\ pc \in {"drop", "write"} =>
         /\ newBuffer1 = NoBuffer /\ newBuffer2 \in {NoBuffer, EmptyBuffer}
         /\ Len(buffersToWrite) >= 1
         /\ newBuffer2 = NoBuffer => Len(buffersToWrite) >= 2

IInv == TypeOK /\ Handshake /\ Spares

-----------------------------------------------------------------------------
(* The operations of FixedBuffer. *)

LEMMA EmptyBufferType == EmptyBuffer \in Buffers(Nat)
BY SizeAssumption DEF EmptyBuffer, Buffers

LEMMA EmptyIsBuffer == EmptyBuffer # NoBuffer
BY EmptyBufferType, AsyncAssumption

LEMMA AppendToType ==
    ASSUME NEW b \in Buffers(Nat), NEW line \in Nat, NEW len \in Nat
    PROVE  AppendTo(b, line, len) \in Buffers(Nat)
<1>1. CASE Avail(b) > len
  <2>1. Append(b.data, line) \in Seq(Nat)
    BY DEF Buffers
  <2>2. b.length + len \in 0 .. SIZE - 1
    BY <1>1, SizeAssumption DEF Buffers, Avail
  <2> QED BY <1>1, <2>1, <2>2 DEF AppendTo, Buffers
<1>2. CASE ~ Avail(b) > len
  BY <1>2 DEF AppendTo
<1> QED BY <1>1, <1>2

LEMMA ResetEmpties ==
    ASSUME NEW b \in Buffers(Nat)
    PROVE  Reset(b) = EmptyBuffer
BY DEF Reset

\* What the end of the loop keeps of a batch.
LEMMA KeptProperties ==
    ASSUME NEW S, NEW bufs \in Seq(S)
    PROVE  /\ Kept(bufs) \in Seq(S)
           /\ Len(bufs) >= 1 => Len(Kept(bufs)) >= 1
           /\ Len(bufs) >= 2 => Len(Kept(bufs)) >= 2
           /\ Len(Kept(bufs)) <= 2
<1>1. CASE Len(bufs) > 2
  <2>1. \A k \in 1 .. 2 : bufs[k] \in S
    BY <1>1
  <2>2. SubSeq(bufs, 1, 2) \in Seq(S) /\ Len(SubSeq(bufs, 1, 2)) = 2
    BY <2>1, SubSeqProperties
  <2> QED BY <1>1, <2>2 DEF Kept
<1>2. CASE ~ Len(bufs) > 2
  BY <1>2 DEF Kept
<1> QED BY <1>1, <1>2

-----------------------------------------------------------------------------
LEMMA Initially == Init => IInv
<1> SUFFICES ASSUME Init PROVE IInv
  OBVIOUS
<1>1. TypeOK
  <2>1. running_ \in BOOLEAN
    BY DEF Init
  <2> QED BY <2>1, EmptyBufferType DEF Init, TypeOK, OwnerStates, BackendStates
<1>2. Handshake
  BY DEF Init, Handshake
<1>3. Spares
  BY EmptyIsBuffer DEF Init, Spares
<1> QED BY <1>1, <1>2, <1>3 DEF IInv

LEMMA AppendKeepsIInv ==
    ASSUME IInv, NEW len \in MessageLens, append(len)
    PROVE  IInv'
<1> DEFINE line == appended + 1
           fresh == IF nextBuffer_ # NoBuffer THEN nextBuffer_ ELSE EmptyBuffer
<1>1. len \in Nat /\ line \in Nat
  BY AsyncAssumption DEF IInv, TypeOK
<1>2. CASE appendFits(len)
  <2>1. currentBuffer_' \in Buffers(Nat)
    BY <1>1, <1>2, AppendToType DEF IInv, TypeOK, appendFits
  <2> QED
    BY <1>1, <1>2, <2>1
    DEF append, appendFits, IInv, TypeOK, Handshake, Spares,
        backVars, fileVars, ownerVars
<1>3. CASE appendSwitches(len)
  <2>1. fresh \in Buffers(Nat)
    BY EmptyBufferType DEF IInv, TypeOK
  <2>2. currentBuffer_' \in Buffers(Nat)
    BY <1>1, <1>3, <2>1, AppendToType DEF appendSwitches
  <2>3. buffers_' \in Seq(Buffers(Nat)) /\ buffers_' # <<>>
    BY <1>3 DEF appendSwitches, IInv, TypeOK
  <2>4. refused' \subseteq Nat
    BY <1>1, <1>3 DEF appendSwitches, IInv, TypeOK
  <2>5. pc' = (IF pc = "timeWait" THEN "woken" ELSE pc)
    BY <1>3 DEF appendSwitches, Notified
  <2>6. TypeOK'
    BY <1>1, <1>3, <2>2, <2>3, <2>4, <2>5
    DEF append, appendSwitches, IInv, TypeOK, BackendStates,
        backVars, fileVars, ownerVars
  <2>7. Handshake'
    BY <1>3, <2>5 DEF append, IInv, Handshake, ownerVars
  <2>8. Spares'
    BY <1>3, <2>3, <2>5 DEF append, appendSwitches, IInv, Spares, backVars
  <2> QED BY <2>6, <2>7, <2>8 DEF IInv
<1> QED BY <1>2, <1>3 DEF append

LEMMA OwnerKeepsIInv == IInv /\ Owner => IInv'
<1> SUFFICES ASSUME IInv, Owner PROVE IInv'
  OBVIOUS
<1> USE DEF IInv, TypeOK, Handshake, Spares, OwnerStates, BackendStates,
            frontVars, backVars, fileVars, histVars
<1>1. CASE start
  BY <1>1 DEF start
<1>2. CASE startFails
  BY <1>2 DEF startFails
<1>3. CASE threadStarted
  BY <1>3 DEF threadStarted
<1>4. CASE startReturns
  BY <1>4 DEF startReturns
<1>5. CASE stop
  <2>1. pc \notin {"born", "begin"}
    BY <1>5 DEF stop
  <2>2. running_' \in BOOLEAN
    BY <1>5 DEF stop
  <2> QED BY <1>5, <2>1, <2>2 DEF stop
<1>6. CASE stopNotifies
  BY <1>6 DEF stopNotifies, Notified
<1>7. CASE stopReturns
  BY <1>7 DEF stopReturns
<1> QED BY <1>1, <1>2, <1>3, <1>4, <1>5, <1>6, <1>7 DEF Owner, ownerSteps

-----------------------------------------------------------------------------
LEMMA SwapKeepsIInv == IInv /\ swap => IInv'
<1> SUFFICES ASSUME IInv, swap PROVE IInv'
  OBVIOUS
<1>1. newBuffer1 = EmptyBuffer /\ newBuffer2 = EmptyBuffer
  BY DEF IInv, Spares, swap
<1>2. /\ buffersToWrite' \in Seq(Buffers(Nat))
      /\ Len(buffersToWrite') = Len(buffers_) + 1
  BY DEF IInv, TypeOK, swap, Batch
<1>3. nextBuffer_ = NoBuffer => Len(buffers_) >= 1
  BY DEF IInv, TypeOK, Spares
<1>4. Len(buffers_) \in Nat
  BY DEF IInv, TypeOK
<1>5. TypeOK'
  BY <1>1, <1>2, EmptyBufferType
  DEF IInv, TypeOK, swap, BackendStates, fileVars, ownerVars, histVars
<1>6. Handshake'
  BY DEF IInv, Handshake, swap, ownerVars
<1>7. CASE nextBuffer_ = NoBuffer
  <2>1. nextBuffer_' = EmptyBuffer /\ newBuffer2' = NoBuffer
    BY <1>1, <1>7 DEF swap
  <2> QED BY <1>2, <1>3, <1>4, <1>5, <1>6, <1>7, <2>1, EmptyIsBuffer
          DEF IInv, Spares, swap
<1>8. CASE nextBuffer_ # NoBuffer
  <2>1. nextBuffer_' = EmptyBuffer /\ newBuffer2' = EmptyBuffer
    BY <1>1, <1>8 DEF swap, IInv, Spares
  <2> QED BY <1>2, <1>4, <1>5, <1>6, <2>1, EmptyIsBuffer
          DEF IInv, Spares, swap
<1> QED BY <1>7, <1>8

LEMMA LinesAreNumbers ==
    ASSUME NEW bufs \in Seq(Buffers(Nat))
    PROVE  LinesIn(bufs) \subseteq Nat
<1>1. ASSUME NEW k \in DOMAIN bufs
      PROVE  ToSet(bufs[k].data) \subseteq Nat
  <2>1. bufs[k] \in Buffers(Nat)
    OBVIOUS
  <2>2. bufs[k].data \in Seq(Nat)
    BY <2>1 DEF Buffers
  <2> QED BY <2>2 DEF ToSet
<1> QED BY <1>1 DEF LinesIn

LEMMA DropKeepsIInv == IInv /\ dropExcess => IInv'
<1> SUFFICES ASSUME IInv, dropExcess PROVE IInv'
  OBVIOUS
<1> USE DEF IInv, dropExcess
<1>1. Handshake'
  BY DEF Handshake, ownerVars
<1>2. CASE Len(buffersToWrite) > MaxBuffersToWrite
  <2>1. buffersToWrite' = SubSeq(buffersToWrite, 1, 2)
    BY <1>2, AsyncAssumption DEF TypeOK
  <2>2. Len(buffersToWrite) >= 3 /\ Len(buffersToWrite) \in Nat
    BY <1>2, AsyncAssumption DEF TypeOK
  <2>3. buffersToWrite' \in Seq(Buffers(Nat)) /\ Len(buffersToWrite') = 2
    BY <2>1, <2>2 DEF TypeOK
  <2>4. SubSeq(buffersToWrite, 3, Len(buffersToWrite)) \in Seq(Buffers(Nat))
    BY <2>2 DEF TypeOK
  <2>5. dropped' \subseteq Nat
    BY <1>2, <2>4, LinesAreNumbers, AsyncAssumption DEF TypeOK
  <2>6. file' \in Seq(Nat)
    <3>1. file' = Append(file, 0)
      BY <1>2, AsyncAssumption DEF TypeOK, Announced, DropNotice
    <3> QED BY <3>1 DEF TypeOK
  <2>7. TypeOK'
    BY <2>3, <2>5, <2>6 DEF TypeOK, BackendStates, frontVars, ownerVars
  <2>8. Spares'
    BY <2>3 DEF Spares, frontVars
  <2> QED BY <1>1, <2>7, <2>8
<1>3. CASE ~ Len(buffersToWrite) > MaxBuffersToWrite
  <2>1. UNCHANGED <<file, buffersToWrite, dropped>>
    BY <1>3, AsyncAssumption DEF TypeOK
  <2>2. TypeOK'
    BY <2>1 DEF TypeOK, BackendStates, frontVars, ownerVars
  <2>3. Spares'
    BY <2>1 DEF Spares, frontVars
  <2> QED BY <1>1, <2>2, <2>3
<1> QED BY <1>2, <1>3

LEMMA RecycleRefills ==
    ASSUME IInv, recycle
    PROVE  newBuffer1' = EmptyBuffer /\ newBuffer2' = EmptyBuffer
<1> DEFINE kept == Kept(buffersToWrite)
           left == Remaining(newBuffer1, kept)
<1>1. /\ newBuffer1 = NoBuffer /\ newBuffer2 \in {NoBuffer, EmptyBuffer}
      /\ Len(buffersToWrite) >= 1
      /\ newBuffer2 = NoBuffer => Len(buffersToWrite) >= 2
  BY DEF IInv, Spares, recycle
<1>2. Len(buffersToWrite) \in Nat /\ buffersToWrite \in Seq(Buffers(Nat))
  BY DEF IInv, TypeOK
<1>3. /\ kept \in Seq(Buffers(Nat)) /\ Len(kept) >= 1 /\ Len(kept) <= 2
      /\ newBuffer2 = NoBuffer => Len(kept) >= 2
  BY <1>1, <1>2, KeptProperties
<1>4. newBuffer1' = EmptyBuffer
  <2>1. Last(kept) \in Buffers(Nat)
    BY <1>3 DEF Last
  <2> QED BY <1>1, <2>1, ResetEmpties DEF recycle, Refilled
<1>5. newBuffer2' = EmptyBuffer
  <2>1. CASE newBuffer2 = NoBuffer
    <3> HIDE DEF kept
    <3>1. Remaining(newBuffer1, kept) = SubSeq(kept, 1, 1)
      BY <1>1, <1>3, <2>1 DEF Remaining, Front
    <3>2. SubSeq(kept, 1, 1)[1] = kept[1] /\ Len(SubSeq(kept, 1, 1)) = 1
      BY <1>3, <2>1
    <3>3. Last(left) \in Buffers(Nat)
      BY <1>3, <2>1, <3>1, <3>2 DEF Last
    <3> QED BY <2>1, <3>3, ResetEmpties DEF recycle, Refilled, kept
  <2>2. CASE newBuffer2 = EmptyBuffer
    BY <2>2, EmptyIsBuffer DEF recycle, Refilled
  <2> QED BY <1>1, <2>1, <2>2
<1> QED BY <1>4, <1>5

LEMMA BackendKeepsIInv == IInv /\ Backend => IInv'
<1> SUFFICES ASSUME IInv, Backend PROVE IInv'
  OBVIOUS
<1> USE DEF IInv, TypeOK, Handshake, Spares, BackendStates,
            frontVars, backVars, fileVars, ownerVars, histVars
<1>1. CASE runInThread
  BY <1>1 DEF runInThread, CountedDown
<1>2. CASE enter
  BY <1>2, EmptyBufferType DEF enter, CountedDown
<1>3. CASE loopTest
  BY <1>3 DEF loopTest
<1>4. CASE loopExit
  BY <1>4 DEF loopExit
<1>5. CASE timeWait
  BY <1>5 DEF timeWait
<1>6. CASE timeWaitExpires
  BY <1>6 DEF timeWaitExpires
<1>7. CASE swap
  BY <1>7, SwapKeepsIInv
<1>8. CASE dropExcess
  BY <1>8, DropKeepsIInv
<1>9. CASE writeBuffer
  <2>1. buffersToWrite[i].data \in Seq(Nat)
    <3>1. i \in 1 .. Len(buffersToWrite)
      BY <1>9 DEF writeBuffer
    <3>2. buffersToWrite[i] \in Buffers(Nat)
      BY <3>1
    <3> QED BY <3>2 DEF Buffers
  <2>2. file' \in Seq(Nat)
    BY <1>9, <2>1 DEF writeBuffer
  <2> QED BY <1>9, <2>2 DEF writeBuffer
<1>10. CASE recycle
  <2>1. newBuffer1' = EmptyBuffer /\ newBuffer2' = EmptyBuffer
    BY <1>10, RecycleRefills
  <2> QED BY <1>10, <2>1, EmptyBufferType DEF recycle
<1> QED BY <1>1, <1>2, <1>3, <1>4, <1>5, <1>6, <1>7, <1>8, <1>9, <1>10
        DEF Backend

-----------------------------------------------------------------------------
LEMMA Inductive == Spec => []IInv
<1>1. IInv /\ [Next]_vars => IInv'
  <2> SUFFICES ASSUME IInv, [Next]_vars PROVE IInv'
    OBVIOUS
  <2>1. CASE \E len \in MessageLens : append(len)
    BY <2>1, AppendKeepsIInv
  <2>2. CASE Owner
    BY <2>2, OwnerKeepsIInv
  <2>3. CASE Backend
    BY <2>3, BackendKeepsIInv
  <2>4. CASE UNCHANGED vars
    BY <2>4 DEF vars, frontVars, backVars, fileVars, ownerVars, histVars,
                IInv, TypeOK, Handshake, Spares
  <2> QED BY <2>1, <2>2, <2>3, <2>4 DEF Next
<1> QED BY <1>1, Initially, PTL DEF Spec

\* Every variable keeps its type: in particular currentBuffer_ is never null
\* and no buffer is filled to its end, whatever append() is given.
THEOREM TypeCorrect == Spec => []TypeOK
BY Inductive, PTL DEF IInv

\* threadFunc() never fails an assertion: when it is back at the end of its
\* loop with a spare missing there is a written buffer to take its place.
THEOREM AssertionsNeverFail == Spec => []AssertionsHold
<1>1. IInv => AssertionsHold
  <2> SUFFICES ASSUME IInv PROVE AssertionsHold
    OBVIOUS
  <2>1. pc = "begin" => running_
    BY DEF IInv, Handshake
  <2>2. pc = "test" /\ running_ =>
          CleanSpare(newBuffer1) /\ CleanSpare(newBuffer2) /\ buffersToWrite = <<>>
    BY EmptyIsBuffer DEF IInv, Spares, CleanSpare, EmptyBuffer
  <2>3. pc = "drop" => buffersToWrite # <<>>
    BY DEF IInv, Spares
  <2>4. ASSUME pc = "write" PROVE Missing <= Len(Kept(buffersToWrite))
    <3>1. /\ Len(buffersToWrite) >= 1 /\ Len(buffersToWrite) \in Nat
          /\ newBuffer1 = NoBuffer
          /\ newBuffer2 = NoBuffer => Len(buffersToWrite) >= 2
      BY <2>4 DEF IInv, TypeOK, Spares
    <3>2. /\ Len(Kept(buffersToWrite)) >= 1
          /\ Len(Kept(buffersToWrite)) \in Nat
          /\ Len(buffersToWrite) >= 2 => Len(Kept(buffersToWrite)) >= 2
      BY <3>1, KeptProperties DEF IInv, TypeOK
    <3> QED BY <3>1, <3>2 DEF Missing
  <2> QED BY <2>1, <2>2, <2>3, <2>4 DEF AssertionsHold
<1> QED BY <1>1, Inductive, PTL

-----------------------------------------------------------------------------
(* Where the lines are. *)

\* The part of Pending that is the backend's.
Left ==
    CASE pc = "drop"  -> buffersToWrite
      [] pc = "write" -> SubSeq(buffersToWrite, i, Len(buffersToWrite))
      [] OTHER        -> <<>>

-----------------------------------------------------------------------------
(* The entries of sequences, and the lines in sequences of buffers. *)

LEMMA EntriesOfAppend ==
    ASSUME NEW S, NEW s \in Seq(S), NEW e \in S
    PROVE  ToSet(Append(s, e)) = ToSet(s) \cup {e}
<1>1. \A k \in 1 .. Len(s) : Append(s, e)[k] = s[k]
  OBVIOUS
<1>2. Append(s, e)[Len(s) + 1] = e /\ Len(Append(s, e)) = Len(s) + 1
  OBVIOUS
<1>3. DOMAIN Append(s, e) = 1 .. Len(s) + 1 /\ DOMAIN s = 1 .. Len(s)
  OBVIOUS
<1>4. ASSUME NEW k \in 1 .. Len(s) + 1 PROVE k \in 1 .. Len(s) \/ k = Len(s) + 1
  OBVIOUS
<1>5. \A k \in 1 .. Len(s) : k \in 1 .. Len(s) + 1
  OBVIOUS
<1>6. Len(s) + 1 \in 1 .. Len(s) + 1
  OBVIOUS
<1> QED BY <1>1, <1>2, <1>3, <1>4, <1>5, <1>6, Zenon DEF ToSet

LEMMA EntriesOfConcat ==
    ASSUME NEW S, NEW s \in Seq(S), NEW t \in Seq(S)
    PROVE  ToSet(s \o t) = ToSet(s) \cup ToSet(t)
<1>1. DOMAIN (s \o t) = 1 .. Len(s) + Len(t)
      /\ DOMAIN s = 1 .. Len(s) /\ DOMAIN t = 1 .. Len(t)
  OBVIOUS
<1>2. \A k \in 1 .. Len(s) : k \in DOMAIN (s \o t) /\ (s \o t)[k] = s[k]
  OBVIOUS
<1>3. \A k \in 1 .. Len(t) :
        Len(s) + k \in DOMAIN (s \o t) /\ (s \o t)[Len(s) + k] = t[k]
  OBVIOUS
<1>4. ASSUME NEW k \in DOMAIN (s \o t)
      PROVE  (s \o t)[k] \in ToSet(s) \cup ToSet(t)
  <2>1. CASE k \in 1 .. Len(s)
    BY <1>1, <1>2, <2>1 DEF ToSet
  <2>2. CASE k \notin 1 .. Len(s)
    <3>1. k - Len(s) \in 1 .. Len(t) /\ (s \o t)[k] = t[k - Len(s)]
      BY <1>1, <2>2
    <3> QED BY <1>1, <3>1 DEF ToSet
  <2> QED BY <2>1, <2>2
<1>5. ToSet(s \o t) \subseteq ToSet(s) \cup ToSet(t)
  BY <1>4 DEF ToSet
<1>6. ToSet(s) \subseteq ToSet(s \o t)
  BY <1>1, <1>2, Zenon DEF ToSet
<1>7. ToSet(t) \subseteq ToSet(s \o t)
  BY <1>1, <1>3, Zenon DEF ToSet
<1> QED BY <1>5, <1>6, <1>7

LEMMA LinesOfNone == LinesIn(<<>>) = {}
BY DEF LinesIn

LEMMA LinesOfAppend ==
    ASSUME NEW S, NEW bufs \in Seq(S), NEW b \in S
    PROVE  LinesIn(Append(bufs, b)) = LinesIn(bufs) \cup ToSet(b.data)
<1>1. \A k \in 1 .. Len(bufs) : Append(bufs, b)[k] = bufs[k]
  OBVIOUS
<1>2. Append(bufs, b)[Len(bufs) + 1] = b
  OBVIOUS
<1>3. DOMAIN Append(bufs, b) = 1 .. Len(bufs) + 1 /\ DOMAIN bufs = 1 .. Len(bufs)
  OBVIOUS
<1>4. ASSUME NEW k \in 1 .. Len(bufs) + 1
      PROVE  k \in 1 .. Len(bufs) \/ k = Len(bufs) + 1
  OBVIOUS
<1>5. \A k \in 1 .. Len(bufs) : k \in 1 .. Len(bufs) + 1
  OBVIOUS
<1>6. Len(bufs) + 1 \in 1 .. Len(bufs) + 1
  OBVIOUS
<1> QED BY <1>1, <1>2, <1>3, <1>4, <1>5, <1>6, Zenon DEF LinesIn

LEMMA LinesOfConcat ==
    ASSUME NEW S, NEW a \in Seq(S), NEW b \in Seq(S)
    PROVE  LinesIn(a \o b) = LinesIn(a) \cup LinesIn(b)
<1>1. DOMAIN (a \o b) = 1 .. Len(a) + Len(b)
      /\ DOMAIN a = 1 .. Len(a) /\ DOMAIN b = 1 .. Len(b)
  OBVIOUS
<1>2. \A k \in 1 .. Len(a) : k \in DOMAIN (a \o b) /\ (a \o b)[k] = a[k]
  OBVIOUS
<1>3. \A k \in 1 .. Len(b) :
        Len(a) + k \in DOMAIN (a \o b) /\ (a \o b)[Len(a) + k] = b[k]
  OBVIOUS
<1>4. ASSUME NEW k \in DOMAIN (a \o b)
      PROVE  ToSet((a \o b)[k].data) \subseteq LinesIn(a) \cup LinesIn(b)
  <2>1. CASE k \in 1 .. Len(a)
    BY <1>1, <1>2, <2>1, Zenon DEF LinesIn
  <2>2. CASE k \notin 1 .. Len(a)
    <3>1. k - Len(a) \in 1 .. Len(b) /\ (a \o b)[k] = b[k - Len(a)]
      BY <1>1, <2>2
    <3> QED BY <1>1, <3>1, Zenon DEF LinesIn
  <2> QED BY <2>1, <2>2
<1>5. LinesIn(a \o b) \subseteq LinesIn(a) \cup LinesIn(b)
  BY <1>4, Zenon DEF LinesIn
<1>6. LinesIn(a) \subseteq LinesIn(a \o b)
  BY <1>1, <1>2, Zenon DEF LinesIn
<1>7. LinesIn(b) \subseteq LinesIn(a \o b)
  BY <1>1, <1>3, Zenon DEF LinesIn
<1> QED BY <1>5, <1>6, <1>7

\* The lines between two positions.
LEMMA LinesOfRange ==
    ASSUME NEW S, NEW bufs \in Seq(S),
           NEW m \in Nat \ {0}, NEW n \in Nat, n <= Len(bufs)
    PROVE  LinesIn(SubSeq(bufs, m, n)) = UNION {ToSet(bufs[k].data) : k \in m .. n}
<1> DEFINE part == SubSeq(bufs, m, n)
<1>1. DOMAIN part = 1 .. (n + 1 - m)
  OBVIOUS
<1>2. \A k \in 1 .. (n + 1 - m) : part[k] = bufs[m + k - 1] /\ m + k - 1 \in m .. n
  OBVIOUS
<1>3. \A k \in m .. n : k - m + 1 \in 1 .. (n + 1 - m) /\ part[k - m + 1] = bufs[k]
  OBVIOUS
<1> HIDE DEF part
<1>4. LinesIn(part) \subseteq UNION {ToSet(bufs[k].data) : k \in m .. n}
  BY <1>1, <1>2, Zenon DEF LinesIn
<1>5. UNION {ToSet(bufs[k].data) : k \in m .. n} \subseteq LinesIn(part)
  BY <1>1, <1>3, Zenon DEF LinesIn
<1> QED BY <1>4, <1>5 DEF part

\* Cutting a sequence of buffers in two loses no line.
LEMMA LinesOfParts ==
    ASSUME NEW S, NEW bufs \in Seq(S), NEW m \in Nat, m <= Len(bufs)
    PROVE  LinesIn(bufs) = LinesIn(SubSeq(bufs, 1, m))
                             \cup LinesIn(SubSeq(bufs, m + 1, Len(bufs)))
<1>1. LinesIn(SubSeq(bufs, 1, m)) = UNION {ToSet(bufs[k].data) : k \in 1 .. m}
  BY LinesOfRange
<1>2. LinesIn(SubSeq(bufs, m + 1, Len(bufs)))
        = UNION {ToSet(bufs[k].data) : k \in m + 1 .. Len(bufs)}
  BY LinesOfRange
<1>3. \A k : k \in DOMAIN bufs <=> k \in 1 .. m \/ k \in m + 1 .. Len(bufs)
  OBVIOUS
<1> QED BY <1>1, <1>2, <1>3, Zenon DEF LinesIn

\* The write loop takes the lines of one buffer after the other.
LEMMA LinesOfNext ==
    ASSUME NEW S, NEW bufs \in Seq(S), NEW m \in Nat \ {0}, m <= Len(bufs)
    PROVE  LinesIn(SubSeq(bufs, m, Len(bufs)))
             = ToSet(bufs[m].data) \cup LinesIn(SubSeq(bufs, m + 1, Len(bufs)))
<1>1. LinesIn(SubSeq(bufs, m, Len(bufs)))
        = UNION {ToSet(bufs[k].data) : k \in m .. Len(bufs)}
  BY LinesOfRange
<1>2. LinesIn(SubSeq(bufs, m + 1, Len(bufs)))
        = UNION {ToSet(bufs[k].data) : k \in m + 1 .. Len(bufs)}
  BY LinesOfRange
<1>3. \A k : k \in m .. Len(bufs) <=> k = m \/ k \in m + 1 .. Len(bufs)
  OBVIOUS
<1> QED BY <1>1, <1>2, <1>3, Zenon

-----------------------------------------------------------------------------
(* The account of all lines, place by place. *)

\* NothingVanishes, with the three parts of Pending named one by one.
Accounted ==
    1 .. appended = LinesOfFile \cup LinesIn(Left) \cup LinesIn(buffers_)
                      \cup ToSet(currentBuffer_.data) \cup refused \cup dropped

LEMMA LeftType == IInv => Left \in Seq(Buffers(Nat))
<1> SUFFICES ASSUME IInv PROVE Left \in Seq(Buffers(Nat))
  OBVIOUS
<1>1. CASE pc = "drop"
  BY <1>1 DEF Left, IInv, TypeOK
<1>2. CASE pc = "write"
  <2>1. buffersToWrite \in Seq(Buffers(Nat)) /\ i \in Nat \ {0}
    BY DEF IInv, TypeOK
  <2>2. SubSeq(buffersToWrite, i, Len(buffersToWrite)) \in Seq(Buffers(Nat))
    BY <2>1, SubSeqProperties
  <2> QED BY <1>2, <2>2 DEF Left
<1>3. CASE pc \notin {"drop", "write"}
  BY <1>3 DEF Left
<1> QED BY <1>1, <1>2, <1>3

LEMMA NothingVanishesIsAccounted == IInv => (NothingVanishes <=> Accounted)
<1> SUFFICES ASSUME IInv
             PROVE  LinesIn(Pending) = LinesIn(Left) \cup LinesIn(buffers_)
                                         \cup ToSet(currentBuffer_.data)
  BY DEF NothingVanishes, Accounted
<1> DEFINE front == Append(buffers_, currentBuffer_)
<1>1. Left \in Seq(Buffers(Nat)) /\ front \in Seq(Buffers(Nat))
  BY LeftType DEF IInv, TypeOK
<1>2. Pending = Left \o front
  BY DEF Pending, Left
<1>3. LinesIn(Pending) = LinesIn(Left) \cup LinesIn(front)
  BY <1>1, <1>2, LinesOfConcat, ZenonT(30)
<1>4. LinesIn(front) = LinesIn(buffers_) \cup ToSet(currentBuffer_.data)
  BY LinesOfAppend DEF IInv, TypeOK
<1> QED BY <1>3, <1>4

LEMMA LinesOfEmptyBuffer == ToSet(EmptyBuffer.data) = {}
BY DEF EmptyBuffer, ToSet

\* A step that moves no line keeps the account.
LEMMA NothingMoves ==
    ASSUME Accounted, Left' = Left,
           UNCHANGED <<appended, file, buffers_, currentBuffer_, refused, dropped>>
    PROVE  Accounted'
BY DEF Accounted, LinesOfFile, LinesIn

-----------------------------------------------------------------------------
(* The steps. *)

LEMMA AccountedInitially == Init => Accounted
<1> SUFFICES ASSUME Init PROVE Accounted
  OBVIOUS
<1>1. Left = <<>> /\ buffers_ = <<>> /\ ToSet(currentBuffer_.data) = {}
  BY LinesOfEmptyBuffer DEF Init, Left
<1>2. LinesOfFile = {}
  BY DEF Init, LinesOfFile, ToSet
<1>3. 1 .. appended = {} /\ refused = {} /\ dropped = {}
  BY DEF Init
<1> QED BY <1>1, <1>2, <1>3, LinesOfNone DEF Accounted

LEMMA AppendAccounts ==
    ASSUME IInv, Accounted, NEW len \in MessageLens, append(len)
    PROVE  Accounted'
<1> DEFINE line == appended + 1
<1>1. line \in Nat /\ 1 .. appended' = 1 .. appended \cup {line}
  BY DEF IInv, TypeOK, append
<1>2. LinesOfFile' = LinesOfFile /\ dropped' = dropped
  BY DEF append, fileVars, LinesOfFile
<1>3. CASE appendFits(len)
  <2>1. LinesIn(Left)' = LinesIn(Left) /\ LinesIn(buffers_)' = LinesIn(buffers_)
        /\ refused' = refused
    BY <1>3 DEF append, appendFits, backVars, Left, LinesIn
  <2>2. currentBuffer_.data \in Seq(Nat)
    BY DEF IInv, TypeOK, Buffers
  <2>3. currentBuffer_'.data = Append(currentBuffer_.data, line)
    BY <1>3 DEF appendFits, AppendTo
  <2>4. ToSet(currentBuffer_.data)' = ToSet(currentBuffer_.data) \cup {line}
    BY <1>1, <2>2, <2>3, EntriesOfAppend
  <2> QED BY <1>1, <1>2, <2>1, <2>4 DEF Accounted
<1>4. CASE appendSwitches(len)
  <2>1. (IF nextBuffer_ # NoBuffer THEN nextBuffer_ ELSE EmptyBuffer) = EmptyBuffer
    BY DEF IInv, Spares
  <2>2. LinesIn(Left)' = LinesIn(Left)
    <3>1. pc' = pc \/ (pc = "timeWait" /\ pc' = "woken")
      BY <1>4 DEF appendSwitches, Notified
    <3>2. Left' = Left
      BY <3>1 DEF append, backVars, Left
    <3> QED BY <3>2 DEF LinesIn
  <2>3. LinesIn(buffers_)' = LinesIn(buffers_) \cup ToSet(currentBuffer_.data)
    <3>1. buffers_' = Append(buffers_, currentBuffer_)
      BY <1>4 DEF appendSwitches
    <3>2. buffers_ \in Seq(Buffers(Nat)) /\ currentBuffer_ \in Buffers(Nat)
      BY DEF IInv, TypeOK
    <3>3. LinesIn(Append(buffers_, currentBuffer_))
            = LinesIn(buffers_) \cup ToSet(currentBuffer_.data)
      BY <3>2, LinesOfAppend
    <3>4. LinesIn(buffers_)' = LinesIn(buffers_')
      BY DEF LinesIn
    <3> QED BY <3>1, <3>3, <3>4
  <2>4. ToSet(currentBuffer_.data)' \cup refused' = refused \cup {line}
    <3>1. /\ currentBuffer_' = AppendTo(EmptyBuffer, line, len)
          /\ refused' = IF Avail(EmptyBuffer) > len THEN refused
                        ELSE refused \cup {line}
      BY <1>4, <2>1 DEF appendSwitches
    <3>2. CASE Avail(EmptyBuffer) > len
      <4>1. currentBuffer_'.data = Append(EmptyBuffer.data, line)
        BY <3>1, <3>2 DEF AppendTo
      <4>2. EmptyBuffer.data \in Seq(Nat)
        BY EmptyBufferType DEF Buffers
      <4>3. ToSet(Append(EmptyBuffer.data, line)) = ToSet(EmptyBuffer.data) \cup {line}
        BY <1>1, <4>2, EntriesOfAppend
      <4> QED BY <3>1, <3>2, <4>1, <4>3, LinesOfEmptyBuffer
    <3>3. CASE ~ Avail(EmptyBuffer) > len
      <4>1. currentBuffer_' = EmptyBuffer /\ refused' = refused \cup {line}
        BY <3>1, <3>3 DEF AppendTo
      <4> QED BY <4>1, LinesOfEmptyBuffer
    <3> QED BY <3>2, <3>3
  <2> QED BY <1>1, <1>2, <2>2, <2>3, <2>4 DEF Accounted
<1> QED BY <1>3, <1>4 DEF append

\* The owner's steps, and those of the backend outside of its two phases,
\* leave the lines where they are.
LEMMA OwnerMovesNothing ==
    ASSUME IInv, Owner
    PROVE  Left' = Left /\ UNCHANGED <<frontVars, backVars, fileVars, histVars>>
<1> USE DEF frontVars, backVars, fileVars, histVars
<1>1. \/ pc' = pc
      \/ pc = "timeWait" /\ pc' = "woken"
      \/ pc = "unborn" /\ pc' = "born"
  BY DEF IInv, Handshake, Owner, ownerSteps, start, startFails, threadStarted,
         startReturns, stop, stopNotifies, stopReturns, Notified
<1>2. UNCHANGED <<frontVars, backVars, fileVars, histVars>>
  BY DEF Owner, ownerSteps, start, startFails, threadStarted, startReturns,
         stop, stopNotifies, stopReturns
<1>3. Left' = Left
  BY <1>1, <1>2 DEF Left
<1> QED BY <1>2, <1>3

LEMMA RestIsUntouched ==
    ASSUME runInThread \/ enter \/ loopTest \/ loopExit \/ timeWait \/ timeWaitExpires
    PROVE  /\ Left' = Left /\ pc # "write" /\ pc' # "write"
           /\ UNCHANGED <<appended, file, buffers_, currentBuffer_, refused, dropped,
                          buffersToWrite, nextBuffer_>>
<1>1. UNCHANGED <<frontVars, histVars, file, buffersToWrite, i>>
      /\ pc \notin {"drop", "write"} /\ pc' \notin {"drop", "write"}
  BY DEF runInThread, enter, loopTest, loopExit, timeWait, timeWaitExpires,
         backVars, fileVars
<1> QED BY <1>1 DEF Left, frontVars, histVars

LEMMA OwnerAccounts == IInv /\ Accounted /\ Owner => Accounted'
BY OwnerMovesNothing, NothingMoves DEF frontVars, fileVars, histVars

LEMMA SwapAccounts == IInv /\ Accounted /\ swap => Accounted'
<1> SUFFICES ASSUME IInv, Accounted, swap PROVE Accounted'
  OBVIOUS
<1>1. UNCHANGED <<appended, refused, dropped>> /\ LinesOfFile' = LinesOfFile
  BY DEF swap, fileVars, histVars, LinesOfFile
<1>2. Left = <<>> /\ Left' = Append(buffers_, currentBuffer_) /\ buffers_' = <<>>
  BY DEF swap, Left, Batch
<1>3. ToSet(currentBuffer_.data)' = {}
  <2>1. currentBuffer_' = EmptyBuffer
    BY DEF swap, IInv, Spares
  <2> QED BY <2>1, LinesOfEmptyBuffer
<1>4. LinesIn(Append(buffers_, currentBuffer_))
        = LinesIn(buffers_) \cup ToSet(currentBuffer_.data)
  BY LinesOfAppend DEF IInv, TypeOK
<1>5. LinesIn(Left)' = LinesIn(Left') /\ LinesIn(buffers_)' = LinesIn(buffers_')
  BY DEF LinesIn
<1> QED BY <1>1, <1>2, <1>3, <1>4, <1>5, LinesOfNone DEF Accounted

\* The lines erased are exactly those that dropped records, and the notice
\* is no line.
LEMMA DropAccounts == IInv /\ Accounted /\ dropExcess => Accounted'
<1> SUFFICES ASSUME IInv, Accounted, dropExcess PROVE Accounted'
  OBVIOUS
<1>1. UNCHANGED <<appended, refused, buffers_, currentBuffer_>>
  BY DEF dropExcess, frontVars
<1>2. Left = buffersToWrite /\ i' = 1 /\ pc' = "write"
  BY DEF dropExcess, Left
<1>3. buffersToWrite \in Seq(Buffers(Nat)) /\ Len(buffersToWrite) \in Nat
  BY DEF IInv, TypeOK
<1>4. LinesIn(Left)' = LinesIn(Left') /\ LinesIn(buffers_)' = LinesIn(buffers_)
  BY <1>1 DEF LinesIn
<1>5. CASE Len(buffersToWrite) > MaxBuffersToWrite
  <2> DEFINE kept == SubSeq(buffersToWrite, 1, 2)
             excess == SubSeq(buffersToWrite, 3, Len(buffersToWrite))
  <2>1. /\ buffersToWrite' = kept /\ file' = Append(file, DropNotice)
        /\ dropped' = dropped \cup LinesIn(excess)
    BY <1>5, AsyncAssumption, <1>3 DEF dropExcess, Announced
  <2>2. 2 <= Len(buffersToWrite)
    BY <1>3, <1>5, AsyncAssumption
  <2>3. LinesIn(buffersToWrite) = LinesIn(kept) \cup LinesIn(excess)
    BY <1>3, <2>2, LinesOfParts
  <2>4. kept \in Seq(Buffers(Nat)) /\ Len(kept) = 2
    BY <1>3, <2>2
  <2>5. Left' = kept
    <3>1. Left' = SubSeq(kept, 1, Len(kept))
      BY <1>2, <2>1 DEF Left
    <3> QED BY <2>4, <3>1
  <2>6. LinesOfFile' = LinesOfFile
    <3>1. ToSet(Append(file, DropNotice)) = ToSet(file) \cup {DropNotice}
      BY EntriesOfAppend DEF IInv, TypeOK, DropNotice
    <3> QED BY <2>1, <3>1 DEF LinesOfFile, IsLine
  <2> HIDE DEF kept, excess
  <2> QED BY <1>1, <1>2, <1>4, <2>1, <2>3, <2>5, <2>6 DEF Accounted
<1>6. CASE ~ Len(buffersToWrite) > MaxBuffersToWrite
  <2>1. UNCHANGED <<file, buffersToWrite, dropped>>
    BY <1>3, <1>6, AsyncAssumption DEF dropExcess
  <2>2. Left' = SubSeq(buffersToWrite, 1, Len(buffersToWrite))
    BY <1>2, <2>1 DEF Left
  <2>3. Left' = Left
    BY <1>2, <1>3, <2>2
  <2> QED BY <1>1, <2>1, <2>3, NothingMoves
<1> QED BY <1>5, <1>6

LEMMA WriteAccounts == IInv /\ Accounted /\ writeBuffer => Accounted'
<1> SUFFICES ASSUME IInv, Accounted, writeBuffer PROVE Accounted'
  OBVIOUS
<1> DEFINE data == buffersToWrite[i].data
           rest == SubSeq(buffersToWrite, i + 1, Len(buffersToWrite))
<1>1. UNCHANGED <<appended, refused, dropped, buffers_, currentBuffer_>>
  BY DEF writeBuffer, frontVars, histVars
<1>2. /\ buffersToWrite \in Seq(Buffers(Nat)) /\ Len(buffersToWrite) \in Nat
      /\ i \in Nat \ {0} /\ i <= Len(buffersToWrite)
  BY DEF IInv, TypeOK, writeBuffer
<1>3. Left = SubSeq(buffersToWrite, i, Len(buffersToWrite)) /\ Left' = rest
  BY DEF writeBuffer, Left
<1>4. LinesIn(Left) = ToSet(data) \cup LinesIn(rest)
  BY <1>2, <1>3, LinesOfNext
<1>5. data \in Seq(Nat)
  <2>1. buffersToWrite[i] \in Buffers(Nat)
    BY <1>2
  <2> QED BY <2>1 DEF Buffers
<1>6. ToSet(file)' = ToSet(file) \cup ToSet(data)
  <2>1. file' = file \o data /\ file \in Seq(Nat)
    BY DEF writeBuffer, IInv, TypeOK
  <2>2. ToSet(file \o data) = ToSet(file) \cup ToSet(data)
    BY <1>5, <2>1, EntriesOfConcat
  <2> QED BY <2>1, <2>2
<1>7. \A n \in ToSet(data) : IsLine(n)
  <2>1. ToSet(data) \subseteq 1 .. appended
    BY <1>4, Zenon DEF Accounted
  <2> QED BY <2>1 DEF IsLine, DropNotice, IInv, TypeOK
<1> HIDE DEF data, rest
<1>8. LinesOfFile' = LinesOfFile \cup ToSet(data)
  BY <1>6, <1>7 DEF LinesOfFile
<1>9. LinesIn(Left)' = LinesIn(rest) /\ LinesIn(buffers_)' = LinesIn(buffers_)
  BY <1>1, <1>3 DEF LinesIn
<1> QED BY <1>1, <1>4, <1>8, <1>9 DEF Accounted

LEMMA RecycleAccounts == IInv /\ Accounted /\ recycle => Accounted'
<1> SUFFICES ASSUME IInv, Accounted, recycle PROVE Accounted'
  OBVIOUS
<1>1. UNCHANGED <<appended, file, buffers_, currentBuffer_, refused, dropped>>
  BY DEF recycle, frontVars, histVars
<1>2. SubSeq(buffersToWrite, i, Len(buffersToWrite)) = <<>>
  BY DEF recycle, IInv, TypeOK
<1>3. Left' = Left
  BY <1>2 DEF recycle, Left
<1> QED BY <1>1, <1>3, NothingMoves

LEMMA BackendAccounts == IInv /\ Accounted /\ Backend => Accounted'
<1> SUFFICES ASSUME IInv, Accounted, Backend PROVE Accounted'
  OBVIOUS
<1>1. CASE swap
  BY <1>1, SwapAccounts
<1>2. CASE dropExcess
  BY <1>2, DropAccounts
<1>3. CASE writeBuffer
  BY <1>3, WriteAccounts
<1>4. CASE recycle
  BY <1>4, RecycleAccounts
<1>5. CASE runInThread \/ enter \/ loopTest \/ loopExit \/ timeWait \/ timeWaitExpires
  BY <1>5, RestIsUntouched, NothingMoves
<1> QED BY <1>1, <1>2, <1>3, <1>4, <1>5 DEF Backend

LEMMA AccountIsKept == Spec => []Accounted
<1>1. IInv /\ Accounted /\ [Next]_vars => Accounted'
  <2> SUFFICES ASSUME IInv, Accounted, [Next]_vars PROVE Accounted'
    OBVIOUS
  <2>1. CASE \E len \in MessageLens : append(len)
    BY <2>1, AppendAccounts
  <2>2. CASE Owner
    BY <2>2, OwnerAccounts
  <2>3. CASE Backend
    BY <2>3, BackendAccounts
  <2>4. CASE UNCHANGED vars
    <3>1. Left' = Left
      BY <2>4 DEF vars, backVars, Left
    <3> QED BY <2>4, <3>1, NothingMoves DEF vars, frontVars, fileVars, histVars
  <2> QED BY <2>1, <2>2, <2>3, <2>4 DEF Next
<1> QED BY <1>1, AccountedInitially, Inductive, PTL DEF Spec

\* No line is lost unnoticed: however the calls and the backend interleave,
\* whatever sizes the buffers and the lines have, each line appended is in
\* the file, in a buffer on its way, or among those refused or dropped.
THEOREM NoLineVanishes == Spec => []NothingVanishes
BY AccountIsKept, Inductive, NothingVanishesIsAccounted, PTL

-----------------------------------------------------------------------------
(* The order of lines in a sequence of buffers, and in the file. *)

\* No line comes before an older one, within a buffer or across them.
InSequence(bufs) ==
    \A k \in DOMAIN bufs :
        /\ Increasing(bufs[k].data)
        /\ \A l \in DOMAIN bufs :
             k < l => Precede(ToSet(bufs[k].data), ToSet(bufs[l].data))

LEMMA NoneInSequence == InSequence(<<>>)
BY DEF InSequence

LEMMA AppendedInSequence ==
    ASSUME NEW S, NEW bufs \in Seq(S), NEW b \in S, InSequence(bufs),
           Increasing(b.data), Precede(LinesIn(bufs), ToSet(b.data))
    PROVE  InSequence(Append(bufs, b))
<1> DEFINE all == Append(bufs, b)
           n == Len(bufs)
<1>1. n \in Nat /\ DOMAIN bufs = 1 .. n /\ DOMAIN all = 1 .. n + 1
  OBVIOUS
<1>2. all[n + 1] = b /\ \A k \in 1 .. n : all[k] = bufs[k]
  OBVIOUS
<1> HIDE DEF all, n
<1> SUFFICES ASSUME NEW k \in 1 .. n + 1
             PROVE  /\ Increasing(all[k].data)
                    /\ \A l \in 1 .. n + 1 :
                         k < l => Precede(ToSet(all[k].data), ToSet(all[l].data))
  BY <1>1 DEF InSequence, all
<1>3. CASE k = n + 1
  <2>1. \A l \in 1 .. n + 1 : ~ k < l
    BY <1>1, <1>3
  <2> QED BY <1>2, <1>3, <2>1
<1>4. CASE k \in 1 .. n
  <2>1. Increasing(all[k].data)
    BY <1>1, <1>2, <1>4 DEF InSequence
  <2>2. ASSUME NEW l \in 1 .. n + 1, k < l
        PROVE  Precede(ToSet(all[k].data), ToSet(all[l].data))
    <3>1. CASE l \in 1 .. n
      BY <1>1, <1>2, <1>4, <2>2, <3>1 DEF InSequence
    <3>2. CASE l = n + 1
      <4>1. ToSet(bufs[k].data) \subseteq LinesIn(bufs)
        BY <1>1, <1>4, Zenon DEF LinesIn
      <4> QED BY <1>2, <1>4, <3>2, <4>1 DEF Precede
    <3> QED BY <1>1, <3>1, <3>2
  <2> QED BY <2>1, <2>2
<1> QED BY <1>1, <1>3, <1>4

LEMMA JoinedInSequence ==
    ASSUME NEW S, NEW a \in Seq(S), NEW b \in Seq(S), InSequence(a), InSequence(b),
           Precede(LinesIn(a), LinesIn(b))
    PROVE  InSequence(a \o b)
<1> DEFINE all == a \o b
           m == Len(a)
           n == Len(b)
<1>1. /\ m \in Nat /\ n \in Nat /\ DOMAIN a = 1 .. m /\ DOMAIN b = 1 .. n
      /\ DOMAIN all = 1 .. m + n
  OBVIOUS
<1>2. /\ \A k \in 1 .. m : all[k] = a[k]
      /\ \A k \in m + 1 .. m + n : k - m \in 1 .. n /\ all[k] = b[k - m]
  OBVIOUS
<1> HIDE DEF all, m, n
<1> SUFFICES ASSUME NEW k \in 1 .. m + n
             PROVE  /\ Increasing(all[k].data)
                    /\ \A l \in 1 .. m + n :
                         k < l => Precede(ToSet(all[k].data), ToSet(all[l].data))
  BY <1>1 DEF InSequence, all
<1>3. \A l \in 1 .. m + n : l \in 1 .. m \/ l \in m + 1 .. m + n
  BY <1>1
<1>4. CASE k \in 1 .. m
  <2>1. Increasing(all[k].data)
    BY <1>1, <1>2, <1>4 DEF InSequence
  <2>2. ASSUME NEW l \in 1 .. m + n, k < l
        PROVE  Precede(ToSet(all[k].data), ToSet(all[l].data))
    <3>1. CASE l \in 1 .. m
      BY <1>1, <1>2, <1>4, <2>2, <3>1 DEF InSequence
    <3>2. CASE l \in m + 1 .. m + n
      <4>1. ToSet(a[k].data) \subseteq LinesIn(a)
        BY <1>1, <1>4, Zenon DEF LinesIn
      <4>2. ToSet(b[l - m].data) \subseteq LinesIn(b)
        <5>1. l - m \in 1 .. n
          BY <1>2, <3>2
        <5> QED BY <1>1, <5>1, Zenon DEF LinesIn
      <4> QED BY <1>2, <1>4, <3>2, <4>1, <4>2 DEF Precede
    <3> QED BY <1>3, <3>1, <3>2
  <2> QED BY <2>1, <2>2
<1>5. CASE k \in m + 1 .. m + n
  <2>1. k - m \in 1 .. n /\ all[k] = b[k - m]
    BY <1>2, <1>5
  <2>2. Increasing(all[k].data)
    BY <1>1, <2>1 DEF InSequence
  <2>3. ASSUME NEW l \in 1 .. m + n, k < l
        PROVE  Precede(ToSet(all[k].data), ToSet(all[l].data))
    <3>1. l \in m + 1 .. m + n /\ k - m < l - m
      BY <1>1, <1>5, <2>3
    <3>2. l - m \in 1 .. n /\ all[l] = b[l - m]
      BY <1>2, <3>1
    <3> QED BY <1>1, <2>1, <3>1, <3>2 DEF InSequence
  <2> QED BY <2>2, <2>3
<1> QED BY <1>3, <1>4, <1>5

\* A stretch of buffers keeps their order.
LEMMA PartInSequence ==
    ASSUME NEW S, NEW bufs \in Seq(S), InSequence(bufs),
           NEW m \in Nat \ {0}, NEW n \in Nat, n <= Len(bufs)
    PROVE  InSequence(SubSeq(bufs, m, n))
<1> DEFINE part == SubSeq(bufs, m, n)
<1>1. DOMAIN bufs = 1 .. Len(bufs) /\ Len(bufs) \in Nat /\ DOMAIN part = 1 .. (n + 1 - m)
  OBVIOUS
<1>2. \A k \in 1 .. (n + 1 - m) : part[k] = bufs[m + k - 1]
  OBVIOUS
<1> HIDE DEF part
<1>3. ASSUME NEW k \in 1 .. (n + 1 - m)
      PROVE  /\ Increasing(part[k].data)
             /\ \A l \in 1 .. (n + 1 - m) :
                  k < l => Precede(ToSet(part[k].data), ToSet(part[l].data))
  <2>1. m + k - 1 \in 1 .. Len(bufs)
    BY <1>1
  <2>2. Increasing(part[k].data)
    BY <1>1, <1>2, <2>1 DEF InSequence
  <2>3. ASSUME NEW l \in 1 .. (n + 1 - m), k < l
        PROVE  Precede(ToSet(part[k].data), ToSet(part[l].data))
    <3>1. m + l - 1 \in 1 .. Len(bufs) /\ m + k - 1 < m + l - 1
      BY <1>1, <2>3
    <3> QED BY <1>1, <1>2, <2>1, <3>1 DEF InSequence
  <2> QED BY <2>2, <2>3
<1> QED BY <1>1, <1>3 DEF InSequence, part

\* Every buffer's lines come before those of the buffers behind it.
LEMMA NextPrecedesRest ==
    ASSUME NEW S, NEW bufs \in Seq(S), NEW m \in Nat \ {0}, m <= Len(bufs),
           InSequence(SubSeq(bufs, m, Len(bufs)))
    PROVE  /\ Increasing(bufs[m].data)
           /\ Precede(ToSet(bufs[m].data), LinesIn(SubSeq(bufs, m + 1, Len(bufs))))
           /\ InSequence(SubSeq(bufs, m + 1, Len(bufs)))
<1> DEFINE n == Len(bufs)
           part == SubSeq(bufs, m, n)
<1>1. n \in Nat /\ part \in Seq(S) /\ Len(part) = n + 1 - m /\ DOMAIN part = 1 .. (n + 1 - m)
  OBVIOUS
<1>2. \A k \in m .. n : k - m + 1 \in 1 .. (n + 1 - m) /\ part[k - m + 1] = bufs[k]
  OBVIOUS
<1>3. SubSeq(part, 2, n + 1 - m) = SubSeq(bufs, m + 1, n)
  OBVIOUS
<1>4. InSequence(SubSeq(bufs, m + 1, n))
  <2>1. InSequence(SubSeq(part, 2, n + 1 - m))
    <3>1. InSequence(part) /\ part \in Seq(S)
      BY <1>1
    <3>2. n + 1 - m \in Nat /\ n + 1 - m <= Len(part) /\ 2 \in Nat \ {0}
      BY <1>1
    <3> HIDE DEF part, n
    <3> QED BY <3>1, <3>2, PartInSequence
  <2> QED BY <1>3, <2>1
<1>5. LinesIn(SubSeq(bufs, m + 1, n)) = UNION {ToSet(bufs[k].data) : k \in m + 1 .. n}
  BY LinesOfRange
<1>6. ASSUME NEW k \in m + 1 .. n
      PROVE  Precede(ToSet(bufs[m].data), ToSet(bufs[k].data))
  <2>1. /\ m \in m .. n /\ k \in m .. n /\ m - m + 1 = 1 /\ 1 < k - m + 1
    BY <1>1
  <2>2. /\ 1 \in DOMAIN part /\ part[1] = bufs[m]
        /\ k - m + 1 \in DOMAIN part /\ part[k - m + 1] = bufs[k]
    BY <1>1, <1>2, <2>1
  <2> HIDE DEF part, n
  <2> QED BY <2>1, <2>2 DEF InSequence, part, n
<1>7. Precede(ToSet(bufs[m].data), LinesIn(SubSeq(bufs, m + 1, n)))
  BY <1>5, <1>6 DEF Precede
<1>8. Increasing(bufs[m].data)
  <2>1. m \in m .. n /\ m - m + 1 = 1
    BY <1>1
  <2>2. 1 \in DOMAIN part /\ part[1] = bufs[m]
    BY <1>1, <1>2, <2>1
  <2> HIDE DEF part, n
  <2> QED BY <2>2 DEF InSequence, part, n
<1> QED BY <1>4, <1>7, <1>8

\* Entries put behind a sequence: newer lines, or a notice.
LEMMA AppendedIncreases ==
    ASSUME NEW s \in Seq(Nat), Increasing(s), NEW e \in Nat,
           IsLine(e) => \A n \in ToSet(s) : IsLine(n) => n < e
    PROVE  Increasing(Append(s, e))
<1>1. /\ Len(s) \in Nat /\ DOMAIN s = 1 .. Len(s) /\ DOMAIN Append(s, e) = 1 .. Len(s) + 1
      /\ Append(s, e)[Len(s) + 1] = e /\ \A k \in 1 .. Len(s) : Append(s, e)[k] = s[k]
  OBVIOUS
<1>2. \A k \in 1 .. Len(s) : s[k] \in ToSet(s)
  BY <1>1, Zenon DEF ToSet
<1> DEFINE all == Append(s, e)
<1> HIDE DEF all
<1> SUFFICES ASSUME NEW j \in 1 .. Len(s) + 1, NEW k \in 1 .. Len(s) + 1, j < k,
                    IsLine(all[j]), IsLine(all[k])
             PROVE  all[j] < all[k]
  BY <1>1 DEF Increasing, all
<1>3. j \in 1 .. Len(s) /\ (k \in 1 .. Len(s) \/ k = Len(s) + 1)
  BY <1>1
<1>4. CASE k \in 1 .. Len(s)
  BY <1>1, <1>3, <1>4 DEF Increasing, all
<1>5. CASE k = Len(s) + 1
  BY <1>1, <1>2, <1>3, <1>5 DEF all
<1> QED BY <1>3, <1>4, <1>5

LEMMA JoinedIncreases ==
    ASSUME NEW s \in Seq(Nat), NEW r \in Seq(Nat), Increasing(s), Increasing(r),
           \A n \in ToSet(s) : IsLine(n) => \A e \in ToSet(r) : n < e
    PROVE  Increasing(s \o r)
<1> DEFINE all == s \o r
           m == Len(s)
           n == Len(r)
<1>1. /\ m \in Nat /\ n \in Nat /\ DOMAIN s = 1 .. m /\ DOMAIN r = 1 .. n
      /\ DOMAIN all = 1 .. m + n
  OBVIOUS
<1>2. /\ \A k \in 1 .. m : all[k] = s[k]
      /\ \A k \in m + 1 .. m + n : k - m \in 1 .. n /\ all[k] = r[k - m]
  OBVIOUS
<1>3. (\A k \in 1 .. m : s[k] \in ToSet(s)) /\ (\A k \in 1 .. n : r[k] \in ToSet(r))
  BY <1>1, Zenon DEF ToSet
<1> HIDE DEF all, m, n
<1> SUFFICES ASSUME NEW j \in 1 .. m + n, NEW k \in 1 .. m + n, j < k,
                    IsLine(all[j]), IsLine(all[k])
             PROVE  all[j] < all[k]
  BY <1>1 DEF Increasing, all
<1>4. CASE k \in 1 .. m
  <2>1. j \in 1 .. m
    BY <1>1, <1>4
  <2> QED BY <1>1, <1>2, <1>4, <2>1 DEF Increasing
<1>5. CASE j \in 1 .. m /\ k \in m + 1 .. m + n
  BY <1>2, <1>3, <1>5
<1>6. CASE j \in m + 1 .. m + n
  <2>1. k \in m + 1 .. m + n /\ j - m < k - m
    BY <1>1, <1>6
  <2>2. j - m \in 1 .. n /\ all[j] = r[j - m] /\ k - m \in 1 .. n /\ all[k] = r[k - m]
    BY <1>2, <1>6, <2>1
  <2> QED BY <1>1, <2>1, <2>2 DEF Increasing
<1> QED BY <1>1, <1>4, <1>5, <1>6

-----------------------------------------------------------------------------
(* InOrderOnce, place by place. *)

Ordered ==
    /\ Increasing(file) /\ InSequence(Left) /\ InSequence(buffers_)
    /\ Increasing(currentBuffer_.data)
    /\ Precede(LinesOfFile, LinesIn(Left) \cup LinesIn(buffers_) \cup ToSet(currentBuffer_.data))
    /\ Precede(LinesIn(Left), LinesIn(buffers_) \cup ToSet(currentBuffer_.data))
    /\ Precede(LinesIn(buffers_), ToSet(currentBuffer_.data))

LEMMA OrderedIsInOrderOnce == IInv /\ Ordered => InOrderOnce
<1> SUFFICES ASSUME IInv, Ordered PROVE InOrderOnce
  OBVIOUS
<1> DEFINE front == Append(buffers_, currentBuffer_)
<1>1. /\ Left \in Seq(Buffers(Nat)) /\ front \in Seq(Buffers(Nat))
      /\ buffers_ \in Seq(Buffers(Nat)) /\ currentBuffer_ \in Buffers(Nat)
  BY LeftType DEF IInv, TypeOK
<1>2. InSequence(front)
  BY <1>1, AppendedInSequence DEF Ordered
<1>3. LinesIn(front) = LinesIn(buffers_) \cup ToSet(currentBuffer_.data)
  BY <1>1, LinesOfAppend
<1> HIDE DEF front
<1>4. InSequence(Left \o front)
  BY <1>1, <1>2, <1>3, JoinedInSequence DEF Ordered
<1>5. LinesIn(Left \o front) = LinesIn(Left) \cup LinesIn(front)
  BY <1>1, LinesOfConcat
<1>6. Pending = Left \o front
  BY DEF Pending, Left, front
<1>7. Precede(LinesOfFile, LinesIn(Pending))
  BY <1>3, <1>5, <1>6, Zenon DEF Ordered, Precede
<1>8. Pending \in Seq(Buffers(Nat)) /\ InSequence(Pending)
  BY <1>1, <1>4, <1>6, ConcatProperties
<1>9. DOMAIN Pending = 1 .. Len(Pending) /\ Len(Pending) \in Nat
  BY <1>8
<1>10. ASSUME NEW k \in DOMAIN Pending
       PROVE  /\ Increasing(Pending[k].data)
              /\ Precede(LinesOfFile, ToSet(Pending[k].data))
              /\ \A l \in k + 1 .. Len(Pending) :
                   Precede(ToSet(Pending[k].data), ToSet(Pending[l].data))
  <2>1. ToSet(Pending[k].data) \subseteq LinesIn(Pending)
    BY Zenon DEF LinesIn
  <2>2. Precede(LinesOfFile, ToSet(Pending[k].data))
    BY <1>7, <2>1, Zenon DEF Precede
  <2>3. \A l \in k + 1 .. Len(Pending) : l \in DOMAIN Pending /\ k < l
    BY <1>9
  <2>4. \A l \in k + 1 .. Len(Pending) :
            Precede(ToSet(Pending[k].data), ToSet(Pending[l].data))
    BY <1>8, <2>3, Zenon DEF InSequence
  <2>5. Increasing(Pending[k].data)
    BY <1>8 DEF InSequence
  <2> QED BY <2>2, <2>4, <2>5
<1> QED BY <1>10 DEF InOrderOnce, Ordered

LEMMA NothingReorders ==
    ASSUME Ordered, Left' = Left, UNCHANGED <<file, buffers_, currentBuffer_>>
    PROVE  Ordered'
BY DEF Ordered, LinesOfFile, LinesIn, InSequence, Increasing, Precede

\* Whatever is in the file or in a buffer has been appended.
LEMMA LinesWereAppended ==
    ASSUME IInv, Accounted
    PROVE  /\ LinesOfFile \cup LinesIn(Left) \cup LinesIn(buffers_)
                \cup ToSet(currentBuffer_.data) \cup dropped \subseteq 1 .. appended
           /\ appended \in Nat
BY DEF Accounted, IInv, TypeOK

LEMMA OrderedInitially == Init => Ordered
<1> SUFFICES ASSUME Init PROVE Ordered
  OBVIOUS
<1>1. /\ Left = <<>> /\ buffers_ = <<>> /\ file = <<>>
      /\ ToSet(currentBuffer_.data) = {} /\ currentBuffer_.data = <<>>
  BY LinesOfEmptyBuffer DEF Init, Left, EmptyBuffer
<1>2. LinesOfFile = {}
  BY <1>1 DEF LinesOfFile, ToSet
<1>3. Increasing(<<>>)
  BY DEF Increasing
<1> QED BY <1>1, <1>2, <1>3, NoneInSequence, LinesOfNone DEF Ordered, Precede

LEMMA AppendOrders ==
    ASSUME IInv, Accounted, Ordered, NEW len \in MessageLens, append(len)
    PROVE  Ordered'
<1> DEFINE line == appended + 1
           C == ToSet(currentBuffer_.data)
<1>1. /\ line \in Nat
      /\ \A n \in LinesOfFile \cup LinesIn(Left) \cup LinesIn(buffers_) \cup C : n < line
  <2>1. \A n \in 1 .. appended : n < line
    BY LinesWereAppended
  <2> QED BY <2>1, LinesWereAppended
<1>2. LinesOfFile' = LinesOfFile /\ file' = file
  BY DEF append, fileVars, LinesOfFile
<1>3. Left' = Left
  <2>1. pc' = pc \/ (pc = "timeWait" /\ pc' = "woken")
    BY DEF append, appendFits, appendSwitches, Notified
  <2> QED BY <2>1 DEF append, backVars, Left
<1>4. /\ LinesIn(Left)' = LinesIn(Left) /\ InSequence(Left)' = InSequence(Left)
      /\ LinesIn(buffers_)' = LinesIn(buffers_') /\ InSequence(buffers_)' = InSequence(buffers_')
  BY <1>3 DEF LinesIn, InSequence, Increasing, Precede
<1>5. /\ buffers_ \in Seq(Buffers(Nat)) /\ currentBuffer_ \in Buffers(Nat)
      /\ currentBuffer_.data \in Seq(Nat)
  BY DEF IInv, TypeOK, Buffers
<1>6. CASE appendFits(len)
  <2>1. buffers_' = buffers_ /\ currentBuffer_'.data = Append(currentBuffer_.data, line)
    BY <1>6 DEF appendFits, AppendTo
  <2>2. ToSet(Append(currentBuffer_.data, line)) = C \cup {line}
    BY <1>1, <1>5, EntriesOfAppend
  <2>3. Increasing(Append(currentBuffer_.data, line))
    BY <1>1, <1>5, AppendedIncreases DEF Ordered
  <2>4. Increasing(file)' /\ Increasing(currentBuffer_.data)'
    BY <1>2, <2>1, <2>3 DEF Ordered, Increasing
  <2> HIDE DEF line
  <2> QED BY <1>1, <1>2, <1>4, <2>1, <2>2, <2>4 DEF Ordered, Precede
<1>7. CASE appendSwitches(len)
  <2>1. /\ buffers_' = Append(buffers_, currentBuffer_)
        /\ currentBuffer_' = AppendTo(EmptyBuffer, line, len)
    BY <1>7 DEF appendSwitches, IInv, Spares
  <2>2. LinesIn(Append(buffers_, currentBuffer_)) = LinesIn(buffers_) \cup C
    BY <1>5, LinesOfAppend
  <2>3. InSequence(Append(buffers_, currentBuffer_))
    BY <1>5, AppendedInSequence DEF Ordered
  <2>4. EmptyBuffer.data = <<>> /\ <<>> \in Seq(Nat) /\ ToSet(<<>>) = {}
        /\ Increasing(<<>>)
    BY DEF EmptyBuffer, ToSet, Increasing
  <2>5. currentBuffer_'.data = <<>> \/ currentBuffer_'.data = Append(<<>>, line)
    BY <2>1, <2>4 DEF AppendTo
  <2>6. ToSet(Append(<<>>, line)) = {line} /\ Increasing(Append(<<>>, line))
    <3> HIDE DEF line
    <3>1. ToSet(Append(<<>>, line)) = ToSet(<<>>) \cup {line}
      <4>1. \A s \in Seq(Nat) : \A e \in Nat : ToSet(Append(s, e)) = ToSet(s) \cup {e}
        BY EntriesOfAppend
      <4> QED BY <1>1, <2>4, <4>1
    <3>2. \A n \in ToSet(<<>>) : IsLine(n) => n < line
      BY <2>4
    <3>3. Increasing(Append(<<>>, line))
      BY <1>1, <2>4, <3>2, AppendedIncreases
    <3> QED BY <2>4, <3>1, <3>3
  <2> DEFINE data == currentBuffer_'.data
  <2>7. ToSet(data) \subseteq {line} /\ Increasing(data)
    BY <2>4, <2>5, <2>6
  <2>8. Increasing(file)' /\ Increasing(currentBuffer_.data)' = Increasing(data)
    BY <1>2 DEF Ordered, Increasing
  <2> HIDE DEF line, data
  <2>9. /\ Precede(LinesOfFile, LinesIn(Left) \cup LinesIn(buffers_) \cup C \cup ToSet(data))
        /\ Precede(LinesIn(Left), LinesIn(buffers_) \cup C \cup ToSet(data))
        /\ Precede(LinesIn(buffers_) \cup C, ToSet(data))
    BY <1>1, <2>7 DEF Ordered, Precede
  <2>10. ToSet(currentBuffer_.data)' = ToSet(data)
    BY DEF data
  <2> QED BY <1>2, <1>4, <2>1, <2>2, <2>3, <2>7, <2>8, <2>9, <2>10 DEF Ordered, Precede
<1> QED BY <1>6, <1>7 DEF append

LEMMA SwapOrders == IInv /\ Ordered /\ swap => Ordered'
<1> SUFFICES ASSUME IInv, Ordered, swap PROVE Ordered'
  OBVIOUS
<1> DEFINE batch == Append(buffers_, currentBuffer_)
<1>1. UNCHANGED file /\ LinesOfFile' = LinesOfFile
  BY DEF swap, fileVars, LinesOfFile
<1>2. Left' = batch /\ buffers_' = <<>> /\ currentBuffer_' = EmptyBuffer
  BY DEF swap, Left, Batch, IInv, Spares
<1>3. /\ buffers_ \in Seq(Buffers(Nat)) /\ currentBuffer_ \in Buffers(Nat)
  BY DEF IInv, TypeOK
<1>4. LinesIn(batch) = LinesIn(buffers_) \cup ToSet(currentBuffer_.data)
  BY <1>3, LinesOfAppend
<1>5. InSequence(batch)
  BY <1>3, AppendedInSequence DEF Ordered
<1>6. ToSet(EmptyBuffer.data) = {} /\ Increasing(EmptyBuffer.data)
  BY LinesOfEmptyBuffer DEF EmptyBuffer, Increasing
<1> HIDE DEF batch
<1>7. LinesIn(Left)' = LinesIn(batch) /\ InSequence(Left)' = InSequence(batch)
      /\ LinesIn(buffers_)' = LinesIn(<<>>) /\ InSequence(buffers_)' = InSequence(<<>>)
      /\ Increasing(file)' = Increasing(file)
      /\ Increasing(currentBuffer_.data)' = Increasing(EmptyBuffer.data)
      /\ ToSet(currentBuffer_.data)' = {}
  BY <1>1, <1>2, <1>6 DEF LinesIn, InSequence, Increasing, Precede
<1> QED BY <1>1, <1>4, <1>5, <1>6, <1>7, LinesOfNone, NoneInSequence DEF Ordered, Precede

LEMMA DropOrders == IInv /\ Ordered /\ dropExcess => Ordered'
<1> SUFFICES ASSUME IInv, Ordered, dropExcess PROVE Ordered'
  OBVIOUS
<1>1. UNCHANGED <<buffers_, currentBuffer_>>
  BY DEF dropExcess, frontVars
<1>2. Left = buffersToWrite /\ i' = 1 /\ pc' = "write"
  BY DEF dropExcess, Left
<1>3. buffersToWrite \in Seq(Buffers(Nat)) /\ Len(buffersToWrite) \in Nat
  BY DEF IInv, TypeOK
<1>4. CASE Len(buffersToWrite) > MaxBuffersToWrite
  <2> DEFINE kept == SubSeq(buffersToWrite, 1, 2)
             noted == Append(file, DropNotice)
  <2>1. buffersToWrite' = kept /\ file' = noted
    BY <1>4, AsyncAssumption, <1>3 DEF dropExcess, Announced
  <2>2. 2 <= Len(buffersToWrite)
    BY <1>3, <1>4, AsyncAssumption
  <2>3. LinesIn(kept) \subseteq LinesIn(Left)
    BY <1>2, <1>3, <2>2, LinesOfParts
  <2>4. kept \in Seq(Buffers(Nat)) /\ Len(kept) = 2
    BY <1>3, <2>2
  <2>5. InSequence(kept)
    <3> HIDE DEF kept
    <3>1. InSequence(buffersToWrite) /\ 1 \in Nat \ {0} /\ 2 \in Nat
      BY <1>2 DEF Ordered
    <3> QED BY <1>3, <2>2, <3>1, PartInSequence DEF kept
  <2>6. Left' = kept
    <3>1. Left' = SubSeq(kept, 1, Len(kept))
      BY <1>2, <2>1 DEF Left
    <3> QED BY <2>4, <3>1
  <2>7. file \in Seq(Nat) /\ DropNotice \in Nat /\ ~ IsLine(DropNotice)
    BY DEF IInv, TypeOK, DropNotice, IsLine
  <2>8. Increasing(noted)
    BY <2>7, AppendedIncreases DEF Ordered
  <2>9. {n \in ToSet(noted) : IsLine(n)} = LinesOfFile
    <3>1. ToSet(noted) = ToSet(file) \cup {DropNotice}
      BY <2>7, EntriesOfAppend
    <3> QED BY <2>7, <3>1 DEF LinesOfFile
  <2> HIDE DEF kept, noted
  <2>10. /\ LinesOfFile' = LinesOfFile /\ Increasing(file)' = Increasing(noted)
         /\ LinesIn(Left)' = LinesIn(kept) /\ InSequence(Left)' = InSequence(kept)
         /\ LinesIn(buffers_)' = LinesIn(buffers_) /\ InSequence(buffers_)' = InSequence(buffers_)
         /\ Increasing(currentBuffer_.data)' = Increasing(currentBuffer_.data)
    BY <1>1, <2>1, <2>6, <2>9 DEF LinesOfFile, LinesIn, InSequence, Increasing, Precede
  <2> QED BY <1>1, <2>3, <2>5, <2>8, <2>10 DEF Ordered, Precede
<1>5. CASE ~ Len(buffersToWrite) > MaxBuffersToWrite
  <2>1. UNCHANGED <<file, buffersToWrite>>
    BY <1>3, <1>5, AsyncAssumption DEF dropExcess
  <2>2. Left' = SubSeq(buffersToWrite, 1, Len(buffersToWrite))
    BY <1>2, <2>1 DEF Left
  <2>3. Left' = Left
    BY <1>2, <1>3, <2>2
  <2> QED BY <1>1, <2>1, <2>3, NothingReorders
<1> QED BY <1>4, <1>5

LEMMA WriteOrders == IInv /\ Accounted /\ Ordered /\ writeBuffer => Ordered'
<1> SUFFICES ASSUME IInv, Accounted, Ordered, writeBuffer PROVE Ordered'
  OBVIOUS
<1> DEFINE n == Len(buffersToWrite)
           data == buffersToWrite[i].data
           rest == SubSeq(buffersToWrite, i + 1, n)
<1>1. UNCHANGED <<buffers_, currentBuffer_>>
  BY DEF writeBuffer, frontVars
<1>2. /\ buffersToWrite \in Seq(Buffers(Nat)) /\ i \in Nat \ {0} /\ i <= n
  BY DEF IInv, TypeOK, writeBuffer
<1>3. Left = SubSeq(buffersToWrite, i, n) /\ Left' = rest /\ file' = file \o data
  BY DEF writeBuffer, Left
<1>4. LinesIn(Left) = ToSet(data) \cup LinesIn(rest)
  BY <1>2, <1>3, LinesOfNext
<1>5. Increasing(data) /\ Precede(ToSet(data), LinesIn(rest)) /\ InSequence(rest)
  <2>1. InSequence(SubSeq(buffersToWrite, i, n))
    BY <1>3 DEF Ordered
  <2> HIDE DEF data, rest
  <2> QED BY <1>2, <2>1, NextPrecedesRest DEF data, rest
<1>6. data \in Seq(Nat) /\ file \in Seq(Nat)
  <2>1. buffersToWrite[i] \in Buffers(Nat)
    BY <1>2
  <2> QED BY <2>1 DEF Buffers, IInv, TypeOK
<1>7. ToSet(file \o data) = ToSet(file) \cup ToSet(data)
  BY <1>6, EntriesOfConcat
<1>8. Increasing(file \o data)
  <2>1. \A m \in ToSet(file) : IsLine(m) => \A e \in ToSet(data) : m < e
    BY <1>4 DEF Ordered, Precede, LinesOfFile
  <2> HIDE DEF data
  <2> QED BY <1>5, <1>6, <2>1, JoinedIncreases DEF Ordered
<1> HIDE DEF data, rest
<1>9. LinesOfFile' \subseteq LinesOfFile \cup ToSet(data)
  <2>1. ToSet(file)' = ToSet(file) \cup ToSet(data)
    BY <1>3, <1>7
  <2> QED BY <2>1 DEF LinesOfFile
<1>10. /\ Increasing(file)' = Increasing(file \o data)
       /\ LinesIn(Left)' = LinesIn(rest) /\ InSequence(Left)' = InSequence(rest)
       /\ LinesIn(buffers_)' = LinesIn(buffers_) /\ InSequence(buffers_)' = InSequence(buffers_)
       /\ Increasing(currentBuffer_.data)' = Increasing(currentBuffer_.data)
  BY <1>1, <1>3 DEF LinesIn, InSequence, Increasing, Precede
<1>11. Precede(LinesOfFile \cup ToSet(data),
               LinesIn(rest) \cup LinesIn(buffers_) \cup ToSet(currentBuffer_.data))
  BY <1>4, <1>5 DEF Ordered, Precede
<1> QED BY <1>1, <1>4, <1>5, <1>8, <1>9, <1>10, <1>11 DEF Ordered, Precede

LEMMA BackendOrders == IInv /\ Accounted /\ Ordered /\ Backend => Ordered'
<1> SUFFICES ASSUME IInv, Accounted, Ordered, Backend PROVE Ordered'
  OBVIOUS
<1>1. CASE swap
  BY <1>1, SwapOrders
<1>2. CASE dropExcess
  BY <1>2, DropOrders
<1>3. CASE writeBuffer
  BY <1>3, WriteOrders
<1>4. CASE recycle
  <2>1. SubSeq(buffersToWrite, i, Len(buffersToWrite)) = <<>>
    BY <1>4 DEF recycle, IInv, TypeOK
  <2>2. Left' = Left /\ UNCHANGED <<file, buffers_, currentBuffer_>>
    BY <1>4, <2>1 DEF recycle, Left, frontVars
  <2> QED BY <2>2, NothingReorders
<1>5. CASE runInThread \/ enter \/ loopTest \/ loopExit \/ timeWait \/ timeWaitExpires
  BY <1>5, RestIsUntouched, NothingReorders
<1> QED BY <1>1, <1>2, <1>3, <1>4, <1>5 DEF Backend

LEMMA OrderIsKept == Spec => []Ordered
<1>1. IInv /\ Accounted /\ Ordered /\ [Next]_vars => Ordered'
  <2> SUFFICES ASSUME IInv, Accounted, Ordered, [Next]_vars PROVE Ordered'
    OBVIOUS
  <2>1. CASE \E len \in MessageLens : append(len)
    BY <2>1, AppendOrders
  <2>2. CASE Owner
    BY <2>2, OwnerMovesNothing, NothingReorders DEF frontVars, fileVars
  <2>3. CASE Backend
    BY <2>3, BackendOrders
  <2>4. CASE UNCHANGED vars
    <3>1. Left' = Left
      BY <2>4 DEF vars, backVars, Left
    <3> QED BY <2>4, <3>1, NothingReorders DEF vars, frontVars, fileVars
  <2> QED BY <2>1, <2>2, <2>3, <2>4 DEF Next
<1> QED BY <1>1, OrderedInitially, AccountIsKept, Inductive, PTL DEF Spec

\* The file is in the order of the append() calls, and will be: what is still
\* in a buffer is newer than the file, and the buffers, those of the batch,
\* the full ones and the current one, are in order among each other.  So a
\* recycled buffer never brings a line back, and no swap overtakes another.
THEOREM LinesStayInOrder == Spec => []InOrderOnce
BY OrderIsKept, OrderedIsInOrderOnce, Inductive, PTL

-----------------------------------------------------------------------------
(* The refinement of LogChannel, step by step. *)

\* The lines of a sequence of buffers, one buffer after the other.
Texts(bufs) == [k \in 1 .. Len(bufs) |-> bufs[k].data]
Text(bufs) == FlattenSeq(Texts(bufs))

LEMMA TextsType ==
    ASSUME NEW bufs \in Seq(Buffers(Nat))
    PROVE  Texts(bufs) \in Seq(Seq(Nat)) /\ Len(Texts(bufs)) = Len(bufs)
<1>1. ASSUME NEW k \in 1 .. Len(bufs) PROVE bufs[k].data \in Seq(Nat)
  <2>1. bufs[k] \in Buffers(Nat)
    OBVIOUS
  <2> QED BY <2>1 DEF Buffers
<1>2. Len(bufs) \in Nat
  OBVIOUS
<1> QED BY <1>1, <1>2 DEF Texts

LEMMA TextType ==
    ASSUME NEW bufs \in Seq(Buffers(Nat))
    PROVE  Text(bufs) \in Seq(Nat)
BY TextsType, FlattenType DEF Text

LEMMA TextOfNone == Text(<<>>) = <<>>
<1>1. Texts(<<>>) = <<>>
  BY DEF Texts
<1> QED BY <1>1, FlattenNone DEF Text

LEMMA TextOfAppend ==
    ASSUME NEW bufs \in Seq(Buffers(Nat)), NEW b \in Buffers(Nat)
    PROVE  Text(Append(bufs, b)) = Text(bufs) \o b.data
<1>1. Texts(Append(bufs, b)) = Append(Texts(bufs), b.data)
  BY DEF Texts
<1>2. Texts(bufs) \in Seq(Seq(Nat)) /\ b.data \in Seq(Nat)
  BY TextsType DEF Buffers
<1> QED BY <1>1, <1>2, FlattenAppend DEF Text

LEMMA TextOfConcat ==
    ASSUME NEW a \in Seq(Buffers(Nat)), NEW b \in Seq(Buffers(Nat))
    PROVE  Text(a \o b) = Text(a) \o Text(b)
<1>1. Texts(a \o b) = Texts(a) \o Texts(b)
  BY DEF Texts
<1>2. Texts(a) \in Seq(Seq(Nat)) /\ Texts(b) \in Seq(Seq(Nat))
  BY TextsType
<1> QED BY <1>1, <1>2, FlattenConcat DEF Text

LEMMA PartsJoin ==
    ASSUME NEW S, NEW s \in Seq(S), NEW m \in Nat, m <= Len(s)
    PROVE  /\ SubSeq(s, 1, m) \in Seq(S) /\ SubSeq(s, m + 1, Len(s)) \in Seq(S)
           /\ s = SubSeq(s, 1, m) \o SubSeq(s, m + 1, Len(s))
<1>1. /\ SubSeq(s, 1, m) \in Seq(S) /\ Len(SubSeq(s, 1, m)) = m
      /\ \A k \in 1 .. m : SubSeq(s, 1, m)[k] = s[k]
  OBVIOUS
<1>2. /\ SubSeq(s, m + 1, Len(s)) \in Seq(S) /\ Len(SubSeq(s, m + 1, Len(s))) = Len(s) - m
      /\ \A k \in 1 .. Len(s) - m : SubSeq(s, m + 1, Len(s))[k] = s[m + k]
  OBVIOUS
<1>3. SubSeq(s, 1, m) \o SubSeq(s, m + 1, Len(s)) = SubSeq(s, 1, Len(s))
  <2>1. 1 \in 1 .. Len(s) + 1 /\ m \in 1 - 1 .. Len(s) /\ Len(s) \in m .. Len(s)
    OBVIOUS
  <2> QED BY <2>1, ConcatAdjacentSubSeq
<1> QED BY <1>1, <1>2, <1>3, SubSeqFull

LEMMA NextJoins ==
    ASSUME NEW S, NEW s \in Seq(S), NEW m \in Nat \ {0}, m <= Len(s)
    PROVE  /\ SubSeq(s, m, Len(s)) \in Seq(S) /\ SubSeq(s, m + 1, Len(s)) \in Seq(S)
           /\ s[m] \in S /\ Append(<<>>, s[m]) \in Seq(S)
           /\ SubSeq(s, m, Len(s)) = Append(<<>>, s[m]) \o SubSeq(s, m + 1, Len(s))
<1>1. /\ SubSeq(s, m, Len(s)) \in Seq(S) /\ Len(SubSeq(s, m, Len(s))) = Len(s) - m + 1
      /\ \A k \in 1 .. Len(s) - m + 1 : SubSeq(s, m, Len(s))[k] = s[m + k - 1]
  OBVIOUS
<1>2. /\ SubSeq(s, m + 1, Len(s)) \in Seq(S) /\ Len(SubSeq(s, m + 1, Len(s))) = Len(s) - m
      /\ \A k \in 1 .. Len(s) - m : SubSeq(s, m + 1, Len(s))[k] = s[m + k]
  OBVIOUS
<1>3. /\ Append(<<>>, s[m]) \in Seq(S) /\ Len(Append(<<>>, s[m])) = 1
      /\ Append(<<>>, s[m])[1] = s[m] /\ s[m] \in S
  OBVIOUS
<1> QED BY <1>1, <1>2, <1>3

LEMMA TextOfParts ==
    ASSUME NEW bufs \in Seq(Buffers(Nat)), NEW m \in Nat, m <= Len(bufs)
    PROVE  Text(bufs) = Text(SubSeq(bufs, 1, m)) \o Text(SubSeq(bufs, m + 1, Len(bufs)))
<1>1. /\ SubSeq(bufs, 1, m) \in Seq(Buffers(Nat))
      /\ SubSeq(bufs, m + 1, Len(bufs)) \in Seq(Buffers(Nat))
      /\ bufs = SubSeq(bufs, 1, m) \o SubSeq(bufs, m + 1, Len(bufs))
  BY PartsJoin
<1> QED BY <1>1, TextOfConcat

\* The write loop delivers the lines of one buffer after the other.
LEMMA TextOfNext ==
    ASSUME NEW bufs \in Seq(Buffers(Nat)), NEW m \in Nat \ {0}, m <= Len(bufs)
    PROVE  Text(SubSeq(bufs, m, Len(bufs)))
             = bufs[m].data \o Text(SubSeq(bufs, m + 1, Len(bufs)))
<1> DEFINE one == Append(<<>>, bufs[m])
           rest == SubSeq(bufs, m + 1, Len(bufs))
<1>1. /\ bufs[m] \in Buffers(Nat) /\ one \in Seq(Buffers(Nat)) /\ rest \in Seq(Buffers(Nat))
      /\ SubSeq(bufs, m, Len(bufs)) = one \o rest
  BY NextJoins
<1>2. Text(one) = Text(<<>>) \o bufs[m].data /\ bufs[m].data \in Seq(Nat)
  <2>1. <<>> \in Seq(Buffers(Nat))
    OBVIOUS
  <2> QED BY <1>1, <2>1, TextOfAppend DEF Buffers
<1>3. Text(one) = bufs[m].data
  <2> DEFINE d == bufs[m].data
  <2>1. Text(one) = <<>> \o d /\ d \in Seq(Nat)
    BY <1>2, TextOfNone
  <2> HIDE DEF d, one
  <2>2. <<>> \o d = d
    BY <2>1
  <2> QED BY <2>1, <2>2 DEF d
<1> HIDE DEF one, rest
<1>4. Text(one \o rest) = Text(one) \o Text(rest)
  BY <1>1, TextOfConcat
<1> QED BY <1>1, <1>3, <1>4 DEF rest

\* The backlog, place by place.
Text3(left, bufs, cur) == (Text(left) \o Text(bufs)) \o cur.data

LEMMA BacklogByPlace ==
    ASSUME NEW left \in Seq(Buffers(Nat)), NEW bufs \in Seq(Buffers(Nat)),
           NEW cur \in Buffers(Nat)
    PROVE  Text(left \o Append(bufs, cur)) = Text3(left, bufs, cur)
<1>1. Append(bufs, cur) \in Seq(Buffers(Nat)) /\ cur.data \in Seq(Nat)
  BY DEF Buffers
<1>2. Text(left \o Append(bufs, cur)) = Text(left) \o (Text(bufs) \o cur.data)
  BY <1>1, TextOfConcat, TextOfAppend
<1> DEFINE a == Text(left)
           b == Text(bufs)
           c == cur.data
<1>3. a \in Seq(Nat) /\ b \in Seq(Nat) /\ c \in Seq(Nat)
  BY <1>1, TextType
<1> HIDE DEF a, b, c
<1>4. a \o (b \o c) = (a \o b) \o c
  BY <1>3, SMTT(30)
<1> QED BY <1>2, <1>4 DEF Text3, a, b, c

LEMMA BacklogIsText ==
    ASSUME IInv
    PROVE  Backlog = Text3(Left, buffers_, currentBuffer_)
<1>1. Backlog = Text(Left \o Append(buffers_, currentBuffer_))
  BY DEF Backlog, Text, Texts, Pending, Left
<1> QED BY <1>1, LeftType, BacklogByPlace DEF IInv, TypeOK

LEMMA NextBacklogIsText ==
    ASSUME TypeOK', Left' \in Seq(Buffers(Nat))
    PROVE  Backlog' = Text3(Left', buffers_', currentBuffer_')
<1>1. Backlog' = Text(Left' \o Append(buffers_', currentBuffer_'))
  BY DEF Backlog, Text, Texts, Pending, Left
<1> QED BY <1>1, BacklogByPlace DEF TypeOK

\* Cutting the text of a backlog where two parts of it meet.
LEMMA CutConcat ==
    ASSUME NEW S, NEW a \in Seq(S), NEW b \in Seq(S)
    PROVE  /\ SubSeq(a \o b, 1, Len(a)) = a
           /\ SubSeq(a \o b, Len(a) + 1, Len(a \o b)) = b
           /\ Len(a \o b) = Len(a) + Len(b) /\ Len(a) \in Nat /\ Len(b) \in Nat
OBVIOUS

\* Where the parentheses of a concatenation stand does not matter.
JoinOfThree(a, b, c) == (a \o b) \o c = a \o (b \o c) /\ (a \o b) \o c \in Seq(Nat)
JoinOfFour(a, b, c, d) ==
    /\ ((a \o b) \o c) \o d = (a \o b) \o (c \o d)
    /\ ((a \o b) \o c) \o d = a \o (b \o (c \o d))
    /\ ((a \o b) \o c) \o d = a \o ((b \o c) \o d)

LEMMA ConcatOfThree ==
    ASSUME NEW a \in Seq(Nat), NEW b \in Seq(Nat), NEW c \in Seq(Nat)
    PROVE  JoinOfThree(a, b, c)
BY DEF JoinOfThree

LEMMA ConcatOfFour ==
    ASSUME NEW a \in Seq(Nat), NEW b \in Seq(Nat), NEW c \in Seq(Nat), NEW d \in Seq(Nat)
    PROVE  JoinOfFour(a, b, c, d)
<1>1. a \o b \in Seq(Nat) /\ b \o c \in Seq(Nat) /\ c \o d \in Seq(Nat)
  OBVIOUS
<1>2. JoinOfThree(a, b, c) /\ JoinOfThree(a, b, c \o d)
  BY <1>1, ConcatOfThree
<1>3. JoinOfThree(a \o b, c, d) /\ JoinOfThree(a, b \o c, d)
  BY <1>1, ConcatOfThree
<1> QED BY <1>2, <1>3 DEF JoinOfThree, JoinOfFour

LEMMA EmptyEnds ==
    ASSUME NEW S, NEW a \in Seq(S)
    PROVE  <<>> \o a = a /\ a \o <<>> = a
OBVIOUS

\* The three parts of the backlog are sequences of lines.
LEMMA PlaceTypes ==
    ASSUME IInv
    PROVE  Text(Left) \in Seq(Nat) /\ Text(buffers_) \in Seq(Nat)
             /\ currentBuffer_.data \in Seq(Nat)
BY LeftType, TextType DEF IInv, TypeOK, Buffers

LEMMA NothingPasses ==
    ASSUME IInv, IInv', Left' = Left,
           UNCHANGED <<appended, file, buffers_, currentBuffer_>>
    PROVE  UNCHANGED Channel!vars
<1>1. Backlog = Text3(Left, buffers_, currentBuffer_)
  BY BacklogIsText
<1>2. Backlog' = Text3(Left, buffers_, currentBuffer_)
  BY LeftType, NextBacklogIsText DEF IInv
<1> QED BY <1>1, <1>2 DEF Channel!vars

LEMMA AppendPasses ==
    ASSUME IInv, IInv', NEW len \in MessageLens, append(len)
    PROVE  Channel!Accept \/ Channel!Refuse
<1> DEFINE line == appended + 1
           L == Text(Left)
           B == Text(buffers_)
           c == currentBuffer_.data
<1>1. L \in Seq(Nat) /\ B \in Seq(Nat) /\ c \in Seq(Nat) /\ line \in Nat
  BY PlaceTypes DEF IInv, TypeOK
<1>2. Left' = Left
  <2>1. pc' = pc \/ (pc = "timeWait" /\ pc' = "woken")
    BY DEF append, appendFits, appendSwitches, Notified
  <2> QED BY <2>1 DEF append, backVars, Left
<1>3. appended' = line /\ file' = file
  BY DEF append, fileVars
<1>4. Backlog = (L \o B) \o c
  BY BacklogIsText DEF Text3
<1>5. Backlog' = (L \o Text(buffers_')) \o currentBuffer_'.data
  BY <1>2, LeftType, NextBacklogIsText DEF IInv, Text3
<1>6. CASE appendFits(len)
  <2>1. buffers_' = buffers_ /\ currentBuffer_'.data = Append(c, line)
    BY <1>6 DEF appendFits, AppendTo
  <2>2. Backlog' = (L \o B) \o Append(c, line)
    BY <1>5, <2>1
  <2> DEFINE LB == L \o B
  <2> HIDE DEF L, B, c, line
  <2>3. LB \in Seq(Nat)
    BY <1>1
  <2>4. LB \o Append(c, line) = Append(LB \o c, line)
    <3> HIDE DEF LB
    <3> QED BY <1>1, <2>3, AppendAfterConcat, SMTT(30)
  <2>5. Backlog' = Append(Backlog, line)
    BY <1>4, <2>2, <2>4
  <2> QED BY <1>3, <2>5 DEF Channel!Accept, line
<1>7. CASE appendSwitches(len)
  <2> DEFINE d == currentBuffer_'.data
  <2>1. /\ buffers_' = Append(buffers_, currentBuffer_)
        /\ currentBuffer_' = AppendTo(EmptyBuffer, line, len)
    BY <1>7 DEF appendSwitches, IInv, Spares
  <2>2. Text(buffers_') = B \o c
    BY <2>1, TextOfAppend DEF IInv, TypeOK
  <2>3. d = <<>> \/ d = Append(<<>>, line)
    BY <2>1 DEF AppendTo, EmptyBuffer
  <2>4. Backlog' = (L \o (B \o c)) \o d
    BY <1>5, <2>2
  <2> HIDE DEF L, B, c, line, d
  <2>5. L \o (B \o c) = (L \o B) \o c /\ (L \o B) \o c \in Seq(Nat)
    <3>1. JoinOfThree(L, B, c)
      BY <1>1, ConcatOfThree
    <3> QED BY <3>1 DEF JoinOfThree
  <2>6. Backlog' = Backlog \o d /\ Backlog \in Seq(Nat)
    BY <1>4, <2>4, <2>5
  <2>7. CASE d = <<>>
    <3>1. Backlog' = Backlog
      BY <2>6, <2>7, EmptyEnds
    <3> QED BY <1>3, <3>1 DEF Channel!Refuse, line
  <2>8. CASE d = Append(<<>>, line)
    <3>1. <<>> \in Seq(Nat)
      OBVIOUS
    <3>2. Backlog \o Append(<<>>, line) = Append(Backlog \o <<>>, line)
      BY <1>1, <2>6, <3>1, AppendAfterConcat
    <3>3. Backlog' = Append(Backlog, line)
      BY <2>6, <2>8, <3>2, EmptyEnds
    <3> QED BY <1>3, <3>3 DEF Channel!Accept, line
  <2> QED BY <2>3, <2>7, <2>8
<1> QED BY <1>6, <1>7 DEF append

LEMMA SwapPasses ==
    ASSUME IInv, IInv', swap
    PROVE  UNCHANGED Channel!vars
<1> DEFINE B == Text(buffers_)
           c == currentBuffer_.data
<1>1. B \in Seq(Nat) /\ c \in Seq(Nat)
  BY PlaceTypes
<1>2. UNCHANGED <<appended, file>>
  BY DEF swap, fileVars, histVars
<1>3. Left = <<>>
  BY DEF swap, Left
<1>4. Left' = Append(buffers_, currentBuffer_) /\ buffers_' = <<>>
      /\ currentBuffer_'.data = <<>>
  BY DEF swap, Left, Batch, IInv, Spares, EmptyBuffer
<1>5. Backlog = (<<>> \o B) \o c
  BY <1>3, BacklogIsText, TextOfNone DEF Text3
<1>6. Backlog' = ((B \o c) \o <<>>) \o <<>>
  <2>1. Append(buffers_, currentBuffer_) \in Seq(Buffers(Nat))
        /\ Text(Append(buffers_, currentBuffer_)) = B \o c
    BY TextOfAppend, SMTT(30) DEF IInv, TypeOK
  <2> QED BY <1>4, <2>1, NextBacklogIsText, TextOfNone DEF IInv, Text3
<1> HIDE DEF B, c
<1>7. Backlog' = Backlog
  <2>1. B \o c \in Seq(Nat) /\ <<>> \o B = B
    BY <1>1
  <2> QED BY <1>5, <1>6, <2>1, EmptyEnds
<1> QED BY <1>2, <1>7 DEF Channel!vars

\* Erasing the excess of a batch takes one stretch out of the backlog.
LEMMA DropPasses ==
    ASSUME IInv, IInv', dropExcess
    PROVE  \/ UNCHANGED Channel!vars
           \/ \E last \in 0 .. Len(Backlog) : \E first \in 0 .. last :
                Channel!Drop(first, last)
<1>1. UNCHANGED <<appended, buffers_, currentBuffer_>>
  BY DEF dropExcess, frontVars
<1>2. Left = buffersToWrite /\ i' = 1 /\ pc' = "write"
  BY DEF dropExcess, Left
<1>3. buffersToWrite \in Seq(Buffers(Nat)) /\ Len(buffersToWrite) \in Nat
  BY DEF IInv, TypeOK
<1>4. CASE Len(buffersToWrite) > MaxBuffersToWrite
  <2> DEFINE kept == SubSeq(buffersToWrite, 1, 2)
             excess == SubSeq(buffersToWrite, 2 + 1, Len(buffersToWrite))
             K == Text(kept)
             E == Text(excess)
             B == Text(buffers_)
             c == currentBuffer_.data
             R == B \o c
  <2>1. buffersToWrite' = kept /\ file' = Append(file, DropNotice)
    BY <1>4, AsyncAssumption, <1>3 DEF dropExcess, Announced
  <2>2. 2 <= Len(buffersToWrite)
    BY <1>3, <1>4, AsyncAssumption
  <2>3. Text(Left) = K \o E
    BY <1>2, <1>3, <2>2, TextOfParts
  <2>4. kept \in Seq(Buffers(Nat)) /\ Len(kept) = 2 /\ excess \in Seq(Buffers(Nat))
    BY <1>3, <2>2
  <2>5. Left' = kept
    <3>1. Left' = SubSeq(kept, 1, Len(kept))
      BY <1>2, <2>1 DEF Left
    <3> QED BY <2>4, <3>1
  <2>6. Backlog = ((K \o E) \o B) \o c
    BY <2>3, BacklogIsText DEF Text3
  <2>7. Backlog' = (K \o B) \o c
    BY <1>1, <2>4, <2>5, NextBacklogIsText DEF Text3, IInv
  <2>8. K \in Seq(Nat) /\ E \in Seq(Nat) /\ B \in Seq(Nat) /\ c \in Seq(Nat)
    BY <2>4, TextType, PlaceTypes
  <2> HIDE DEF kept, excess, K, E, B, c
  <2>9. R \in Seq(Nat) /\ K \o E \in Seq(Nat) /\ E \o R \in Seq(Nat)
    BY <2>8
  <2>10. Backlog = (K \o E) \o R /\ Backlog = K \o (E \o R) /\ Backlog' = K \o R
    <3>1. JoinOfFour(K, E, B, c)
      BY <2>8, ConcatOfFour
    <3>2. JoinOfThree(K, B, c)
      BY <2>8, ConcatOfThree
    <3> QED BY <2>6, <2>7, <3>1, <3>2 DEF JoinOfThree, JoinOfFour
  <2> HIDE DEF R
  <2>11. /\ SubSeq(Backlog, 1, Len(K)) = K
         /\ SubSeq(Backlog, Len(K \o E) + 1, Len(Backlog)) = R
    BY <2>8, <2>9, <2>10, CutConcat
  <2>12. /\ Len(K) \in 0 .. Len(K \o E)
         /\ Len(K \o E) \in 0 .. Len(Backlog)
    <3>1. Len(K \o E) = Len(K) + Len(E) /\ Len(K) \in Nat /\ Len(E) \in Nat
      BY <2>8
    <3>2. Len(Backlog) = Len(K \o E) + Len(R) /\ Len(R) \in Nat /\ Len(K \o E) \in Nat
      BY <2>9, <2>10, CutConcat
    <3> QED BY <3>1, <3>2
  <2>13. Channel!Drop(Len(K), Len(K \o E))
    BY <1>1, <2>1, <2>10, <2>11 DEF Channel!Drop
  <2> QED BY <2>12, <2>13
<1>5. CASE ~ Len(buffersToWrite) > MaxBuffersToWrite
  <2>1. UNCHANGED <<file, buffersToWrite>>
    BY <1>3, <1>5, AsyncAssumption DEF dropExcess
  <2>2. Left' = SubSeq(buffersToWrite, 1, Len(buffersToWrite))
    BY <1>2, <2>1 DEF Left
  <2>3. Left' = Left
    BY <1>2, <1>3, <2>2
  <2> QED BY <1>1, <2>1, <2>3, NothingPasses
<1> QED BY <1>4, <1>5

\* A buffer is delivered whole; an empty one is no step of the channel.
LEMMA WritePasses ==
    ASSUME IInv, IInv', writeBuffer
    PROVE  \/ UNCHANGED Channel!vars
           \/ \E n \in 1 .. Len(Backlog) : Channel!Deliver(n)
<1> DEFINE d == buffersToWrite[i].data
           rest == SubSeq(buffersToWrite, i + 1, Len(buffersToWrite))
           T == Text(rest)
           B == Text(buffers_)
           c == currentBuffer_.data
           R == (T \o B) \o c
<1>1. UNCHANGED <<appended, buffers_, currentBuffer_>>
  BY DEF writeBuffer, frontVars, histVars
<1>2. /\ buffersToWrite \in Seq(Buffers(Nat)) /\ Len(buffersToWrite) \in Nat
      /\ i \in Nat \ {0} /\ i <= Len(buffersToWrite)
  BY DEF IInv, TypeOK, writeBuffer
<1>3. Left = SubSeq(buffersToWrite, i, Len(buffersToWrite)) /\ Left' = rest
      /\ file' = file \o d
  BY DEF writeBuffer, Left
<1>4. Text(Left) = d \o T /\ rest \in Seq(Buffers(Nat)) /\ buffersToWrite[i] \in Buffers(Nat)
  BY <1>2, <1>3, TextOfNext, NextJoins
<1>5. Backlog = ((d \o T) \o B) \o c
  BY <1>4, BacklogIsText DEF Text3
<1>6. Backlog' = R
  BY <1>1, <1>3, <1>4, NextBacklogIsText DEF Text3, IInv
<1>7. /\ d \in Seq(Nat) /\ T \in Seq(Nat) /\ B \in Seq(Nat) /\ c \in Seq(Nat)
      /\ file \in Seq(Nat)
  BY <1>4, TextType, PlaceTypes DEF Buffers, IInv, TypeOK
<1> HIDE DEF d, rest, T, B, c
<1>8. R \in Seq(Nat) /\ Backlog = d \o R
  <2>1. JoinOfThree(T, B, c) /\ JoinOfFour(d, T, B, c)
    BY <1>7, ConcatOfThree, ConcatOfFour
  <2> QED BY <1>5, <2>1 DEF JoinOfThree, JoinOfFour
<1> HIDE DEF R
<1>9. /\ SubSeq(Backlog, 1, Len(d)) = d
      /\ SubSeq(Backlog, Len(d) + 1, Len(Backlog)) = R
      /\ Len(Backlog) = Len(d) + Len(R) /\ Len(d) \in Nat /\ Len(R) \in Nat
  BY <1>7, <1>8, CutConcat
<1>10. CASE d = <<>>
  <2>1. file' = file /\ Backlog' = Backlog
    BY <1>3, <1>6, <1>7, <1>8, <1>10, EmptyEnds
  <2> QED BY <1>1, <2>1 DEF Channel!vars
<1>11. CASE d # <<>>
  <2>1. Len(d) \in 1 .. Len(Backlog)
    BY <1>7, <1>9, <1>11
  <2>2. Channel!Deliver(Len(d))
    BY <1>1, <1>3, <1>6, <1>9 DEF Channel!Deliver
  <2> QED BY <2>1, <2>2
<1> QED BY <1>10, <1>11

LEMMA BackendPasses ==
    ASSUME IInv, IInv', Backend
    PROVE  [Channel!Next]_(Channel!vars)
<1>1. CASE swap
  BY <1>1, SwapPasses
<1>2. CASE dropExcess
  BY <1>2, DropPasses DEF Channel!Next
<1>3. CASE writeBuffer
  BY <1>3, WritePasses DEF Channel!Next
<1>4. CASE recycle
  <2>1. SubSeq(buffersToWrite, i, Len(buffersToWrite)) = <<>>
    BY <1>4 DEF recycle, IInv, TypeOK
  <2>2. Left' = Left /\ UNCHANGED <<appended, file, buffers_, currentBuffer_>>
    BY <1>4, <2>1 DEF recycle, Left, frontVars, histVars
  <2> QED BY <2>2, NothingPasses
<1>5. CASE runInThread \/ enter \/ loopTest \/ loopExit \/ timeWait \/ timeWaitExpires
  BY <1>5, RestIsUntouched, NothingPasses
<1> QED BY <1>1, <1>2, <1>3, <1>4, <1>5 DEF Backend

\* The logger is a channel: for every buffer size, drop threshold and mix of
\* line lengths, what the threads of the front end and the backend do to
\* buffers_, the spares and the batch amounts to accepting or refusing a
\* line, delivering the oldest ones, or giving up one run of neighbours with
\* a notice in the file; all other steps cannot be seen from outside.
THEOREM LoggerIsAChannel == Spec => ImplementsChannel
<1>1. Init => Channel!Init
  <2> SUFFICES ASSUME Init PROVE Channel!Init
    OBVIOUS
  <2>1. Left = <<>> /\ buffers_ = <<>> /\ currentBuffer_.data = <<>>
    BY DEF Init, Left, EmptyBuffer
  <2>2. Backlog = (<<>> \o <<>>) \o <<>>
    BY <2>1, Initially, BacklogIsText, TextOfNone DEF Text3
  <2>3. Backlog = <<>>
    BY <2>2
  <2> QED BY <2>3 DEF Init, Channel!Init
<1>2. IInv /\ IInv' /\ [Next]_vars => [Channel!Next]_(Channel!vars)
  <2> SUFFICES ASSUME IInv, IInv', [Next]_vars PROVE [Channel!Next]_(Channel!vars)
    OBVIOUS
  <2>1. CASE \E len \in MessageLens : append(len)
    BY <2>1, AppendPasses DEF Channel!Next
  <2>2. CASE Owner
    BY <2>2, OwnerMovesNothing, NothingPasses DEF frontVars, fileVars, histVars
  <2>3. CASE Backend
    BY <2>3, BackendPasses
  <2>4. CASE UNCHANGED vars
    <3>1. Left' = Left
      BY <2>4 DEF vars, backVars, Left
    <3> QED BY <2>4, <3>1, NothingPasses DEF vars, frontVars, fileVars, histVars
  <2> QED BY <2>1, <2>2, <2>3, <2>4 DEF Next
<1> QED BY <1>1, <1>2, Inductive, PTL DEF Spec, ImplementsChannel, Channel!Spec

-----------------------------------------------------------------------------
(* DropsAreAnnounced, when every line has at least one byte. *)

\* No buffer has more lines in it than bytes.
Dense(bufs) == \A k \in DOMAIN bufs : Len(bufs[k].data) <= bufs[k].length
DenseBuffers ==
    Dense(Left) /\ Dense(buffers_) /\ Len(currentBuffer_.data) <= currentBuffer_.length

\* The entries of out behind position k that are no newer than line, and
\* what n buffers still to be written can add to them.
Older(out, k, line) == {j \in k + 1 .. Len(out) : out[j] \in 1 .. line}
Budget(n) == IF n = 0 THEN 0 ELSE IF n = 1 THEN SIZE - 1 ELSE 2 * (SIZE - 1)

\* There is a notice at k for a line that was dropped: only older lines are
\* before it, only newer ones will still come from the front end, and the
\* batch either is the one that was cut, or has only newer lines as well.
AnnouncedAt(line, k) ==
    /\ file[k] = DropNotice
    /\ \A j \in 1 .. k - 1 : file[j] < line
    /\ Precede({line}, LinesIn(buffers_) \cup ToSet(currentBuffer_.data))
    /\ \/ /\ Len(Left) <= 2
          /\ Cardinality(Older(file, k, line)) + Budget(Len(Left)) <= 2 * (SIZE - 1)
       \/ /\ Precede({line}, LinesIn(Left))
          /\ Cardinality(Older(file, k, line)) <= 2 * (SIZE - 1)
Announcements == \A line \in dropped : \E k \in DOMAIN file : AnnouncedAt(line, k)

LEMMA OlderIsFinite ==
    ASSUME NEW out \in Seq(Nat), NEW k \in Nat, NEW line \in Nat
    PROVE  IsFiniteSet(Older(out, k, line)) /\ Cardinality(Older(out, k, line)) \in Nat
<1>1. Older(out, k, line) \in SUBSET (1 .. Len(out)) /\ Len(out) \in Int
  BY DEF Older
<1>2. IsFiniteSet(1 .. Len(out))
  BY <1>1, FS_Interval
<1> QED BY <1>1, <1>2, FS_Subset, FS_CardinalityType

\* What is put behind the file and is not older does not count.
LEMMA NewerAfter ==
    ASSUME NEW out \in Seq(Nat), NEW more \in Seq(Nat), NEW k \in 1 .. Len(out),
           NEW line \in Nat, \A e \in ToSet(more) : e \notin 1 .. line
    PROVE  Older(out \o more, k, line) = Older(out, k, line)
<1> DEFINE all == out \o more
           n == Len(out)
           m == Len(more)
<1>1. n \in Nat /\ m \in Nat /\ Len(all) = n + m
  OBVIOUS
<1>2. /\ \A j \in 1 .. n : all[j] = out[j]
      /\ \A j \in n + 1 .. n + m : all[j] = more[j - n] /\ j - n \in DOMAIN more
  OBVIOUS
<1>3. \A j \in n + 1 .. n + m : all[j] \notin 1 .. line
  BY <1>2 DEF ToSet
<1>4. \A j : j \in k + 1 .. n + m <=> j \in k + 1 .. n \/ j \in n + 1 .. n + m
  BY <1>1
<1>5. \A j \in k + 1 .. n : j \in 1 .. n
  BY <1>1
<1> HIDE DEF all, n, m
<1> QED BY <1>1, <1>2, <1>3, <1>4, <1>5 DEF Older, all, n

\* Whatever is put behind the file counts at most once.
LEMMA MoreAfter ==
    ASSUME NEW out \in Seq(Nat), NEW more \in Seq(Nat), NEW k \in 1 .. Len(out),
           NEW line \in Nat
    PROVE  Cardinality(Older(out \o more, k, line))
             <= Cardinality(Older(out, k, line)) + Len(more)
<1> DEFINE all == out \o more
           n == Len(out)
           m == Len(more)
           old == Older(out, k, line)
           new == n + 1 .. n + m
<1>1. n \in Nat /\ m \in Nat /\ Len(all) = n + m /\ all \in Seq(Nat)
  OBVIOUS
<1>2. \A j \in 1 .. n : all[j] = out[j]
  OBVIOUS
<1>3. Older(all, k, line) \subseteq old \cup new
  <2>1. \A j : j \in k + 1 .. n + m => j \in k + 1 .. n \/ j \in n + 1 .. n + m
    BY <1>1
  <2>2. \A j \in k + 1 .. n : j \in 1 .. n
    BY <1>1
  <2> HIDE DEF all, n, m
  <2> QED BY <1>1, <1>2, <2>1, <2>2 DEF Older, n
<1>4. IsFiniteSet(old) /\ Cardinality(old) \in Nat
  <2>1. k \in Nat
    OBVIOUS
  <2> HIDE DEF old
  <2> QED BY <2>1, OlderIsFinite DEF old
<1>5. IsFiniteSet(new) /\ Cardinality(new) = m
  <2>1. n + 1 \in Int /\ n + m \in Int
    BY <1>1
  <2> DEFINE a == n + 1
             b == n + m
  <2>2. a \in Int /\ b \in Int /\ (IF a > b THEN 0 ELSE b - a + 1) = m
    BY <1>1
  <2> HIDE DEF a, b
  <2>3. IsFiniteSet(a .. b) /\ Cardinality(a .. b) = IF a > b THEN 0 ELSE b - a + 1
    BY <2>2, FS_Interval
  <2> QED BY <2>2, <2>3 DEF a, b
<1> HIDE DEF all, n, m, old, new
<1>6. /\ IsFiniteSet(old \cup new)
      /\ Cardinality(old \cup new)
           = Cardinality(old) + Cardinality(new) - Cardinality(old \cap new)
  BY <1>4, <1>5, FS_Union
<1>7. Cardinality(old \cap new) \in Nat
  <2>1. (old \cap new) \in SUBSET old
    OBVIOUS
  <2> QED BY <1>4, <2>1, FS_Subset, FS_CardinalityType
<1>8. Cardinality(Older(all, k, line)) <= Cardinality(old \cup new)
  BY <1>3, <1>6, FS_Subset
<1>9. k \in Nat
  OBVIOUS
<1>10. Cardinality(Older(all, k, line)) \in Nat
  BY <1>1, <1>9, OlderIsFinite
<1> QED BY <1>1, <1>4, <1>5, <1>6, <1>7, <1>8, <1>10, SMTT(30) DEF all, m, old

LEMMA BudgetBounds ==
    /\ SIZE - 1 \in Nat /\ 2 * (SIZE - 1) \in Nat
    /\ Budget(0) = 0 /\ Budget(2) = 2 * (SIZE - 1)
BY SizeAssumption DEF Budget

LEMMA BudgetOfNext ==
    ASSUME NEW n \in Nat, n <= 2
    PROVE  /\ Budget(n) \in Nat
           /\ \A m \in Nat : n = m + 1 => Budget(n) = Budget(m) + (SIZE - 1) /\ Budget(m) \in Nat
<1>1. n = 0 \/ n = 1 \/ n = 2
  OBVIOUS
<1>2. \A m \in Nat : n = m + 1 => (n = 1 /\ m = 0) \/ (n = 2 /\ m = 1)
  OBVIOUS
<1> QED BY <1>1, <1>2, SizeAssumption DEF Budget

-----------------------------------------------------------------------------
(* Lines and bytes. *)

LEMMA DenseAppend ==
    ASSUME NEW bufs \in Seq(Buffers(Nat)), NEW b \in Buffers(Nat),
           Dense(bufs), Len(b.data) <= b.length
    PROVE  Dense(Append(bufs, b))
BY DEF Dense

LEMMA DensePart ==
    ASSUME NEW bufs \in Seq(Buffers(Nat)), Dense(bufs),
           NEW m \in Nat \ {0}, NEW n \in Nat, n <= Len(bufs)
    PROVE  Dense(SubSeq(bufs, m, n))
<1> DEFINE part == SubSeq(bufs, m, n)
<1>1. DOMAIN part = 1 .. (n + 1 - m) /\ DOMAIN bufs = 1 .. Len(bufs)
  OBVIOUS
<1>2. \A k \in 1 .. (n + 1 - m) : part[k] = bufs[m + k - 1] /\ m + k - 1 \in 1 .. Len(bufs)
  OBVIOUS
<1> HIDE DEF part
<1> QED BY <1>1, <1>2 DEF Dense, part

LEMMA DenseAppendTo ==
    ASSUME NEW b \in Buffers(Nat), NEW line \in Nat, NEW len \in Nat, len # 0,
           Len(b.data) <= b.length
    PROVE  Len(AppendTo(b, line, len).data) <= AppendTo(b, line, len).length
<1>1. CASE Avail(b) > len
  <2>1. /\ AppendTo(b, line, len).data = Append(b.data, line)
        /\ AppendTo(b, line, len).length = b.length + len
    BY <1>1 DEF AppendTo
  <2>2. b.data \in Seq(Nat) /\ b.length \in Nat
    BY SizeAssumption DEF Buffers
  <2>3. Len(Append(b.data, line)) = Len(b.data) + 1 /\ Len(b.data) \in Nat
    BY <2>2
  <2> QED BY <2>1, <2>2, <2>3
<1>2. CASE ~ Avail(b) > len
  BY <1>2 DEF AppendTo
<1> QED BY <1>1, <1>2

LEMMA EmptyIsDense == Dense(<<>>) /\ Len(EmptyBuffer.data) <= EmptyBuffer.length
BY DEF Dense, EmptyBuffer

LEMMA DenseInitially == Init => DenseBuffers
<1> SUFFICES ASSUME Init PROVE DenseBuffers
  OBVIOUS
<1>1. Left = <<>> /\ buffers_ = <<>> /\ currentBuffer_ = EmptyBuffer
  BY DEF Init, Left
<1> QED BY <1>1, EmptyIsDense DEF DenseBuffers

LEMMA AppendIsDense ==
    ASSUME IInv, DenseBuffers, NEW len \in MessageLens, append(len), len # 0
    PROVE  DenseBuffers'
<1>1. Left' = Left
  <2>1. pc' = pc \/ (pc = "timeWait" /\ pc' = "woken")
    BY DEF append, appendFits, appendSwitches, Notified
  <2> QED BY <2>1 DEF append, backVars, Left
<1>2. /\ buffers_ \in Seq(Buffers(Nat)) /\ currentBuffer_ \in Buffers(Nat)
      /\ appended + 1 \in Nat /\ len \in Nat
  BY AsyncAssumption DEF IInv, TypeOK
<1>3. CASE appendFits(len)
  <2>1. /\ buffers_' = buffers_
        /\ currentBuffer_' = AppendTo(currentBuffer_, appended + 1, len)
    BY <1>3 DEF appendFits
  <2>2. Len(currentBuffer_'.data) <= currentBuffer_'.length
    BY <1>2, <2>1, DenseAppendTo DEF DenseBuffers
  <2> QED BY <1>1, <2>1, <2>2 DEF DenseBuffers, Dense
<1>4. CASE appendSwitches(len)
  <2>1. /\ buffers_' = Append(buffers_, currentBuffer_)
        /\ currentBuffer_' = AppendTo(EmptyBuffer, appended + 1, len)
    BY <1>4 DEF appendSwitches, IInv, Spares
  <2>2. Len(currentBuffer_'.data) <= currentBuffer_'.length
    BY <1>2, <2>1, DenseAppendTo, EmptyIsDense, EmptyBufferType
  <2>3. Dense(Append(buffers_, currentBuffer_))
    BY <1>2, DenseAppend DEF DenseBuffers
  <2> QED BY <1>1, <2>1, <2>2, <2>3 DEF DenseBuffers, Dense
<1> QED BY <1>3, <1>4 DEF append

LEMMA NothingThins ==
    ASSUME DenseBuffers, Left' = Left, UNCHANGED <<buffers_, currentBuffer_>>
    PROVE  DenseBuffers'
BY DEF DenseBuffers, Dense

LEMMA BackendIsDense == IInv /\ DenseBuffers /\ Backend => DenseBuffers'
<1> SUFFICES ASSUME IInv, DenseBuffers, Backend PROVE DenseBuffers'
  OBVIOUS
<1>1. /\ buffers_ \in Seq(Buffers(Nat)) /\ currentBuffer_ \in Buffers(Nat)
      /\ buffersToWrite \in Seq(Buffers(Nat)) /\ i \in Nat \ {0}
  BY DEF IInv, TypeOK
<1>2. CASE swap
  <2>1. Left' = Append(buffers_, currentBuffer_) /\ buffers_' = <<>>
        /\ currentBuffer_' = EmptyBuffer
    BY <1>2 DEF swap, Left, Batch, IInv, Spares
  <2>2. Dense(Append(buffers_, currentBuffer_))
    BY <1>1, DenseAppend DEF DenseBuffers
  <2>3. Dense(Left)' = Dense(Left') /\ Dense(buffers_)' = Dense(buffers_')
    BY DEF Dense
  <2> QED BY <2>1, <2>2, <2>3, EmptyIsDense DEF DenseBuffers
<1>3. CASE dropExcess
  <2>1. UNCHANGED <<buffers_, currentBuffer_>> /\ Left = buffersToWrite
    BY <1>3 DEF dropExcess, frontVars, Left
  <2>2. Left' = SubSeq(buffersToWrite', 1, Len(buffersToWrite'))
    BY <1>3 DEF dropExcess, Left
  <2>3. CASE buffersToWrite' = buffersToWrite
    <3>1. Left' = Left
      BY <1>1, <2>1, <2>2, <2>3
    <3> QED BY <2>1, <3>1, NothingThins
  <2>4. CASE /\ Len(buffersToWrite) > MaxBuffersToWrite
             /\ buffersToWrite' = SubSeq(buffersToWrite, 1, 2)
    <3>1. 2 <= Len(buffersToWrite) /\ Len(buffersToWrite) \in Nat
      BY <1>1, <2>4, AsyncAssumption
    <3>2. Left' = SubSeq(buffersToWrite, 1, 2)
      BY <1>1, <2>2, <2>4, <3>1
    <3>3. Dense(SubSeq(buffersToWrite, 1, 2))
      <4>1. Dense(buffersToWrite) /\ 1 \in Nat \ {0} /\ 2 \in Nat
        BY <2>1 DEF DenseBuffers
      <4> QED BY <1>1, <3>1, <4>1, DensePart
    <3> QED BY <2>1, <3>2, <3>3 DEF DenseBuffers, Dense
  <2> QED BY <1>3, <2>3, <2>4 DEF dropExcess
<1>4. CASE writeBuffer
  <2>1. UNCHANGED <<buffers_, currentBuffer_>>
    BY <1>4 DEF writeBuffer, frontVars
  <2>2. /\ Left = SubSeq(buffersToWrite, i, Len(buffersToWrite))
        /\ Left' = SubSeq(buffersToWrite, i + 1, Len(buffersToWrite))
        /\ i <= Len(buffersToWrite)
    BY <1>4 DEF writeBuffer, Left
  <2>3. /\ Left \in Seq(Buffers(Nat)) /\ Len(Left) \in Nat /\ 2 \in Nat \ {0}
        /\ Left' = SubSeq(Left, 2, Len(Left))
    BY <1>1, <2>2
  <2>4. Dense(SubSeq(Left, 2, Len(Left)))
    BY <2>3, DensePart DEF DenseBuffers
  <2>5. Dense(Left)' = Dense(Left') /\ Dense(buffers_)' = Dense(buffers_)
    BY <2>1 DEF Dense
  <2> QED BY <2>1, <2>3, <2>4, <2>5 DEF DenseBuffers
<1>5. CASE recycle
  <2>1. SubSeq(buffersToWrite, i, Len(buffersToWrite)) = <<>>
    BY <1>5 DEF recycle, IInv, TypeOK
  <2>2. Left' = Left /\ UNCHANGED <<buffers_, currentBuffer_>>
    BY <1>5, <2>1 DEF recycle, Left, frontVars
  <2> QED BY <2>2, NothingThins
<1>6. CASE runInThread \/ enter \/ loopTest \/ loopExit \/ timeWait \/ timeWaitExpires
  BY <1>6, RestIsUntouched, NothingThins
<1> QED BY <1>2, <1>3, <1>4, <1>5, <1>6 DEF Backend

-----------------------------------------------------------------------------
(* The notices. *)

LEMMA AnnouncedInitially == Init => Announcements
BY DEF Init, Announcements

LEMMA NothingUnsays ==
    ASSUME Announcements, Left' = Left, UNCHANGED <<file, buffers_, currentBuffer_, dropped>>
    PROVE  Announcements'
<1> SUFFICES ASSUME NEW line \in dropped
             PROVE  \E k \in DOMAIN file : AnnouncedAt(line, k)'
  BY DEF Announcements
<1>1. PICK k \in DOMAIN file : AnnouncedAt(line, k)
  BY DEF Announcements
<1>2. /\ LinesIn(Left)' = LinesIn(Left) /\ LinesIn(buffers_)' = LinesIn(buffers_)
      /\ Older(file, k, line)' = Older(file, k, line)
  BY DEF LinesIn, Older
<1>3. AnnouncedAt(line, k)'
  BY <1>1, <1>2 DEF AnnouncedAt
<1> QED BY <1>3

LEMMA AppendUnsaysNothing ==
    ASSUME IInv, Accounted, Announcements, NEW len \in MessageLens, append(len)
    PROVE  Announcements'
<1> DEFINE new == appended + 1
           front == LinesIn(buffers_) \cup ToSet(currentBuffer_.data)
<1>1. Left' = Left
  <2>1. pc' = pc \/ (pc = "timeWait" /\ pc' = "woken")
    BY DEF append, appendFits, appendSwitches, Notified
  <2> QED BY <2>1 DEF append, backVars, Left
<1>2. UNCHANGED <<file, dropped>>
  BY DEF append, fileVars
<1>3. new \in Nat /\ \A n \in dropped : n < new
  <2>1. \A n \in 1 .. appended : n < new
    BY LinesWereAppended
  <2> QED BY <2>1, LinesWereAppended
<1>4. (LinesIn(buffers_) \cup ToSet(currentBuffer_.data))' \subseteq front \cup {new}
  <2>1. /\ buffers_ \in Seq(Buffers(Nat)) /\ currentBuffer_ \in Buffers(Nat)
        /\ currentBuffer_.data \in Seq(Nat)
    BY DEF IInv, TypeOK, Buffers
  <2>2. LinesIn(buffers_)' = LinesIn(buffers_')
    BY DEF LinesIn
  <2>3. CASE appendFits(len)
    <3>1. buffers_' = buffers_ /\ currentBuffer_'.data = Append(currentBuffer_.data, new)
      BY <2>3 DEF appendFits, AppendTo
    <3>2. ToSet(Append(currentBuffer_.data, new)) = ToSet(currentBuffer_.data) \cup {new}
      BY <1>3, <2>1, EntriesOfAppend
    <3> QED BY <2>2, <3>1, <3>2
  <2>4. CASE appendSwitches(len)
    <3>1. /\ buffers_' = Append(buffers_, currentBuffer_)
          /\ currentBuffer_' = AppendTo(EmptyBuffer, new, len)
      BY <2>4 DEF appendSwitches, IInv, Spares
    <3>2. LinesIn(Append(buffers_, currentBuffer_)) = front
      BY <2>1, LinesOfAppend
    <3>3. ToSet(currentBuffer_'.data) \subseteq {new}
      <4>1. EmptyBuffer.data \in Seq(Nat)
        BY EmptyBufferType DEF Buffers
      <4>2. ToSet(Append(EmptyBuffer.data, new)) = ToSet(EmptyBuffer.data) \cup {new}
        BY <1>3, <4>1, EntriesOfAppend
      <4>3. currentBuffer_'.data \in {EmptyBuffer.data, Append(EmptyBuffer.data, new)}
        BY <3>1 DEF AppendTo
      <4> QED BY <4>2, <4>3, LinesOfEmptyBuffer
    <3> QED BY <2>2, <3>1, <3>2, <3>3
  <2> QED BY <2>3, <2>4 DEF append
<1> SUFFICES ASSUME NEW line \in dropped
             PROVE  \E k \in DOMAIN file : AnnouncedAt(line, k)'
  BY <1>2 DEF Announcements
<1>5. PICK k \in DOMAIN file : AnnouncedAt(line, k)
  BY DEF Announcements
<1> HIDE DEF new
<1>6. /\ LinesIn(Left)' = LinesIn(Left)
      /\ Older(file, k, line)' = Older(file, k, line)
  BY <1>1, <1>2 DEF LinesIn, Older
<1>7. Precede({line}, LinesIn(buffers_) \cup ToSet(currentBuffer_.data))'
  BY <1>3, <1>4, <1>5 DEF AnnouncedAt, Precede
<1>8. Precede({line}, LinesIn(Left))' = Precede({line}, LinesIn(Left))
  BY <1>6 DEF Precede
<1>9. AnnouncedAt(line, k)'
  BY <1>1, <1>2, <1>5, <1>6, <1>7, <1>8 DEF AnnouncedAt
<1> QED BY <1>9

LEMMA SwapUnsaysNothing == IInv /\ Announcements /\ swap => Announcements'
<1> SUFFICES ASSUME IInv, Announcements, swap PROVE Announcements'
  OBVIOUS
<1>1. UNCHANGED <<file, dropped>>
  BY DEF swap, fileVars, histVars
<1>2. Left = <<>> /\ Left' = Append(buffers_, currentBuffer_) /\ buffers_' = <<>>
      /\ currentBuffer_' = EmptyBuffer
  BY DEF swap, Left, Batch, IInv, Spares
<1>3. LinesIn(Append(buffers_, currentBuffer_))
        = LinesIn(buffers_) \cup ToSet(currentBuffer_.data)
  BY LinesOfAppend DEF IInv, TypeOK
<1>4. LinesIn(Left)' = LinesIn(Left') /\ LinesIn(buffers_)' = LinesIn(buffers_')
  BY DEF LinesIn
<1> SUFFICES ASSUME NEW line \in dropped
             PROVE  \E k \in DOMAIN file : AnnouncedAt(line, k)'
  BY <1>1 DEF Announcements
<1>5. PICK k \in DOMAIN file : AnnouncedAt(line, k)
  BY DEF Announcements
<1>6. Older(file, k, line)' = Older(file, k, line)
  BY <1>1 DEF Older
<1>7. Cardinality(Older(file, k, line)) <= 2 * (SIZE - 1)
  <2>1. file \in Seq(Nat) /\ k \in Nat /\ line \in Nat
    BY DEF IInv, TypeOK
  <2>2. Cardinality(Older(file, k, line)) \in Nat
    BY <2>1, OlderIsFinite
  <2>3. Len(Left) = 0
    BY <1>2
  <2> QED BY <1>5, <2>2, <2>3, BudgetBounds DEF AnnouncedAt
<1>8. Precede({line}, LinesIn(Left))'
  BY <1>2, <1>3, <1>4, <1>5 DEF AnnouncedAt, Precede
<1>9. Precede({line}, LinesIn(buffers_) \cup ToSet(currentBuffer_.data))'
  BY <1>2, <1>4, LinesOfNone, LinesOfEmptyBuffer DEF Precede
<1>10. AnnouncedAt(line, k)'
  BY <1>1, <1>5, <1>6, <1>7, <1>8, <1>9 DEF AnnouncedAt
<1> QED BY <1>1, <1>10

\* The notice of a drop announces all the lines it takes, and unsays none of
\* the notices before it.
LEMMA DropAnnounces == IInv /\ Accounted /\ Ordered /\ Announcements /\ dropExcess => Announcements'
<1> SUFFICES ASSUME IInv, Accounted, Ordered, Announcements, dropExcess PROVE Announcements'
  OBVIOUS
<1>1. UNCHANGED <<buffers_, currentBuffer_>>
  BY DEF dropExcess, frontVars
<1>2. Left = buffersToWrite /\ i' = 1 /\ pc' = "write"
  BY DEF dropExcess, Left
<1>3. buffersToWrite \in Seq(Buffers(Nat)) /\ Len(buffersToWrite) \in Nat /\ file \in Seq(Nat)
  BY DEF IInv, TypeOK
<1>4. CASE Len(buffersToWrite) > MaxBuffersToWrite
  <2> DEFINE kept == SubSeq(buffersToWrite, 1, 2)
             excess == SubSeq(buffersToWrite, 3, Len(buffersToWrite))
             noted == Append(file, DropNotice)
             n == Len(file)
  <2>1. /\ buffersToWrite' = kept /\ file' = noted /\ dropped' = dropped \cup LinesIn(excess)
    BY <1>3, <1>4, AsyncAssumption DEF dropExcess, Announced
  <2>2. 2 < Len(buffersToWrite)
    BY <1>3, <1>4, AsyncAssumption
  <2>3. LinesIn(Left) = LinesIn(kept) \cup LinesIn(excess)
    BY <1>2, <1>3, <2>2, LinesOfParts
  <2>4. Len(kept) = 2
    BY <1>3, <2>2
  <2>5. Left' = kept
    <3>1. Left' = SubSeq(kept, 1, Len(kept))
      BY <1>2, <2>1 DEF Left
    <3> QED BY <1>3, <2>2, <2>4, <3>1
  <2>6. /\ n \in Nat /\ Len(noted) = n + 1 /\ noted[n + 1] = DropNotice
        /\ DOMAIN noted = 1 .. n + 1 /\ DOMAIN file = 1 .. n
        /\ \A j \in 1 .. n : noted[j] = file[j]
    BY <1>3 DEF DropNotice
  <2>7. LinesIn(Left)' = LinesIn(kept) /\ LinesIn(buffers_)' = LinesIn(buffers_)
    BY <1>1, <2>5 DEF LinesIn
  <2>8. \A line \in dropped \cup LinesIn(excess) : line \in Nat \ {0}
    <3>1. \A line \in 1 .. appended : line \in Nat \ {0}
      BY LinesWereAppended
    <3> QED BY <2>3, <3>1, LinesWereAppended
  <2>9. ASSUME NEW line \in dropped PROVE \E k \in DOMAIN noted : AnnouncedAt(line, k)'
    <3>1. PICK k \in DOMAIN file : AnnouncedAt(line, k)
      BY DEF Announcements
    <3>2. k \in 1 .. n /\ k \in DOMAIN noted /\ noted[k] = file[k]
      BY <2>6
    <3>3. \A j \in 1 .. k - 1 : j \in 1 .. n /\ noted[j] = file[j]
      BY <2>6, <3>2
    <3>4. Older(noted, k, line) = Older(file, k, line)
      <4>1. ASSUME NEW j PROVE j \in Older(noted, k, line) <=> j \in Older(file, k, line)
        <5>1. j \in k + 1 .. n + 1 <=> j \in k + 1 .. n \/ j = n + 1
          BY <2>6, <3>2
        <5>2. noted[n + 1] \notin 1 .. line
          BY <2>6 DEF DropNotice
        <5>3. \A l \in k + 1 .. n : l \in 1 .. n
          BY <2>6, <3>2
        <5> HIDE DEF noted, n
        <5> QED BY <2>6, <5>1, <5>2, <5>3 DEF Older, n
      <4> QED BY <4>1, Zenon
    <3>5. ~ Len(Left) <= 2
      BY <1>2, <1>3, <2>2
    <3>6. /\ Precede({line}, LinesIn(Left))
          /\ Cardinality(Older(file, k, line)) <= 2 * (SIZE - 1)
      BY <3>1, <3>5 DEF AnnouncedAt
    <3> HIDE DEF kept, excess, noted, n
    <3>7. Precede({line}, LinesIn(Left))'
      BY <2>3, <2>7, <3>6 DEF Precede
    <3>8. Older(file, k, line)' = Older(file, k, line)
      BY <2>1, <3>4 DEF Older
    <3>9. Precede({line}, LinesIn(buffers_) \cup ToSet(currentBuffer_.data))'
      BY <1>1, <2>7, <3>1 DEF AnnouncedAt, Precede
    <3>10. file'[k] = DropNotice /\ \A j \in 1 .. k - 1 : file'[j] < line
      BY <2>1, <3>1, <3>2, <3>3 DEF AnnouncedAt
    <3>11. AnnouncedAt(line, k)'
      BY <3>6, <3>7, <3>8, <3>9, <3>10 DEF AnnouncedAt
    <3> QED BY <3>2, <3>11
  <2>10. ASSUME NEW line \in LinesIn(excess) PROVE \E k \in DOMAIN noted : AnnouncedAt(line, k)'
    <3>1. line \in LinesIn(Left) /\ line \in Nat \ {0}
      BY <2>3, <2>8
    <3>2. PICK k \in DOMAIN noted : k = n + 1
      BY <2>6
    <3>3. \A j \in 1 .. k - 1 : noted[j] < line
      <4>1. ASSUME NEW j \in 1 .. n PROVE file[j] < line
        <5>1. CASE IsLine(file[j])
          <6>1. file[j] \in LinesOfFile
            BY <2>6, <5>1 DEF LinesOfFile, ToSet
          <6> QED BY <3>1, <6>1 DEF Ordered, Precede
        <5>2. CASE ~ IsLine(file[j])
          BY <3>1, <5>2 DEF IsLine, DropNotice
        <5> QED BY <5>1, <5>2
      <4>2. k - 1 = n
        BY <2>6, <3>2
      <4> QED BY <2>6, <4>1, <4>2
    <3>4. Cardinality(Older(noted, k, line)) = 0
      <4>1. \A j : ~ j \in k + 1 .. n + 1
        BY <2>6, <3>2
      <4>2. Older(noted, k, line) = {}
        BY <2>6, <4>1 DEF Older
      <4> QED BY <4>2, FS_EmptySet
    <3>5. noted[k] = DropNotice
      BY <2>6, <3>2
    <3> HIDE DEF kept, excess, noted, n
    <3>6. Cardinality(Older(file, k, line))' = 0
      BY <2>1, <3>4 DEF Older
    <3>7. Precede({line}, LinesIn(buffers_) \cup ToSet(currentBuffer_.data))'
      BY <1>1, <2>7, <3>1 DEF Ordered, Precede
    <3>8. file'[k] = DropNotice /\ \A j \in 1 .. k - 1 : file'[j] < line
      BY <2>1, <3>3, <3>5
    <3>9. Len(Left') <= 2 /\ Cardinality(Older(file, k, line))' + Budget(Len(Left')) <= 2 * (SIZE - 1)
      <4>1. Len(Left') = 2
        BY <2>4, <2>5
      <4>2. 0 + Budget(2) <= 2 * (SIZE - 1)
        BY BudgetBounds
      <4> QED BY <3>6, <4>1, <4>2
    <3>10. AnnouncedAt(line, k)'
      BY <3>7, <3>8, <3>9 DEF AnnouncedAt
    <3> QED BY <3>10
  <2> QED BY <2>1, <2>9, <2>10 DEF Announcements
<1>5. CASE ~ Len(buffersToWrite) > MaxBuffersToWrite
  <2>1. UNCHANGED <<file, buffersToWrite, dropped>>
    BY <1>3, <1>5, AsyncAssumption DEF dropExcess
  <2>2. Left' = SubSeq(buffersToWrite, 1, Len(buffersToWrite))
    BY <1>2, <2>1 DEF Left
  <2>3. Left' = Left
    BY <1>2, <1>3, <2>2
  <2> QED BY <1>1, <2>1, <2>3, NothingUnsays
<1> QED BY <1>4, <1>5

\* A buffer of the batch that was cut uses up its part of the budget; one of
\* a later batch has only newer lines in it.
LEMMA WriteUnsaysNothing ==
    IInv /\ Accounted /\ DenseBuffers /\ Announcements /\ writeBuffer => Announcements'
<1> SUFFICES ASSUME IInv, Accounted, DenseBuffers, Announcements, writeBuffer
             PROVE  Announcements'
  OBVIOUS
<1> DEFINE data == buffersToWrite[i].data
           rest == SubSeq(buffersToWrite, i + 1, Len(buffersToWrite))
<1>1. UNCHANGED <<dropped, buffers_, currentBuffer_>>
  BY DEF writeBuffer, frontVars, histVars
<1>2. /\ buffersToWrite \in Seq(Buffers(Nat)) /\ Len(buffersToWrite) \in Nat
      /\ i \in Nat \ {0} /\ i <= Len(buffersToWrite) /\ file \in Seq(Nat)
  BY DEF IInv, TypeOK, writeBuffer
<1>3. Left = SubSeq(buffersToWrite, i, Len(buffersToWrite)) /\ Left' = rest
      /\ file' = file \o data
  BY DEF writeBuffer, Left
<1>4. LinesIn(Left) = ToSet(data) \cup LinesIn(rest)
  BY <1>2, <1>3, LinesOfNext
<1>5. Len(Left) = Len(rest) + 1 /\ Len(rest) \in Nat /\ buffersToWrite[i] \in Buffers(Nat)
      /\ 1 \in DOMAIN Left /\ Left[1] = buffersToWrite[i]
  BY <1>2, <1>3
<1>6. data \in Seq(Nat) /\ Len(data) \in Nat /\ Len(data) <= SIZE - 1
  <2>1. Len(Left[1].data) <= Left[1].length
    BY <1>5 DEF DenseBuffers, Dense
  <2>2. data \in Seq(Nat) /\ buffersToWrite[i].length \in 0 .. SIZE - 1
    BY <1>5 DEF Buffers
  <2>3. Len(data) \in Nat /\ Len(data) <= buffersToWrite[i].length
    BY <1>5, <2>1, <2>2
  <2> HIDE DEF data
  <2> QED BY <2>2, <2>3, SizeAssumption
<1>7. LinesIn(Left)' = LinesIn(rest) /\ LinesIn(buffers_)' = LinesIn(buffers_)
  BY <1>1, <1>3 DEF LinesIn
<1> HIDE DEF data, rest
<1> SUFFICES ASSUME NEW line \in dropped
             PROVE  \E k \in DOMAIN file' : AnnouncedAt(line, k)'
  BY <1>1 DEF Announcements
<1>8. PICK k \in DOMAIN file : AnnouncedAt(line, k)
  BY DEF Announcements
<1>9. line \in Nat \ {0}
  <2>1. \A n \in 1 .. appended : n \in Nat \ {0}
    BY LinesWereAppended
  <2> QED BY <2>1, LinesWereAppended
<1>10. /\ k \in 1 .. Len(file) /\ k \in Nat /\ k \in DOMAIN (file \o data)
       /\ \A j \in 1 .. k : (file \o data)[j] = file[j]
  BY <1>2, <1>6
<1>11. file'[k] = DropNotice /\ \A j \in 1 .. k - 1 : file'[j] < line
  <2>1. \A j \in 1 .. k - 1 : j \in 1 .. k
    BY <1>10
  <2>2. k \in 1 .. k
    BY <1>10
  <2> QED BY <1>3, <1>8, <1>10, <2>1, <2>2 DEF AnnouncedAt
<1>12. Precede({line}, LinesIn(buffers_) \cup ToSet(currentBuffer_.data))'
  BY <1>1, <1>7, <1>8 DEF AnnouncedAt, Precede
<1> DEFINE before == Cardinality(Older(file, k, line))
           after == Cardinality(Older(file \o data, k, line))
<1>13. before \in Nat /\ after \in Nat
  <2>1. file \o data \in Seq(Nat)
    BY <1>2, <1>6, ConcatProperties
  <2> QED BY <1>2, <1>9, <1>10, <2>1, OlderIsFinite
<1>14. Cardinality(Older(file, k, line))' = after
  BY <1>3 DEF Older
<1>15. after <= before + Len(data)
  BY <1>2, <1>6, <1>9, <1>10, MoreAfter
<1>16. CASE Len(Left) <= 2 /\ before + Budget(Len(Left)) <= 2 * (SIZE - 1)
  <2> HIDE DEF before, after
  <2>1. /\ Len(Left) \in Nat /\ Len(rest) \in Nat
        /\ Len(Left) = Len(rest) + 1 /\ Len(Left) <= 2
    <3>1. Len(rest) \in Nat /\ Len(Left) = Len(rest) + 1
      BY <1>5
    <3> QED BY <1>16, <3>1
  <2>2. Budget(Len(Left)) = Budget(Len(rest)) + (SIZE - 1) /\ Budget(Len(rest)) \in Nat
    BY <2>1, BudgetOfNext
  <2>3. after + Budget(Len(rest)) <= 2 * (SIZE - 1)
    <3> DEFINE d == Len(data)
               room == SIZE - 1
               owed == Budget(Len(rest))
    <3>1. /\ d \in Nat /\ room \in Nat /\ owed \in Nat /\ d <= room
          /\ before + (owed + room) <= 2 * room /\ after <= before + d
      BY <1>6, <1>15, <1>16, <2>2, BudgetBounds
    <3> HIDE DEF d, room, owed
    <3>2. after + owed <= 2 * room
      BY <1>13, <3>1
    <3> QED BY <3>2 DEF room, owed
  <2>4. Len(Left') <= 2 /\ Cardinality(Older(file, k, line))' + Budget(Len(Left')) <= 2 * (SIZE - 1)
    <3>1. Len(Left') = Len(rest) /\ Len(rest) <= 2
      BY <1>3, <2>1
    <3> QED BY <1>14, <2>3, <3>1
  <2>5. AnnouncedAt(line, k)'
    BY <1>11, <1>12, <2>4 DEF AnnouncedAt
  <2> QED BY <1>3, <1>10, <2>5
<1>17. CASE Precede({line}, LinesIn(Left)) /\ before <= 2 * (SIZE - 1)
  <2>1. \A e \in ToSet(data) : e \notin 1 .. line
    <3>1. \A e \in ToSet(data) : line < e
      BY <1>4, <1>17 DEF Precede
    <3>2. \A e \in 1 .. line : ~ line < e
      BY <1>9
    <3> QED BY <3>1, <3>2
  <2>2. Older(file \o data, k, line) = Older(file, k, line)
    BY <1>2, <1>6, <1>9, <1>10, <2>1, NewerAfter
  <2>3. Precede({line}, LinesIn(Left))'
    BY <1>4, <1>7, <1>17 DEF Precede
  <2>4. AnnouncedAt(line, k)'
    BY <1>11, <1>12, <1>14, <1>17, <2>2, <2>3 DEF AnnouncedAt
  <2> QED BY <1>3, <1>10, <2>4
<1> QED BY <1>8, <1>16, <1>17 DEF AnnouncedAt

LEMMA BackendUnsaysNothing ==
    IInv /\ Accounted /\ Ordered /\ DenseBuffers /\ Announcements /\ Backend => Announcements'
<1> SUFFICES ASSUME IInv, Accounted, Ordered, DenseBuffers, Announcements, Backend
             PROVE  Announcements'
  OBVIOUS
<1>1. CASE swap
  BY <1>1, SwapUnsaysNothing
<1>2. CASE dropExcess
  BY <1>2, DropAnnounces
<1>3. CASE writeBuffer
  BY <1>3, WriteUnsaysNothing
<1>4. CASE recycle
  <2>1. SubSeq(buffersToWrite, i, Len(buffersToWrite)) = <<>>
    BY <1>4 DEF recycle, IInv, TypeOK
  <2>2. Left' = Left /\ UNCHANGED <<file, buffers_, currentBuffer_, dropped>>
    BY <1>4, <2>1 DEF recycle, Left, frontVars, histVars
  <2> QED BY <2>2, NothingUnsays
<1>5. CASE runInThread \/ enter \/ loopTest \/ loopExit \/ timeWait \/ timeWaitExpires
  BY <1>5, RestIsUntouched, NothingUnsays
<1> QED BY <1>1, <1>2, <1>3, <1>4, <1>5 DEF Backend

\* Where lines were dropped the file says so, at a place that only older
\* lines precede and that at most two buffers' worth of older lines separate
\* from the gap: the second half because a buffer has no more lines in it
\* than bytes, which needs that no line is empty.
THEOREM DropsAnnounced ==
    ASSUME 0 \notin MessageLens
    PROVE  Spec => []DropsAreAnnounced
<1> DEFINE Said == DenseBuffers /\ Announcements
<1>1. Init => Said
  BY DenseInitially, AnnouncedInitially
<1>2. IInv /\ Accounted /\ Ordered /\ Said /\ [Next]_vars => Said'
  <2> SUFFICES ASSUME IInv, Accounted, Ordered, Said, [Next]_vars PROVE Said'
    OBVIOUS
  <2>1. CASE \E len \in MessageLens : append(len)
    BY <2>1, AppendIsDense, AppendUnsaysNothing
  <2>2. CASE Owner
    BY <2>2, OwnerMovesNothing, NothingThins, NothingUnsays DEF frontVars, fileVars, histVars
  <2>3. CASE Backend
    BY <2>3, BackendIsDense, BackendUnsaysNothing
  <2>4. CASE UNCHANGED vars
    <3>1. Left' = Left
      BY <2>4 DEF vars, backVars, Left
    <3> QED BY <2>4, <3>1, NothingThins, NothingUnsays DEF vars, frontVars, fileVars, histVars
  <2> QED BY <2>1, <2>2, <2>3, <2>4 DEF Next
<1>3. IInv /\ Accounted /\ Said => DropsAreAnnounced
  <2> SUFFICES ASSUME IInv, Accounted, Said, NEW line \in dropped
               PROVE  \E k \in DOMAIN file :
                        /\ file[k] = DropNotice
                        /\ \A j \in 1 .. k - 1 : file[j] < line
                        /\ Cardinality({j \in k + 1 .. Len(file) : file[j] \in 1 .. line})
                             <= 2 * (SIZE - 1)
    BY DEF DropsAreAnnounced
  <2>1. PICK k \in DOMAIN file : AnnouncedAt(line, k)
    BY DEF Announcements
  <2>2. line \in Nat /\ file \in Seq(Nat) /\ k \in Nat
    <3>1. \A n \in 1 .. appended : n \in Nat
      BY LinesWereAppended
    <3>2. file \in Seq(Nat)
      BY DEF IInv, TypeOK
    <3> QED BY <3>1, <3>2, LinesWereAppended
  <2>3. Cardinality(Older(file, k, line)) \in Nat
    BY <2>2, OlderIsFinite
  <2>4. Cardinality(Older(file, k, line)) <= 2 * (SIZE - 1)
    <3>1. CASE /\ Len(Left) <= 2
               /\ Cardinality(Older(file, k, line)) + Budget(Len(Left)) <= 2 * (SIZE - 1)
      <4>1. Len(Left) \in Nat /\ Len(Left) <= 2
        BY <3>1, LeftType
      <4>2. Budget(Len(Left)) \in Nat
        BY <4>1, BudgetOfNext
      <4> QED BY <2>3, <3>1, <4>2, BudgetBounds
    <3> QED BY <2>1, <3>1 DEF AnnouncedAt
  <2> QED BY <2>1, <2>4 DEF AnnouncedAt, Older
<1> HIDE DEF Said
<1> QED BY <1>1, <1>2, <1>3, AccountIsKept, OrderIsKept, Inductive, PTL DEF Spec
=============================================================================
