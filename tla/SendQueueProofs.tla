-------------------------- MODULE SendQueueProofs --------------------------
(***************************************************************************)
(* Proofs about SendQueue, for any sets of threads and of SOVs, any        *)
(* capacity of a gather list, any number of SOVs created at a time and any *)
(* number of buffers.                                                      *)
(*                                                                         *)
(* QueueInv is inductive.  SOVOwnership says where each SOV is, so that    *)
(* Pop adds one to Outstanding and OnSend takes one away; CountExact is    *)
(* then an addition.  IdleEmpty supplies what NeverFull needs of an SOV    *)
(* that comes out of the pool.                                             *)
(***************************************************************************)
EXTENDS SendQueue, FiniteSetTheorems, TLAPS

\* An SOV that neither collects buffers nor is away has an empty list.
IdleEmpty == \A s \in SOV \ ({cur} \cup Outstanding) : batch[s] = <<>>

QueueInv == /\ TypeOK
            /\ SOVOwnership
            /\ CountExact
            /\ IdleEmpty
            /\ NeverFull
            /\ OnePartial
            /\ NoStranded
----------------------------------------------------------------------------
\* In the initial state no SOV is away and every list is empty.
LEMMA InitInv == Init => QueueInv
<1> SUFFICES ASSUME Init PROVE QueueInv
  OBVIOUS
<1> USE DEF Init
<1>1. TypeOK
  BY DEF TypeOK, PC
<1>2. Outstanding = {}
  BY DEF Outstanding, Holding
<1>3. SOVOwnership
  BY <1>2 DEF SOVOwnership, Holding
<1>4. CountExact
  BY <1>2, FS_EmptySet DEF CountExact
<1>5. IdleEmpty /\ NoStranded
  BY DEF IdleEmpty, NoStranded
<1>6. NeverFull
  BY CountAssumption DEF NeverFull
<1>7. OnePartial
  BY <1>2 DEF OnePartial
<1> QED
  BY <1>1, <1>3, <1>4, <1>5, <1>6, <1>7 DEF QueueInv

\* A step that moves no SOV and no buffer keeps everything that is said of
\* SOVs and lists.
LEMMA QuietStep ==
  ASSUME SOVOwnership, CountExact, IdleEmpty, NeverFull, OnePartial,
         UNCHANGED <<cur, batch, popCnt, free, made>>,
         Outstanding' = Outstanding,
         \A t \in Thread : Holding(t)' => mine'[t] \in SOV \ inflight',
         \A t, u \in Thread :
            Holding(t)' /\ Holding(u)' /\ mine'[t] = mine'[u] => t = u
  PROVE  SOVOwnership' /\ CountExact' /\ IdleEmpty' /\ NeverFull' /\ OnePartial'
<1>1. SOVOwnership'
  BY DEF SOVOwnership
<1>2. CountExact'
  BY DEF CountExact
<1>3. IdleEmpty' /\ NeverFull'
  BY DEF IdleEmpty, NeverFull, IsFull
<1>4. OnePartial'
  BY DEF OnePartial, IsFull
<1> QED
  BY <1>1, <1>2, <1>3, <1>4
----------------------------------------------------------------------------
\* What the s_lock_ section of send leaves behind, with `list` in the current
\* SOV: the SOV stays and waits for the one under way, or is taken.
LEMMA PopStep ==
  ASSUME QueueInv, NEW t \in Thread, NEW list \in Seq(Nat),
         pc[t] \in {"push", "flush"},
         Len(list) <= ArrCnt,
         IsFull(list) => list # <<>>,
         pc[t] = "flush" => list = batch[cur],
         Pop(t, list), accepted' \in Nat
  PROVE  QueueInv'
<1> USE DEF Pop
<1>0. /\ TypeOK /\ SOVOwnership /\ CountExact /\ IdleEmpty /\ NeverFull
      /\ OnePartial
  BY DEF QueueInv
<1>1. ~Holding(t) /\ t \in Thread
  BY DEF Holding
<1>2. CASE ~Takes(list)
  <2>1. /\ pc' = [pc EXCEPT ![t] = "idle"]
        /\ UNCHANGED <<connected, cur, popCnt, free, made, mine, inflight,
                       released, wire, failed, has>>
        /\ batch' = [batch EXCEPT ![cur] = list]
    BY <1>2
  <2>2. TypeOK'
    BY <2>1, <1>0 DEF TypeOK, PC
  <2>3. \A u \in Thread : Holding(u)' = Holding(u)
    BY <2>1, <1>1, <1>0 DEF Holding, TypeOK
  <2>4. Outstanding' = Outstanding
    BY <2>1, <2>3 DEF Outstanding
  <2>5. SOVOwnership'
    BY <2>1, <2>3, <2>4, <1>0 DEF SOVOwnership
  <2>6. CountExact'
    BY <2>1, <2>4, <1>0 DEF CountExact
  <2>7. IdleEmpty'
    BY <2>1, <2>4, <1>0 DEF IdleEmpty, TypeOK
  <2>8. NeverFull'
    <3>1. Len(list) < ArrCnt
      <4>1. ~IsFull(list)
        BY <1>2 DEF Takes
      <4> QED
        BY <4>1, CountAssumption DEF IsFull
    <3> QED
      BY <3>1, <2>1, <1>0 DEF NeverFull, TypeOK
  <2>9. OnePartial'
    <3>1. \A s \in Outstanding : s # cur /\ s \in SOV
      BY <1>0 DEF SOVOwnership, TypeOK
    <3>2. \A s \in Outstanding : batch'[s] = batch[s]
      BY <3>1, <2>1, <1>0 DEF TypeOK
    <3> QED
      BY <3>2, <2>4, <1>0 DEF OnePartial, IsFull
  <2>10. NoStranded'
    <3>1. list = <<>> \/ popCnt # 0
      BY <1>2, <1>0 DEF Takes, IsSending, TypeOK
    <3> QED
      BY <3>1, <2>1, <1>0 DEF NoStranded, TypeOK
  <2> QED
    BY <2>2, <2>5, <2>6, <2>7, <2>8, <2>9, <2>10 DEF QueueInv
<1>3. CASE Takes(list)
  <2>1. /\ batch' = [batch EXCEPT ![cur] = list]
        /\ PoolPop
        /\ popCnt' = popCnt + 1
        /\ mine' = [mine EXCEPT ![t] = cur]
        /\ pc' = [pc EXCEPT ![t] = "wsasend"]
        /\ UNCHANGED <<connected, released, wire, inflight, failed, has>>
    BY <1>3 DEF Counted
  <2>2. /\ cur' \in SOV \ ({cur} \cup Outstanding)
        /\ made' \subseteq SOV /\ free' \subseteq SOV
        /\ made' = free' \cup {cur'} \cup Outstanding \cup {cur}
        /\ cur' \notin free'
        /\ cur \notin free' /\ free' \cap Outstanding = {}
    <3>1. /\ made = free \cup {cur} \cup Outstanding
          /\ cur \notin free \cup Outstanding
          /\ free \cap Outstanding = {}
          /\ made \subseteq SOV /\ cur \in SOV
      BY <1>0 DEF SOVOwnership, TypeOK
    <3>2. CASE cur' \in free /\ free' = free \ {cur'} /\ made' = made
      BY <3>1, <3>2
    <3>3. CASE \E fresh \in SUBSET (SOV \ made) :
                  /\ cur' \in fresh
                  /\ free' = fresh \ {cur'}
                  /\ made' = made \cup fresh
               /\ free = {}
      <4>1. PICK fresh \in SUBSET (SOV \ made) :
                  /\ cur' \in fresh
                  /\ free' = fresh \ {cur'}
                  /\ made' = made \cup fresh
        BY <3>3
      <4> QED
        BY <4>1, <3>1, <3>3
    <3> QED
      BY <2>1, <3>2, <3>3 DEF PoolPop
  <2>3. /\ Holding(t)' /\ mine'[t] = cur
        /\ \A u \in Thread \ {t} : Holding(u)' = Holding(u) /\ mine'[u] = mine[u]
    BY <2>1, <1>0 DEF Holding, TypeOK
  <2>4. Outstanding' = Outstanding \cup {cur}
    BY <2>1, <2>3, <1>1 DEF Outstanding
  <2>5. TypeOK'
    BY <2>1, <2>2, <1>0 DEF TypeOK, PC
  <2>6. SOVOwnership'
    <3>1. cur \notin inflight /\ \A u \in Thread \ {t} : Holding(u) => mine[u] # cur
      BY <1>0 DEF SOVOwnership, Outstanding
    <3>2. \A u \in Thread : Holding(u)' => mine'[u] \in SOV \ inflight'
      BY <2>1, <2>3, <3>1, <1>0 DEF SOVOwnership, TypeOK
    <3>3. \A u, v \in Thread :
             Holding(u)' /\ Holding(v)' /\ mine'[u] = mine'[v] => u = v
      BY <2>3, <3>1, <1>0 DEF SOVOwnership
    <3> QED
      BY <2>2, <2>4, <3>2, <3>3 DEF SOVOwnership
  <2>7. CountExact'
    <3>1. cur \notin Outstanding
      BY <1>0 DEF SOVOwnership
    <3> QED
      BY <3>1, <2>1, <2>4, <1>0, FS_AddElement DEF CountExact
  <2>8. IdleEmpty'
    BY <2>1, <2>2, <2>4, <1>0 DEF IdleEmpty, TypeOK
  <2>9. NeverFull'
    <3>1. batch'[cur'] = <<>>
      BY <2>1, <2>2, <1>0 DEF IdleEmpty, TypeOK
    <3>2. \A s \in SOV : Len(batch'[s]) <= ArrCnt
      BY <2>1, <1>0 DEF NeverFull, TypeOK
    <3> QED
      BY <3>1, <3>2, CountAssumption DEF NeverFull
  <2>10. OnePartial'
    <3>1. batch'[cur] = list /\ list # <<>> /\ (popCnt = 0 \/ IsFull(list))
      BY <2>1, <1>3, <1>0 DEF Takes, IsSending, TypeOK
    <3>2. \A s \in Outstanding : batch'[s] = batch[s]
      BY <2>1, <1>0 DEF SOVOwnership, TypeOK
    <3>3. popCnt = 0 => Outstanding = {}
      BY <1>0, FS_EmptySet DEF CountExact
    <3> QED
      BY <3>1, <3>2, <3>3, <2>4, <1>0 DEF OnePartial, IsFull
  <2>11. NoStranded'
    BY <2>1, <1>0 DEF NoStranded, TypeOK
  <2> QED
    BY <2>5, <2>6, <2>7, <2>8, <2>9, <2>10, <2>11 DEF QueueInv
<1> QED
  BY <1>2, <1>3
----------------------------------------------------------------------------
\* Appending a buffer to a list that is not full.
LEMMA PushBufStep ==
  ASSUME QueueInv, NEW t \in Thread, PushBuf(t)
  PROVE  QueueInv'
<1> DEFINE list == Append(batch[cur], accepted + 1)
<1>1. /\ batch[cur] \in Seq(Nat) /\ accepted \in Nat
      /\ Len(batch[cur]) < ArrCnt
  BY DEF QueueInv, TypeOK, NeverFull
<1>2. list \in Seq(Nat) /\ Len(list) = Len(batch[cur]) + 1
  BY <1>1
<1>3. Len(list) <= ArrCnt /\ list # <<>>
  BY <1>1, <1>2, CountAssumption
<1>4. Pop(t, list) /\ pc[t] = "push" /\ accepted' \in Nat
  BY <1>1 DEF PushBuf
<1> HIDE DEF list
<1> QED
  BY <1>2, <1>3, <1>4, PopStep

\* Flushing with an empty Buf.
LEMMA PushEmptyStep ==
  ASSUME QueueInv, NEW t \in Thread, PushEmpty(t)
  PROVE  QueueInv'
<1>1. /\ batch[cur] \in Seq(Nat) /\ accepted \in Nat
      /\ Len(batch[cur]) < ArrCnt
  BY DEF QueueInv, TypeOK, NeverFull
<1>2. Len(batch[cur]) <= ArrCnt /\ ~IsFull(batch[cur])
  BY <1>1, CountAssumption DEF IsFull
<1>3. Pop(t, batch[cur]) /\ pc[t] = "flush" /\ accepted' \in Nat
  BY <1>1 DEF PushEmpty
<1> QED
  BY <1>1, <1>2, <1>3, PopStep

\* The steps of a thread that holds no SOV: the test at the start of send and
\* the end of _on_send.
LEMMA CheckStep ==
  ASSUME QueueInv, NEW t \in Thread, SendCheck(t) \/ OnSendNext(t)
  PROVE  QueueInv'
<1>0. /\ TypeOK /\ SOVOwnership /\ CountExact /\ IdleEmpty /\ NeverFull
      /\ OnePartial /\ NoStranded
  BY DEF QueueInv
<1>1. TypeOK'
  BY <1>0 DEF TypeOK, PC, SendCheck, OnSendNext
<1>2. UNCHANGED <<cur, batch, popCnt, free, made, inflight, mine>>
  BY DEF SendCheck, OnSendNext
<1>3. \A u \in Thread : Holding(u)' = Holding(u)
  BY <1>0 DEF SendCheck, OnSendNext, Holding, TypeOK
<1>4. Outstanding' = Outstanding
  BY <1>2, <1>3 DEF Outstanding
<1>5. /\ \A u \in Thread : Holding(u)' => mine'[u] \in SOV \ inflight'
      /\ \A u, v \in Thread :
            Holding(u)' /\ Holding(v)' /\ mine'[u] = mine'[v] => u = v
  BY <1>0, <1>2, <1>3 DEF SOVOwnership
<1>6. SOVOwnership' /\ CountExact' /\ IdleEmpty' /\ NeverFull' /\ OnePartial'
  BY <1>0, <1>2, <1>4, <1>5, QuietStep
<1>7. NoStranded'
  <2> SUFFICES ASSUME connected', batch[cur] # <<>>, popCnt = 0
               PROVE  \E u \in Thread : Flusher(u)'
    BY <1>2 DEF NoStranded
  <2>1. connected
    BY <1>0 DEF SendCheck, OnSendNext, TypeOK
  <2>2. PICK u \in Thread : Flusher(u)
    BY <1>0, <2>1 DEF NoStranded
  <2>3. CASE u = t
    BY <2>1, <2>2, <2>3, <1>0 DEF SendCheck, OnSendNext, Flusher, TypeOK
  <2>4. CASE u # t
    BY <2>2, <2>4, <1>0 DEF SendCheck, OnSendNext, Flusher, TypeOK
  <2> QED
    BY <2>3, <2>4
<1> QED
  BY <1>0, <1>1, <1>6, <1>7 DEF QueueInv

\* WSASend hands the SOV to the kernel, or leaves it with the thread.
LEMMA WsaSendStep ==
  ASSUME QueueInv, NEW t \in Thread, WsaSend(t)
  PROVE  QueueInv'
<1>0. /\ TypeOK /\ SOVOwnership /\ CountExact /\ IdleEmpty /\ NeverFull
      /\ OnePartial /\ NoStranded
  BY DEF QueueInv
<1>1. Holding(t) /\ mine[t] \in SOV \ inflight /\ batch[mine[t]] \in Seq(Nat)
  BY <1>0 DEF WsaSend, Holding, SOVOwnership, TypeOK
<1>2. TypeOK'
  <2>1. Append(wire, batch[mine[t]]) \in Seq(Seq(Nat))
    BY <1>0, <1>1 DEF TypeOK
  <2>2. wire' \in Seq(Seq(Nat)) /\ inflight' \subseteq SOV
    BY <1>0, <1>1, <2>1 DEF TypeOK, WsaSend
  <2>3. /\ pc' \in [Thread -> PC]
        /\ mine' \in [Thread -> SOV \cup {NoSOV}]
        /\ failed' \in [Thread -> BOOLEAN]
    BY <1>0 DEF TypeOK, PC, WsaSend
  <2>4. UNCHANGED <<connected, cur, batch, popCnt, free, made, accepted,
                    released, has>>
    BY DEF WsaSend
  <2> QED
    BY <1>0, <2>2, <2>3, <2>4 DEF TypeOK
<1>3. \A u \in Thread \ {t} : Holding(u)' = Holding(u) /\ mine'[u] = mine[u]
  BY <1>0 DEF WsaSend, Holding, TypeOK
<1>4. \/ /\ inflight' = inflight \cup {mine[t]} /\ ~Holding(t)'
      \/ /\ inflight' = inflight /\ Holding(t)' /\ mine'[t] = mine[t]
  BY <1>0 DEF WsaSend, Holding, TypeOK
<1>5. Outstanding' = Outstanding
  BY <1>1, <1>3, <1>4 DEF Outstanding
<1>6. \A u \in Thread \ {t} : Holding(u) => mine[u] # mine[t]
  BY <1>0, <1>1 DEF SOVOwnership
<1>7. /\ \A u \in Thread : Holding(u)' => mine'[u] \in SOV \ inflight'
      /\ \A u, v \in Thread :
            Holding(u)' /\ Holding(v)' /\ mine'[u] = mine'[v] => u = v
  BY <1>0, <1>1, <1>3, <1>4, <1>6 DEF SOVOwnership
<1>8. UNCHANGED <<connected, cur, batch, popCnt, free, made, has>>
  BY DEF WsaSend
<1>9. SOVOwnership' /\ CountExact' /\ IdleEmpty' /\ NeverFull' /\ OnePartial'
  BY <1>0, <1>5, <1>7, <1>8, QuietStep
<1>10. NoStranded'
  <2>1. \A u \in Thread : Flusher(u) => u # t /\ Flusher(u)'
    BY <1>0 DEF WsaSend, Flusher, TypeOK
  <2> QED
    BY <1>0, <1>8, <2>1 DEF NoStranded
<1> QED
  BY <1>2, <1>9, <1>10 DEF QueueInv

\* A completion hands the SOV from the kernel to an IOThread.
LEMMA CompleteStep ==
  ASSUME QueueInv, NEW t \in IO, NEW s \in SOV, Complete(t, s)
  PROVE  QueueInv'
<1>0. /\ TypeOK /\ SOVOwnership /\ CountExact /\ IdleEmpty /\ NeverFull
      /\ OnePartial /\ NoStranded
  BY DEF QueueInv
<1>1. t \in Thread /\ ~Holding(t) /\ s \in inflight
  BY DEF Complete, Holding, Thread
<1>2. TypeOK'
  <2>1. PICK e \in BOOLEAN : failed' = [failed EXCEPT ![t] = e]
    BY DEF Complete
  <2> QED
    BY <1>0, <1>1, <2>1 DEF TypeOK, PC, Complete
<1>3. /\ \A u \in Thread \ {t} : Holding(u)' = Holding(u) /\ mine'[u] = mine[u]
      /\ Holding(t)' /\ mine'[t] = s /\ inflight' = inflight \ {s}
  BY <1>0, <1>1 DEF Complete, Holding, TypeOK
<1>4. Outstanding' = Outstanding
  BY <1>1, <1>3 DEF Outstanding
<1>5. \A u \in Thread \ {t} : Holding(u) => mine[u] # s
  BY <1>0, <1>1 DEF SOVOwnership
<1>6. /\ \A u \in Thread : Holding(u)' => mine'[u] \in SOV \ inflight'
      /\ \A u, v \in Thread :
            Holding(u)' /\ Holding(v)' /\ mine'[u] = mine'[v] => u = v
  BY <1>0, <1>3, <1>5 DEF SOVOwnership
<1>7. UNCHANGED <<connected, cur, batch, popCnt, free, made, has>>
  BY DEF Complete
<1>8. SOVOwnership' /\ CountExact' /\ IdleEmpty' /\ NeverFull' /\ OnePartial'
  BY <1>0, <1>4, <1>6, <1>7, QuietStep
<1>9. NoStranded'
  <2>1. \A u \in Thread : Flusher(u) => u # t
    BY DEF Complete, Flusher
  <2>2. \A u \in Thread \ {t} : pc'[u] = pc[u] /\ failed'[u] = failed[u]
    BY <1>0 DEF Complete, TypeOK
  <2>3. \A u \in Thread : Flusher(u) => Flusher(u)'
    BY <1>7, <2>1, <2>2 DEF Flusher
  <2> QED
    BY <1>0, <1>7, <2>3 DEF NoStranded
<1> QED
  BY <1>2, <1>8, <1>9 DEF QueueInv

\* The s_lock_ section of _on_send: one SOV fewer is away, its list empty.
LEMMA OnSendStep ==
  ASSUME QueueInv, NEW t \in Thread, OnSend(t)
  PROVE  QueueInv'
<1>0. /\ TypeOK /\ SOVOwnership /\ CountExact /\ IdleEmpty /\ NeverFull
      /\ OnePartial /\ NoStranded
  BY DEF QueueInv
<1>1. Holding(t) /\ mine[t] \in SOV \ inflight /\ mine[t] \in Outstanding
  BY <1>0 DEF OnSend, Holding, SOVOwnership, Outstanding
<1>2. mine[t] # cur /\ mine[t] \notin free
  BY <1>0, <1>1 DEF SOVOwnership
<1>3. \A u \in Thread \ {t} : Holding(u) => mine[u] # mine[t]
  BY <1>0, <1>1 DEF SOVOwnership
<1>4. /\ \A u \in Thread \ {t} : Holding(u)' = Holding(u) /\ mine'[u] = mine[u]
      /\ ~Holding(t)' /\ inflight' = inflight
  BY <1>0 DEF OnSend, Holding, TypeOK
<1>5. Outstanding' = Outstanding \ {mine[t]}
  BY <1>1, <1>3, <1>4 DEF Outstanding
<1>6. /\ batch' = [batch EXCEPT ![mine[t]] = <<>>]
      /\ popCnt' = popCnt - 1
      /\ free' = free \cup {mine[t]}
      /\ UNCHANGED <<connected, cur, made>>
      /\ has' = [has EXCEPT ![t] = HasToSend]
      /\ pc' = [pc EXCEPT ![t] = "next"]
  BY DEF OnSend, ClearList, SBufPush
<1>7. CountExact' /\ popCnt' \in Nat
  <2>1. /\ IsFiniteSet(Outstanding')
        /\ Cardinality(Outstanding') = Cardinality(Outstanding) - 1
    BY <1>0, <1>1, <1>5, FS_RemoveElement DEF CountExact
  <2>2. Cardinality(Outstanding') \in Nat
    BY <2>1, FS_CardinalityType
  <2> QED
    BY <2>1, <2>2, <1>0, <1>6 DEF CountExact
<1>8. TypeOK'
  <2>1. Buffers(mine[t]) \subseteq Nat
    BY <1>0, <1>1 DEF Buffers, TypeOK
  <2>2. has' \in [Thread -> BOOLEAN]
    BY <1>0, <1>6 DEF TypeOK, HasToSend
  <2>3. released' \subseteq Nat /\ free' \subseteq SOV /\ batch' \in [SOV -> Seq(Nat)]
    <3>1. <<>> \in Seq(Nat)
      OBVIOUS
    <3> QED
      BY <1>0, <1>1, <1>6, <2>1, <3>1 DEF TypeOK, OnSend, ClearList
  <2>4. pc' \in [Thread -> PC] /\ mine' \in [Thread -> SOV \cup {NoSOV}]
    BY <1>0 DEF TypeOK, PC, OnSend
  <2>5. UNCHANGED <<connected, cur, made, accepted, wire, inflight, failed>>
    BY DEF OnSend
  <2> QED
    BY <1>0, <1>7, <2>2, <2>3, <2>4, <2>5 DEF TypeOK
<1>9. SOVOwnership'
  BY <1>0, <1>1, <1>2, <1>4, <1>5, <1>6 DEF SOVOwnership
<1>10. IdleEmpty' /\ NeverFull'
  BY <1>0, <1>2, <1>5, <1>6, CountAssumption DEF IdleEmpty, NeverFull, TypeOK
<1>11. OnePartial'
  <2>1. \A s \in Outstanding' : s \in Outstanding /\ batch'[s] = batch[s]
    BY <1>0, <1>5, <1>6 DEF SOVOwnership, TypeOK
  <2> QED
    BY <1>0, <2>1 DEF OnePartial, IsFull
<1>12. NoStranded'
  <2> SUFFICES ASSUME batch'[cur'] # <<>>, popCnt' = 0
               PROVE  Flusher(t)'
    BY DEF NoStranded
  <2>1. batch[cur] # <<>>
    BY <1>0, <1>2, <1>6 DEF TypeOK
  <2>2. HasToSend
    BY <2>1 DEF HasToSend
  <2>3. has'[t] = HasToSend /\ pc'[t] = "next"
    BY <1>0, <1>6 DEF TypeOK
  <2> QED
    BY <2>2, <2>3 DEF Flusher
<1> QED
  BY <1>7, <1>8, <1>9, <1>10, <1>11, <1>12 DEF QueueInv

\* The rest of the session drops the connection; and steps that stutter.
LEMMA DropStep ==
  ASSUME QueueInv, Drop \/ UNCHANGED vars
  PROVE  QueueInv'
<1>1. /\ connected' \in {connected, FALSE}
      /\ UNCHANGED <<cur, batch, popCnt, free, made, accepted, released, wire,
                     inflight, pc, mine, failed, has>>
  BY DEF Drop, vars
<1>2. TypeOK'
  BY <1>1 DEF QueueInv, TypeOK
<1>3. NoStranded'
  <2>1. \A t \in Thread : Flusher(t)' = Flusher(t)
    BY <1>1 DEF Flusher
  <2> QED
    BY <1>1, <2>1 DEF QueueInv, NoStranded
<1>4. Outstanding' = Outstanding /\ \A t \in Thread : Holding(t)' = Holding(t)
  BY <1>1 DEF Outstanding, Holding
<1>5. SOVOwnership' /\ CountExact' /\ IdleEmpty' /\ NeverFull' /\ OnePartial'
  BY <1>1, <1>4, QuietStep DEF QueueInv, SOVOwnership
<1> QED
  BY <1>2, <1>3, <1>5 DEF QueueInv
----------------------------------------------------------------------------
\* Every step of SendQueue preserves QueueInv.
LEMMA StepInv == QueueInv /\ [Next]_vars => QueueInv'
<1> SUFFICES ASSUME QueueInv, [Next]_vars PROVE QueueInv'
  OBVIOUS
<1>1. CASE \E t \in Thread : SendCheck(t) \/ OnSendNext(t)
  BY <1>1, CheckStep
<1>2. CASE \E t \in Thread : PushBuf(t)
  BY <1>2, PushBufStep
<1>3. CASE \E t \in Thread : PushEmpty(t)
  BY <1>3, PushEmptyStep
<1>4. CASE \E t \in Thread : WsaSend(t)
  BY <1>4, WsaSendStep
<1>5. CASE \E t \in Thread : OnSend(t)
  BY <1>5, OnSendStep
<1>6. CASE \E t \in IO, s \in SOV : Complete(t, s)
  BY <1>6, CompleteStep
<1>7. CASE Drop \/ UNCHANGED vars
  BY <1>7, DropStep
<1> QED
  BY <1>1, <1>2, <1>3, <1>4, <1>5, <1>6, <1>7 DEF Next

\* QueueInv holds in every state of every behaviour of SendQueue.
THEOREM QueueInvariant == Spec => []QueueInv
BY InitInv, StepInv, PTL DEF Spec

\* The variables keep their types; among them popCnt stays a natural number,
\* so pop_cnt_, unsigned in SBuf, never wraps as long as the session lives.
THEOREM TypeCorrect == Spec => []TypeOK
<1>1. QueueInv => TypeOK
  BY DEF QueueInv
<1> QED
  BY <1>1, QueueInvariant, PTL

\* SBuf::get, WSASend and _on_send pass every SOV from hand to hand without
\* losing one or sharing one.
THEOREM OwnershipCorrect == Spec => []SOVOwnership
<1>1. QueueInv => SOVOwnership
  BY DEF QueueInv
<1> QED
  BY <1>1, QueueInvariant, PTL

\* pop_cnt_ is exact: SBuf::is_sending tells the truth to send and to
\* _disconnect.
THEOREM CountCorrect == Spec => []CountExact
<1>1. QueueInv => CountExact
  BY DEF QueueInv
<1> QED
  BY <1>1, QueueInvariant, PTL

\* BufArray::push_back is never called on a full list.
THEOREM RoomForBuf == Spec => []NeverFull
<1>1. QueueInv => NeverFull
  BY DEF QueueInv
<1> QED
  BY <1>1, QueueInvariant, PTL

\* No buffer is left waiting in the current SOV with no send under way and
\* nobody bound to flush it: has_to_send loses no wake-up.
THEOREM NoLostWakeup == Spec => []NoStranded
<1>1. QueueInv => NoStranded
  BY DEF QueueInv
<1> QED
  BY <1>1, QueueInvariant, PTL

\* Gathering: at most one of the lists under way is short of ArrCnt buffers.
THEOREM Gathering == Spec => []OnePartial
<1>1. QueueInv => OnePartial
  BY DEF QueueInv
<1> QED
  BY <1>1, QueueInvariant, PTL
----------------------------------------------------------------------------
(* Where the buffers are: the references to their Mem.                     *)

\* A buffer accepted is released or at one place of one list, and a list has
\* only buffers accepted and not released.
Placed ==
  /\ released \subseteq 1..accepted
  /\ \A s \in SOV : \A i \in 1..Len(batch[s]) :
        batch[s][i] \in (1..accepted) \ released
  /\ \A s, r \in SOV : \A i \in 1..Len(batch[s]), j \in 1..Len(batch[r]) :
        batch[s][i] = batch[r][j] => s = r /\ i = j
  /\ \A m \in 1..accepted : m \in released \/ \E s \in SOV : m \in Buffers(s)

\* The steps that move no buffer.
LEMMA SamePlaces ==
  ASSUME Placed, UNCHANGED <<batch, accepted, released>>
  PROVE  Placed'
  BY DEF Placed, Buffers

\* A buffer is appended to the current list, taken or not.
LEMMA PushPlaced ==
  ASSUME QueueInv, Placed, NEW t \in Thread, PushBuf(t)
  PROVE  Placed'
<1> DEFINE list == Append(batch[cur], accepted + 1)
<1>1. /\ accepted \in Nat /\ cur \in SOV /\ batch \in [SOV -> Seq(Nat)]
      /\ accepted' = accepted + 1 /\ released' = released
      /\ batch' = [batch EXCEPT ![cur] = list]
  BY DEF QueueInv, TypeOK, PushBuf, Pop
<1>2. /\ Len(list) = Len(batch[cur]) + 1 /\ Len(batch[cur]) \in Nat
      /\ \A i \in 1..Len(batch[cur]) : list[i] = batch[cur][i]
      /\ list[Len(batch[cur]) + 1] = accepted + 1
  BY <1>1
<1>3. \A s \in SOV : Len(batch[s]) \in Nat
  BY <1>1
<1>4. batch'[cur] = list /\ \A s \in SOV \ {cur} : batch'[s] = batch[s]
  BY <1>1
<1> HIDE DEF list
<1>5. \A s \in SOV : \A i \in 1..Len(batch'[s]) :
         \/ i \in 1..Len(batch[s]) /\ batch'[s][i] = batch[s][i]
         \/ s = cur /\ i = Len(batch[s]) + 1 /\ batch'[s][i] = accepted + 1
  BY <1>2, <1>3, <1>4
<1>6. \A s \in SOV : \A i \in 1..Len(batch[s]) :
         i \in 1..Len(batch'[s]) /\ batch'[s][i] = batch[s][i]
  BY <1>2, <1>3, <1>4
<1>7. /\ released' \subseteq 1..accepted'
      /\ \A s \in SOV : \A i \in 1..Len(batch'[s]) :
            batch'[s][i] \in (1..accepted') \ released'
  <2>1. released' \subseteq 1..accepted /\ accepted + 1 \notin released'
    BY <1>1 DEF Placed
  <2>2. ASSUME NEW s \in SOV, NEW i \in 1..Len(batch'[s])
        PROVE  batch'[s][i] \in (1..accepted') \ released'
    <3>1. CASE i \in 1..Len(batch[s]) /\ batch'[s][i] = batch[s][i]
      BY <3>1, <1>1 DEF Placed
    <3>2. CASE batch'[s][i] = accepted + 1
      BY <3>2, <2>1, <1>1
    <3> QED
      BY <3>1, <3>2, <1>5
  <2> QED
    BY <2>1, <2>2, <1>1
<1>8. \A s, r \in SOV : \A i \in 1..Len(batch'[s]), j \in 1..Len(batch'[r]) :
         batch'[s][i] = batch'[r][j] => s = r /\ i = j
  <2> SUFFICES ASSUME NEW s \in SOV, NEW r \in SOV,
                      NEW i \in 1..Len(batch'[s]), NEW j \in 1..Len(batch'[r]),
                      batch'[s][i] = batch'[r][j]
               PROVE  s = r /\ i = j
    OBVIOUS
  <2>1. /\ i \in 1..Len(batch[s]) => batch'[s][i] = batch[s][i] /\ batch[s][i] <= accepted
        /\ j \in 1..Len(batch[r]) => batch'[r][j] = batch[r][j] /\ batch[r][j] <= accepted
    BY <1>6, <1>1 DEF Placed
  <2>2. CASE i \in 1..Len(batch[s]) /\ j \in 1..Len(batch[r])
    BY <2>1, <2>2 DEF Placed
  <2> QED
    BY <2>1, <2>2, <1>1, <1>3, <1>5
<1>9. ASSUME NEW m \in 1..accepted'
      PROVE  m \in released' \/ \E s \in SOV : m \in Buffers(s)'
  <2>1. CASE m = accepted + 1
    BY <2>1, <1>1, <1>2, <1>4 DEF Buffers
  <2>2. CASE m \in 1..accepted
    BY <2>2, <1>1, <1>6 DEF Placed, Buffers
  <2> QED
    BY <2>1, <2>2, <1>1
<1> QED
  BY <1>7, <1>8, <1>9 DEF Placed

\* The list of an SOV that comes back is released and emptied.
LEMMA OnSendPlaced ==
  ASSUME QueueInv, Placed, NEW t \in Thread, OnSend(t)
  PROVE  Placed'
<1>1. /\ mine[t] \in SOV /\ batch \in [SOV -> Seq(Nat)]
      /\ batch' = [batch EXCEPT ![mine[t]] = <<>>]
      /\ released' = released \cup Buffers(mine[t])
      /\ accepted' = accepted
  BY DEF QueueInv, TypeOK, SOVOwnership, Holding, OnSend, ClearList
<1>2. batch'[mine[t]] = <<>> /\ \A s \in SOV \ {mine[t]} : batch'[s] = batch[s]
  BY <1>1
<1>3. \A s \in SOV : \A i \in 1..Len(batch'[s]) :
         s # mine[t] /\ i \in 1..Len(batch[s]) /\ batch'[s][i] = batch[s][i]
  BY <1>2
<1>4. /\ released' \subseteq 1..accepted'
      /\ \A s \in SOV : \A i \in 1..Len(batch'[s]) :
            batch'[s][i] \in (1..accepted') \ released'
  <2>1. released' \subseteq 1..accepted'
    <3>1. Buffers(mine[t]) \subseteq 1..accepted
      BY <1>1 DEF Placed, Buffers
    <3> QED
      BY <3>1, <1>1 DEF Placed
  <2>2. ASSUME NEW s \in SOV, NEW i \in 1..Len(batch'[s])
        PROVE  batch'[s][i] \in (1..accepted') \ released'
    <3>1. s # mine[t] /\ i \in 1..Len(batch[s]) /\ batch'[s][i] = batch[s][i]
      BY <1>3
    <3>2. batch[s][i] \notin Buffers(mine[t])
      BY <3>1, <1>1 DEF Placed, Buffers
    <3>3. batch[s][i] \in (1..accepted) \ released
      BY <3>1 DEF Placed
    <3> QED
      BY <3>1, <3>2, <3>3, <1>1
  <2> QED
    BY <2>1, <2>2
<1>5. \A s, r \in SOV : \A i \in 1..Len(batch'[s]), j \in 1..Len(batch'[r]) :
         batch'[s][i] = batch'[r][j] => s = r /\ i = j
  BY <1>3 DEF Placed
<1>6. \A m \in 1..accepted' : m \in released' \/ \E s \in SOV : m \in Buffers(s)'
  BY <1>1, <1>2 DEF Placed, Buffers
<1> QED
  BY <1>4, <1>5, <1>6 DEF Placed

LEMMA PlacedInv == Init => Placed
  BY DEF Init, Placed, Buffers

\* Of the steps only two move buffers.
LEMMA PlacedStep == ASSUME QueueInv, Placed, [Next]_vars PROVE Placed'
<1>1. CASE \E t \in Thread : PushBuf(t)
  BY <1>1, PushPlaced
<1>2. CASE \E t \in Thread : OnSend(t)
  BY <1>2, OnSendPlaced
<1>3. CASE \E t \in Thread : PushEmpty(t)
  <2>1. batch \in [SOV -> Seq(Nat)] /\ cur \in SOV
    BY DEF QueueInv, TypeOK
  <2> QED
    BY <1>3, <2>1, SamePlaces DEF PushEmpty, Pop
<1>4. CASE \E t \in Thread : SendCheck(t) \/ WsaSend(t) \/ OnSendNext(t)
  BY <1>4, SamePlaces DEF SendCheck, WsaSend, OnSendNext
<1>5. CASE (\E t \in IO, s \in SOV : Complete(t, s)) \/ Drop \/ UNCHANGED vars
  BY <1>5, SamePlaces DEF Complete, Drop, vars
<1> QED
  BY <1>1, <1>2, <1>3, <1>4, <1>5 DEF Next

\* One place, or none, is what ReleasedOnce counts.
LEMMA PlacesCounted == ASSUME QueueInv, Placed PROVE ReleasedOnce
<1> SUFFICES ASSUME NEW m \in 1..accepted
             PROVE  LET places == {p \in SOV \X (1..ArrCnt) :
                                p[2] <= Len(batch[p[1]]) /\ batch[p[1]][p[2]] = m}
                    IN  Cardinality(places) = IF m \in released THEN 0 ELSE 1
  BY DEF ReleasedOnce
<1> DEFINE places == {p \in SOV \X (1..ArrCnt) :
                        p[2] <= Len(batch[p[1]]) /\ batch[p[1]][p[2]] = m}
<1>1. \A s \in SOV : Len(batch[s]) \in Nat /\ Len(batch[s]) <= ArrCnt
  BY DEF QueueInv, TypeOK, NeverFull
<1>2. \A p \in places : p[1] \in SOV /\ p[2] \in 1..Len(batch[p[1]]) /\ batch[p[1]][p[2]] = m
  BY <1>1
<1>3. \A p, q \in places : p = q
  BY <1>2 DEF Placed
<1>4. CASE m \in released
  <2>1. places = {}
    BY <1>2, <1>4 DEF Placed
  <2> QED
    BY <2>1, <1>4, FS_EmptySet
<1>5. CASE m \notin released
  <2>1. PICK s \in SOV : \E i \in 1..Len(batch[s]) : batch[s][i] = m
    BY <1>5 DEF Placed, Buffers
  <2>2. PICK i \in 1..Len(batch[s]) : batch[s][i] = m
    BY <2>1
  <2>3. <<s, i>> \in places
    BY <2>2, <1>1, CountAssumption
  <2>4. places = {<<s, i>>}
    BY <2>3, <1>3
  <2> QED
    BY <2>4, <1>5, FS_Singleton
<1> QED
  BY <1>4, <1>5

\* The references of the buffers: each accepted buffer is given back once,
\* and until then some list has it (BufArray::clear in _on_send).
THEOREM ReleaseCorrect == Spec => []ReleasedOnce
<1>1. Init => QueueInv /\ Placed
  BY InitInv, PlacedInv
<1>2. QueueInv /\ Placed /\ [Next]_vars => (QueueInv /\ Placed)'
  BY StepInv, PlacedStep
<1>3. QueueInv /\ Placed => ReleasedOnce
  BY PlacesCounted
<1> QED
  BY <1>1, <1>2, <1>3, PTL DEF Spec
----------------------------------------------------------------------------
(* In which order lists reach WSASend.                                     *)

\* The first buffer of a list dates it.  A list that is not full is older
\* than all others under way: it was taken when nothing was.  What waits in
\* the current SOV is younger than all that was taken.
Ordered ==
  /\ \A i \in 1..Len(wire) : wire[i] # <<>> /\ wire[i][1] <= accepted
  /\ batch[cur] # <<>> => /\ \A i \in 1..Len(wire) : wire[i][1] < batch[cur][1]
                          /\ \A s \in Outstanding : batch[s][1] < batch[cur][1]
  /\ \A s, r \in Outstanding :
        s # r /\ ~IsFull(batch[s]) => batch[s][1] < batch[r][1]
  /\ \A i \in 1..Len(wire) : \A t \in Thread :
        pc[t] = "wsasend" /\ ~IsFull(wire[i]) => wire[i][1] < batch[mine[t]][1]
  /\ OvertakerIsFull

\* The date of a list that is not empty.
LEMMA DateOf ==
  ASSUME QueueInv, Placed, NEW s \in SOV, batch[s] # <<>>
  PROVE  batch[s][1] \in Nat /\ batch[s][1] <= accepted
<1>1. batch[s] \in Seq(Nat) /\ 1 \in 1..Len(batch[s]) /\ accepted \in Nat
  BY DEF QueueInv, TypeOK
<1> QED
  BY <1>1 DEF Placed

\* The lists away are not empty, so they have a date.
LEMMA DateAway ==
  ASSUME QueueInv, Placed
  PROVE  /\ \A s \in Outstanding : s \in SOV /\ s # cur /\ batch[s][1] \in Nat
                                    /\ batch[s][1] <= accepted
         /\ \A i \in 1..Len(wire) : wire[i] # <<>> => wire[i][1] \in Nat
<1>1. \A s \in Outstanding : s \in SOV /\ s # cur /\ batch[s] # <<>>
  BY DEF QueueInv, TypeOK, SOVOwnership, OnePartial
<1>2. ASSUME NEW i \in 1..Len(wire), wire[i] # <<>> PROVE wire[i][1] \in Nat
  <2>1. wire[i] \in Seq(Nat)
    BY DEF QueueInv, TypeOK
  <2>2. 1 \in 1..Len(wire[i])
    BY <2>1, <1>2
  <2> QED
    BY <2>1, <2>2
<1> QED
  BY <1>1, <1>2, DateOf

\* What the section of send does to the SOVs away.
LEMMA PopMoves ==
  ASSUME QueueInv, NEW t \in Thread, NEW list, pc[t] \in {"push", "flush"}, Pop(t, list)
  PROVE  /\ batch'[cur] = list /\ \A s \in SOV \ {cur} : batch'[s] = batch[s]
         /\ \A u \in Thread \ {t} : pc'[u] = pc[u] /\ mine'[u] = mine[u]
         /\ wire' = wire /\ connected' = connected
         /\ \/ /\ Takes(list)
               /\ Outstanding' = Outstanding \cup {cur}
               /\ pc'[t] = "wsasend" /\ mine'[t] = cur
               /\ cur' # cur /\ batch'[cur'] = <<>>
            \/ /\ ~Takes(list)
               /\ Outstanding' = Outstanding
               /\ pc'[t] = "idle" /\ cur' = cur
<1>0. TypeOK /\ SOVOwnership /\ IdleEmpty
  BY DEF QueueInv
<1>1. /\ batch'[cur] = list /\ \A s \in SOV \ {cur} : batch'[s] = batch[s]
      /\ \A u \in Thread \ {t} : pc'[u] = pc[u] /\ mine'[u] = mine[u]
      /\ wire' = wire /\ connected' = connected /\ inflight' = inflight
  BY <1>0 DEF Pop, TypeOK
<1>2. ~Holding(t) /\ \A u \in Thread \ {t} : Holding(u)' = Holding(u)
  BY <1>1 DEF Holding
<1>3. CASE Takes(list)
  <2>1. PoolPop /\ pc'[t] = "wsasend" /\ mine'[t] = cur
    BY <1>0, <1>3 DEF Pop, TypeOK
  <2>2. Outstanding' = Outstanding \cup {cur}
    BY <1>1, <1>2, <2>1 DEF Outstanding, Holding
  <2>3. cur' \in SOV \ ({cur} \cup Outstanding)
    BY <1>0, <2>1 DEF PoolPop, SOVOwnership, TypeOK
  <2>4. batch'[cur'] = <<>>
    BY <1>0, <1>1, <2>3 DEF IdleEmpty
  <2> QED
    BY <1>1, <1>3, <2>1, <2>2, <2>3, <2>4
<1>4. CASE ~Takes(list)
  <2>1. pc'[t] = "idle" /\ cur' = cur
    BY <1>0, <1>4 DEF Pop, TypeOK
  <2>2. Outstanding' = Outstanding
    BY <1>1, <1>2, <2>1 DEF Outstanding, Holding
  <2> QED
    BY <1>1, <1>4, <2>1, <2>2
<1> QED
  BY <1>3, <1>4

\* The section of send keeps the order, if what it leaves in the current SOV
\* is younger than what was taken before.
LEMMA PopOrdered ==
  ASSUME QueueInv, Placed, Ordered, QueueInv', Placed',
         NEW t \in Thread, NEW list, pc[t] \in {"push", "flush"}, Pop(t, list),
         accepted' \in Nat, accepted <= accepted',
         list # <<>> => /\ list[1] \in Nat
                        /\ \A i \in 1..Len(wire) : wire[i][1] < list[1]
                        /\ \A s \in Outstanding : batch[s][1] < list[1]
  PROVE  Ordered'
<1>1. /\ batch'[cur] = list /\ \A s \in SOV \ {cur} : batch'[s] = batch[s]
      /\ \A u \in Thread \ {t} : pc'[u] = pc[u] /\ mine'[u] = mine[u]
      /\ wire' = wire
  BY PopMoves
<1>2. /\ \A s \in Outstanding : s \in SOV /\ s # cur /\ batch[s][1] \in Nat
                                 /\ batch'[s] = batch[s]
      /\ \A i \in 1..Len(wire) : wire[i] # <<>> /\ wire[i][1] \in Nat
                                  /\ wire[i][1] <= accepted
  BY <1>1, DateAway DEF Ordered
<1>3. accepted \in Nat
  BY DEF QueueInv, TypeOK
<1>4. OvertakerIsFull'
  BY <1>1 DEF Ordered, OvertakerIsFull, IsFull
<1>5. \A i \in 1..Len(wire') : wire'[i] # <<>> /\ wire'[i][1] <= accepted'
  BY <1>1, <1>2, <1>3
<1>6. \A u \in Thread : pc[u] = "wsasend" => mine[u] \in Outstanding
  BY DEF Outstanding, Holding
<1>7. CASE Takes(list)
  <2>1. /\ Outstanding' = Outstanding \cup {cur}
        /\ pc'[t] = "wsasend" /\ mine'[t] = cur /\ batch'[cur'] = <<>>
    BY <1>7, PopMoves
  <2>2. list # <<>> /\ (popCnt = 0 \/ IsFull(list))
    BY <1>7 DEF Takes, IsSending, QueueInv, TypeOK
  <2>3. popCnt = 0 => Outstanding = {}
    BY FS_EmptySet DEF QueueInv, CountExact
  <2>4. \A s, r \in Outstanding' :
           s # r /\ ~IsFull(batch'[s]) => batch'[s][1] < batch'[r][1]
    BY <1>1, <1>2, <2>1, <2>2, <2>3 DEF Ordered
  <2>5. \A i \in 1..Len(wire') : \A u \in Thread :
           pc'[u] = "wsasend" /\ ~IsFull(wire'[i]) => wire'[i][1] < batch'[mine'[u]][1]
    BY <1>1, <1>2, <1>6, <2>1, <2>2 DEF Ordered
  <2> QED
    BY <1>4, <1>5, <2>1, <2>4, <2>5 DEF Ordered, IsFull
<1>8. CASE ~Takes(list)
  <2>1. Outstanding' = Outstanding /\ pc'[t] = "idle" /\ cur' = cur
    BY <1>8, PopMoves
  <2>2. \A s, r \in Outstanding' :
           s # r /\ ~IsFull(batch'[s]) => batch'[s][1] < batch'[r][1]
    BY <1>2, <2>1 DEF Ordered
  <2>3. \A i \in 1..Len(wire') : \A u \in Thread :
           pc'[u] = "wsasend" /\ ~IsFull(wire'[i]) => wire'[i][1] < batch'[mine'[u]][1]
    BY <1>1, <1>2, <1>6, <2>1 DEF Ordered
  <2>4. batch'[cur'] # <<>> => /\ \A i \in 1..Len(wire') : wire'[i][1] < batch'[cur'][1]
                               /\ \A s \in Outstanding' : batch'[s][1] < batch'[cur'][1]
    BY <1>1, <1>2, <2>1
  <2> QED
    BY <1>4, <1>5, <2>2, <2>3, <2>4 DEF Ordered, IsFull
<1> QED
  BY <1>7, <1>8

\* send with a buffer: what was waiting stays first, or the new one is.
LEMMA PushOrdered ==
  ASSUME QueueInv, Placed, Ordered, QueueInv', Placed', NEW t \in Thread, PushBuf(t)
  PROVE  Ordered'
<1> DEFINE list == Append(batch[cur], accepted + 1)
<1>1. batch[cur] \in Seq(Nat) /\ accepted \in Nat /\ accepted' = accepted + 1
  BY DEF QueueInv, TypeOK, PushBuf
<1>2. Pop(t, list) /\ pc[t] = "push"
  BY DEF PushBuf
<1>3. /\ \A s \in Outstanding : batch[s][1] \in Nat /\ batch[s][1] <= accepted
      /\ \A i \in 1..Len(wire) : wire[i][1] \in Nat /\ wire[i][1] <= accepted
  BY DateAway DEF Ordered
<1>4. CASE batch[cur] = <<>>
  <2>1. list[1] = accepted + 1
    BY <1>4, <1>1
  <2> HIDE DEF list
  <2> QED
    BY <1>1, <1>2, <1>3, <2>1, PopOrdered
<1>5. CASE batch[cur] # <<>>
  <2>1. list[1] = batch[cur][1] /\ batch[cur][1] \in Nat
    BY <1>5, <1>1
  <2> HIDE DEF list
  <2> QED
    BY <1>1, <1>2, <1>5, <2>1, PopOrdered DEF Ordered
<1> QED
  BY <1>4, <1>5

\* send(Buf()): what was waiting goes.
LEMMA FlushOrdered ==
  ASSUME QueueInv, Placed, Ordered, QueueInv', Placed', NEW t \in Thread, PushEmpty(t)
  PROVE  Ordered'
<1>1. accepted \in Nat /\ accepted' = accepted /\ cur \in SOV
  BY DEF QueueInv, TypeOK, PushEmpty
<1>2. Pop(t, batch[cur]) /\ pc[t] = "flush"
  BY DEF PushEmpty
<1>3. batch[cur] # <<>> => batch[cur][1] \in Nat
  BY <1>1, DateOf
<1> QED
  BY <1>1, <1>2, <1>3, PopOrdered DEF Ordered

\* WSASend gets a list: only lists that were full may be younger than it.
LEMMA WsaSendOrdered ==
  ASSUME QueueInv, Placed, Ordered, QueueInv', NEW t \in Thread, WsaSend(t),
         Outstanding' = Outstanding
  PROVE  Ordered'
<1>0. TypeOK /\ SOVOwnership
  BY DEF QueueInv
<1>1. /\ mine[t] \in Outstanding /\ pc[t] = "wsasend"
      /\ \A u \in Thread : pc[u] = "wsasend" => mine[u] \in Outstanding
  BY DEF WsaSend, Outstanding, Holding
<1>2. UNCHANGED <<cur, batch, accepted>>
  BY DEF WsaSend
<1>3. /\ \A s \in Outstanding : /\ s \in SOV /\ batch[s] # <<>> /\ batch[s][1] \in Nat
                                 /\ batch[s][1] <= accepted
      /\ \A i \in 1..Len(wire) : wire[i] # <<>> /\ wire[i][1] \in Nat
  BY DateAway DEF Ordered, QueueInv, OnePartial
<1>4. CASE UNCHANGED wire
  <2>1. \A u \in Thread : pc'[u] = "wsasend" => pc[u] = "wsasend" /\ mine'[u] = mine[u]
    BY <1>0 DEF WsaSend, TypeOK
  <2> QED
    BY <1>2, <1>4, <2>1 DEF Ordered, OvertakerIsFull, IsFull
<1>5. CASE wire' = Append(wire, batch[mine[t]]) /\ pc' = [pc EXCEPT ![t] = "idle"]
           /\ mine' = [mine EXCEPT ![t] = NoSOV]
  <2>1. \A u \in Thread : pc'[u] = "wsasend" =>
           u # t /\ pc[u] = "wsasend" /\ mine'[u] = mine[u] /\ mine[u] # mine[t]
    BY <1>0, <1>1, <1>5 DEF TypeOK, SOVOwnership, Holding
  <2>2. wire \in Seq(Seq(Nat)) /\ batch[mine[t]] \in Seq(Nat)
    BY <1>0, <1>1, <1>3 DEF TypeOK
  <2>3. /\ Len(wire') = Len(wire) + 1 /\ Len(wire) \in Nat
        /\ \A i \in 1..Len(wire) : wire'[i] = wire[i]
        /\ wire'[Len(wire) + 1] = batch[mine[t]]
    BY <1>5, <2>2
  <2>4. \A i \in 1..Len(wire') :
           \/ i \in 1..Len(wire) /\ wire'[i] = wire[i]
           \/ i = Len(wire) + 1 /\ wire'[i] = batch[mine[t]]
    BY <2>3
  <2>5. \A i \in 1..Len(wire') : wire'[i] # <<>> /\ wire'[i][1] <= accepted
    BY <1>1, <1>3, <2>4 DEF Ordered
  <2>6. batch[cur] # <<>> => \A i \in 1..Len(wire') : wire'[i][1] < batch[cur][1]
    BY <1>1, <2>4 DEF Ordered
  <2>7. ASSUME NEW i \in 1..Len(wire'), NEW u \in Thread,
               pc'[u] = "wsasend", ~IsFull(wire'[i])
        PROVE  wire'[i][1] < batch[mine'[u]][1]
    BY <1>1, <2>1, <2>4, <2>7 DEF Ordered
  <2>8. ASSUME NEW i \in 1..Len(wire'), NEW j \in 1..Len(wire'),
               i < j, wire'[i][1] > wire'[j][1]
        PROVE  IsFull(wire'[i])
    <3>1. i \in 1..Len(wire) /\ wire'[i] = wire[i] /\ wire[i][1] \in Nat
      BY <1>3, <2>3, <2>4, <2>8
    <3>2. CASE j \in 1..Len(wire)
      BY <3>1, <3>2, <2>3, <2>8 DEF Ordered, OvertakerIsFull
    <3>3. CASE j = Len(wire) + 1
      <4>1. ~IsFull(wire[i]) => wire[i][1] < batch[mine[t]][1]
        BY <1>1, <3>1 DEF Ordered
      <4> QED
        BY <4>1, <3>1, <3>3, <2>3, <2>8, <1>1, <1>3
    <3> QED
      BY <3>2, <3>3, <2>3
  <2>9. OvertakerIsFull'
    BY <2>8 DEF OvertakerIsFull, IsFull
  <2>10. \A s, r \in Outstanding' :
            s # r /\ ~IsFull(batch'[s]) => batch'[s][1] < batch'[r][1]
    BY <1>2 DEF Ordered
  <2> QED
    BY <1>2, <2>5, <2>6, <2>7, <2>9, <2>10 DEF Ordered, IsFull
<1> QED
  BY <1>4, <1>5 DEF WsaSend

\* An SOV that comes back leaves the others as they were.
LEMMA OnSendOrdered ==
  ASSUME QueueInv, Ordered, NEW t \in Thread, OnSend(t)
  PROVE  Ordered'
<1>0. TypeOK /\ SOVOwnership
  BY DEF QueueInv
<1>1. /\ mine[t] \in Outstanding /\ Holding(t)
      /\ \A u \in Thread \ {t} : Holding(u) => mine[u] # mine[t]
  BY <1>0 DEF OnSend, Outstanding, Holding, SOVOwnership
<1>2. /\ \A u \in Thread \ {t} : pc'[u] = pc[u] /\ mine'[u] = mine[u]
      /\ pc'[t] = "next" /\ UNCHANGED <<cur, accepted, wire, inflight>>
      /\ \A s \in SOV \ {mine[t]} : batch'[s] = batch[s]
  BY <1>0, <1>1 DEF OnSend, ClearList, TypeOK
<1>3. \A s \in Outstanding' : s \in Outstanding /\ s # mine[t] /\ s \in SOV
  BY <1>0, <1>1, <1>2 DEF Outstanding, Holding, SOVOwnership, TypeOK
<1>4. \A u \in Thread : pc'[u] = "wsasend" => /\ pc[u] = "wsasend" /\ mine'[u] = mine[u]
                                              /\ batch'[mine[u]] = batch[mine[u]]
  BY <1>0, <1>1, <1>2 DEF Holding, SOVOwnership
<1>5. batch'[cur] = batch[cur] /\ cur \in SOV
  BY <1>0, <1>1, <1>2 DEF SOVOwnership, TypeOK
<1> QED
  BY <1>2, <1>3, <1>4, <1>5 DEF Ordered, OvertakerIsFull, IsFull

LEMMA OrderedInit == Init => Ordered
  BY DEF Init, Ordered, Outstanding, Holding, OvertakerIsFull

\* The steps after which the lists and the SOVs away are the same.
LEMMA OutstandingKept ==
  ASSUME QueueInv, NEW t \in Thread,
         SendCheck(t) \/ OnSendNext(t) \/ WsaSend(t) \/ \E s \in SOV : Complete(t, s)
  PROVE  /\ Outstanding' = Outstanding
         /\ UNCHANGED <<cur, batch, accepted>>
<1>0. TypeOK /\ SOVOwnership
  BY DEF QueueInv
<1>1. CASE SendCheck(t) \/ OnSendNext(t)
  <2>1. UNCHANGED <<inflight, mine>> /\ \A u \in Thread : Holding(u)' = Holding(u)
    BY <1>0, <1>1 DEF SendCheck, OnSendNext, Holding, TypeOK
  <2> QED
    BY <1>1, <2>1 DEF Outstanding, SendCheck, OnSendNext
<1>2. CASE WsaSend(t)
  <2>1. \A u \in Thread \ {t} : Holding(u)' = Holding(u) /\ mine'[u] = mine[u]
    BY <1>0, <1>2 DEF WsaSend, Holding, TypeOK
  <2>2. /\ Holding(t)
        /\ \/ inflight' = inflight \cup {mine[t]} /\ ~Holding(t)'
           \/ inflight' = inflight /\ Holding(t)' /\ mine'[t] = mine[t]
    BY <1>0, <1>2 DEF WsaSend, Holding, TypeOK
  <2> QED
    BY <1>2, <2>1, <2>2 DEF Outstanding, WsaSend
<1>3. ASSUME NEW s \in SOV, Complete(t, s)
      PROVE  Outstanding' = Outstanding /\ UNCHANGED <<cur, batch, accepted>>
  <2>1. /\ \A u \in Thread \ {t} : Holding(u)' = Holding(u) /\ mine'[u] = mine[u]
        /\ ~Holding(t) /\ Holding(t)' /\ mine'[t] = s /\ s \in inflight
        /\ inflight' = inflight \ {s}
    BY <1>0, <1>3 DEF Complete, Holding, TypeOK
  <2> QED
    BY <1>3, <2>1 DEF Outstanding, Complete
<1> QED
  BY <1>1, <1>2, <1>3

LEMMA OrderedStep ==
  ASSUME QueueInv, Placed, Ordered, [Next]_vars PROVE Ordered'
<1>0. QueueInv' /\ Placed' /\ TypeOK
  BY StepInv, PlacedStep DEF QueueInv
<1>1. CASE \E t \in Thread : PushBuf(t)
  BY <1>0, <1>1, PushOrdered
<1>2. CASE \E t \in Thread : PushEmpty(t)
  BY <1>0, <1>2, FlushOrdered
<1>3. CASE \E t \in Thread : WsaSend(t)
  BY <1>0, <1>3, WsaSendOrdered, OutstandingKept
<1>4. CASE \E t \in Thread : OnSend(t)
  BY <1>4, OnSendOrdered
<1>5. ASSUME NEW t \in Thread,
             SendCheck(t) \/ OnSendNext(t) \/ \E s \in SOV : Complete(t, s)
      PROVE  Ordered'
  <2>1. Outstanding' = Outstanding /\ UNCHANGED <<cur, batch, accepted, wire>>
    BY <1>5, OutstandingKept DEF SendCheck, OnSendNext, Complete
  <2>2. \A u \in Thread : pc'[u] = "wsasend" => pc[u] = "wsasend" /\ mine'[u] = mine[u]
    BY <1>0, <1>5 DEF SendCheck, OnSendNext, Complete, TypeOK
  <2> QED
    BY <2>1, <2>2 DEF Ordered, OvertakerIsFull, IsFull
<1>6. CASE Drop \/ UNCHANGED vars
  BY <1>6 DEF Drop, vars, Ordered, OvertakerIsFull, IsFull, Outstanding, Holding
<1> QED
  BY <1>1, <1>2, <1>3, <1>4, <1>5, <1>6 DEF Next, Thread

\* The lists that send() hands to WSASend outside s_lock_ keep the order of
\* their buffers, but that a full one may overtake.
THEOREM OrderCorrect == Spec => []OvertakerIsFull
<1>1. Init => QueueInv /\ Placed /\ Ordered
  BY InitInv, PlacedInv, OrderedInit
<1>2. QueueInv /\ Placed /\ Ordered /\ [Next]_vars => (QueueInv /\ Placed /\ Ordered)'
  BY StepInv, PlacedStep, OrderedStep
<1>3. Ordered => OvertakerIsFull
  BY DEF Ordered
<1> QED
  BY <1>1, <1>2, <1>3, PTL DEF Spec
----------------------------------------------------------------------------
(* SendQueue implements GatherChannel: threads, SOVs and s_lock_ are gone  *)
(* and what is left is a queue that leaves as a whole.                     *)

\* The senders past the test of is_connected_ are within the bound.
Pushers == {u \in Thread : pc[u] = "push"}
Bounded == IsFiniteSet(Pushers) /\ accepted + Cardinality(Pushers) <= MaxMsg

LEMMA BoundedInit == Init => Bounded
<1> SUFFICES ASSUME Init PROVE Bounded
  OBVIOUS
<1>1. Pushers = {} /\ accepted = 0
  BY DEF Init, Pushers
<1> QED
  BY <1>1, FS_EmptySet, CountAssumption DEF Bounded

LEMMA BoundedStep == ASSUME TypeOK, Bounded, [Next]_vars PROVE Bounded'
<1>0. accepted \in Nat /\ Cardinality(Pushers) \in Nat /\ MaxMsg \in Nat
  BY FS_CardinalityType, CountAssumption DEF TypeOK, Bounded
<1>1. CASE \E t \in Thread : PushBuf(t)
  <2>1. PICK t \in Thread : PushBuf(t)
    BY <1>1
  <2>2. pc' = [pc EXCEPT ![t] = "wsasend"] \/ pc' = [pc EXCEPT ![t] = "idle"]
    BY <2>1 DEF PushBuf, Pop
  <2>3. t \in Pushers /\ Pushers' = Pushers \ {t} /\ accepted' = accepted + 1
    BY <2>1, <2>2 DEF PushBuf, Pushers, TypeOK
  <2>4. /\ IsFiniteSet(Pushers')
        /\ Cardinality(Pushers') = Cardinality(Pushers) - 1
    BY <2>3, FS_RemoveElement DEF Bounded
  <2> QED
    BY <1>0, <2>3, <2>4 DEF Bounded
<1>2. ASSUME NEW t \in Thread, SendCheck(t), pc[t] = "idle" PROVE Bounded'
  <2>1. /\ Pushers' = Pushers \cup {t} /\ t \notin Pushers /\ accepted' = accepted
        /\ accepted + Cardinality(Pushers) < MaxMsg
    BY <1>2 DEF SendCheck, Pushers, TypeOK
  <2>2. /\ IsFiniteSet(Pushers')
        /\ Cardinality(Pushers') = Cardinality(Pushers) + 1
    BY <2>1, FS_AddElement DEF Bounded
  <2> QED
    BY <1>0, <2>1, <2>2 DEF Bounded
<1>3. ASSUME accepted' = accepted, Pushers' = Pushers PROVE Bounded'
  BY <1>3 DEF Bounded
<1>4. ASSUME NEW t \in Thread, SendCheck(t), pc[t] # "idle" PROVE Bounded'
  BY <1>3, <1>4 DEF SendCheck, Pushers, TypeOK
<1>5. ASSUME NEW t \in Thread,
             PushEmpty(t) \/ WsaSend(t) \/ OnSend(t) \/ OnSendNext(t)
      PROVE  Bounded'
  <2>1. pc[t] # "push" /\ accepted' = accepted
    BY <1>5 DEF PushEmpty, WsaSend, OnSend, OnSendNext
  <2>2. \E l \in {"idle", "wsasend", "onsend", "next", "again"} : pc' = [pc EXCEPT ![t] = l]
    BY <1>5 DEF PushEmpty, Pop, WsaSend, OnSend, OnSendNext
  <2>3. Pushers' = Pushers
    BY <2>1, <2>2 DEF Pushers, TypeOK
  <2> QED
    BY <1>3, <2>1, <2>3
<1>6. CASE (\E t \in IO, s \in SOV : Complete(t, s)) \/ Drop \/ UNCHANGED vars
  BY <1>3, <1>6 DEF Complete, Drop, vars, Pushers, TypeOK, Thread
<1> QED
  BY <1>1, <1>2, <1>4, <1>5, <1>6 DEF Next

\* Two SOVs away have two lists.
LEMMA ListsDiffer ==
  ASSUME QueueInv, Placed, NEW s \in Outstanding, NEW r \in Outstanding,
         batch[s] = batch[r]
  PROVE  s = r
<1>1. s \in SOV /\ r \in SOV /\ batch[s] # <<>> /\ batch[s] \in Seq(Nat)
  BY DEF QueueInv, TypeOK, SOVOwnership, OnePartial
<1>2. 1 \in 1..Len(batch[s])
  BY <1>1
<1> QED
  BY <1>1, <1>2 DEF Placed

\* The queue and the transfers of the channel, in SendQueue.
Flight == {batch[s] : s \in Outstanding}

\* The section of send, seen by the channel: `list` waits, and leaves if it may.
LEMMA PopQueues ==
  ASSUME QueueInv, NEW t \in Thread, NEW list, pc[t] \in {"push", "flush"},
         Pop(t, list), list # <<>>
  PROVE  /\ connected' = connected
         /\ \/ /\ Flight = {} \/ Len(list) = ArrCnt
               /\ batch'[cur'] = <<>> /\ Flight' = Flight \cup {list}
            \/ /\ Flight # {} /\ Len(list) # ArrCnt
               /\ batch'[cur'] = list /\ Flight' = Flight
<1>1. /\ batch'[cur] = list
      /\ \A s \in SOV \ {cur} : batch'[s] = batch[s]
      /\ connected' = connected
  BY PopMoves
<1>2. \A s \in Outstanding : s \in SOV /\ s # cur /\ batch'[s] = batch[s]
  BY <1>1 DEF QueueInv, TypeOK, SOVOwnership
<1>3. Takes(list) <=> Flight = {} \/ Len(list) = ArrCnt
  <2>1. popCnt \in Nat /\ (popCnt = 0 <=> Outstanding = {})
    BY FS_EmptySet DEF QueueInv, TypeOK, CountExact
  <2>2. Flight = {} <=> Outstanding = {}
    BY DEF Flight
  <2> QED
    BY <2>1, <2>2 DEF Takes, IsSending, IsFull
<1>4. CASE Takes(list)
  <2>1. Outstanding' = Outstanding \cup {cur} /\ batch'[cur'] = <<>>
    BY <1>4, PopMoves
  <2>2. Flight' = Flight \cup {list}
    BY <1>1, <1>2, <2>1 DEF Flight
  <2> QED
    BY <1>1, <1>3, <1>4, <2>1, <2>2
<1>5. CASE ~Takes(list)
  <2>1. Outstanding' = Outstanding /\ cur' = cur
    BY <1>5, PopMoves
  <2>2. Flight' = Flight
    BY <1>2, <2>1 DEF Flight
  <2> QED
    BY <1>1, <1>3, <1>5, <2>1, <2>2
<1> QED
  BY <1>4, <1>5

\* Every step is a step of the channel, or nothing to it.
LEMMA ChannelStep ==
  ASSUME QueueInv, Placed, Bounded, [Next]_vars
  PROVE  [Channel!Next]_(Channel!chvars)
<1> USE DEF Channel!chvars
<1>0. TypeOK /\ SOVOwnership /\ OnePartial /\ NeverFull
  BY DEF QueueInv
<1>1. ASSUME NEW t \in Thread, PushBuf(t) PROVE Channel!Submit
  <2> DEFINE list == Append(batch[cur], accepted + 1)
  <2>1. Pop(t, list) /\ pc[t] = "push" /\ accepted' = accepted + 1
    BY <1>1 DEF PushBuf
  <2>2. batch[cur] \in Seq(Nat) /\ accepted \in Nat
    BY <1>0 DEF TypeOK
  <2>3. list # <<>>
    <3>1. list \in Seq(Nat) /\ Len(list) = Len(batch[cur]) + 1 /\ Len(batch[cur]) \in Nat
      BY <2>2
    <3> QED
      BY <3>1
  <2>4. accepted < MaxMsg
    <3>1. t \in Pushers
      BY <2>1 DEF Pushers
    <3>2. Cardinality(Pushers) \in Nat /\ Cardinality(Pushers) # 0
      BY <3>1, FS_CardinalityType, FS_EmptySet DEF Bounded
    <3> QED
      BY <3>2, <2>2, CountAssumption DEF Bounded
  <2> HIDE DEF list
  <2>5. /\ connected' = connected
        /\ \/ /\ Flight = {} \/ Len(list) = ArrCnt
              /\ batch'[cur'] = <<>> /\ Flight' = Flight \cup {list}
           \/ /\ Flight # {} /\ Len(list) # ArrCnt
              /\ batch'[cur'] = list /\ Flight' = Flight
    BY <2>1, <2>3, PopQueues
  <2>6. Channel!Queue(list)
    BY <2>5 DEF Channel!Queue, Flight
  <2> QED
    BY <2>1, <2>4, <2>5, <2>6 DEF Channel!Submit, list
<1>2. ASSUME NEW t \in Thread, PushEmpty(t)
      PROVE  Channel!Flush \/ UNCHANGED Channel!chvars
  <2>1. Pop(t, batch[cur]) /\ pc[t] = "flush" /\ accepted' = accepted
    BY <1>2 DEF PushEmpty
  <2>2. Len(batch[cur]) # ArrCnt
    BY <1>0, CountAssumption DEF NeverFull, TypeOK
  <2>3. CASE batch[cur] # <<>>
    <3>1. /\ connected' = connected
          /\ \/ /\ Flight = {}
                /\ batch'[cur'] = <<>> /\ Flight' = Flight \cup {batch[cur]}
             \/ /\ Flight # {}
                /\ batch'[cur'] = batch[cur] /\ Flight' = Flight
      BY <2>1, <2>2, <2>3, PopQueues
    <3>2. CASE Flight = {}
      BY <2>1, <2>3, <3>1, <3>2 DEF Channel!Flush, Channel!Queue, Flight
    <3>3. CASE Flight # {}
      BY <2>1, <3>1, <3>3 DEF Flight
    <3> QED
      BY <3>2, <3>3
  <2>4. CASE batch[cur] = <<>>
    <3>1. ~Takes(batch[cur])
      BY <2>4 DEF Takes
    <3>2. /\ Outstanding' = Outstanding /\ cur' = cur /\ batch'[cur] = batch[cur]
          /\ connected' = connected
          /\ \A s \in SOV \ {cur} : batch'[s] = batch[s]
      BY <2>1, <3>1, PopMoves
    <3>3. \A s \in Outstanding : batch'[s] = batch[s]
      BY <1>0, <3>2 DEF SOVOwnership, TypeOK
    <3> QED
      BY <2>1, <3>2, <3>3
  <2> QED
    BY <2>3, <2>4
<1>3. ASSUME NEW t \in Thread, OnSend(t)
      PROVE  \E b \in Flight : Channel!Settle(b)
  <2>1. /\ mine[t] \in Outstanding /\ Holding(t) /\ mine[t] \in SOV
        /\ \A u \in Thread \ {t} : Holding(u) => mine[u] # mine[t]
        /\ mine[t] # cur /\ mine[t] \notin inflight
    BY <1>0, <1>3 DEF OnSend, Outstanding, Holding, SOVOwnership
  <2>2. /\ \A u \in Thread \ {t} : Holding(u)' = Holding(u) /\ mine'[u] = mine[u]
        /\ ~Holding(t)' /\ UNCHANGED <<inflight, cur, accepted, connected>>
        /\ batch' = [batch EXCEPT ![mine[t]] = <<>>]
    BY <1>0, <1>3 DEF OnSend, ClearList, Holding, TypeOK
  <2>3. Outstanding' = Outstanding \ {mine[t]}
    BY <2>1, <2>2 DEF Outstanding
  <2>4. batch'[cur] = batch[cur] /\ \A s \in Outstanding' : batch'[s] = batch[s]
    BY <1>0, <2>1, <2>2, <2>3 DEF TypeOK, SOVOwnership
  <2>5. \A s \in Outstanding : batch[s] = batch[mine[t]] => s = mine[t]
    BY <2>1, ListsDiffer
  <2>6. Flight' = Flight \ {batch[mine[t]]} /\ batch[mine[t]] \in Flight
    BY <2>1, <2>3, <2>4, <2>5 DEF Flight
  <2> QED
    BY <2>2, <2>4, <2>6 DEF Channel!Settle, Flight
<1>4. ASSUME NEW t \in Thread,
             SendCheck(t) \/ OnSendNext(t) \/ WsaSend(t) \/ \E s \in SOV : Complete(t, s)
      PROVE  Channel!Close \/ UNCHANGED Channel!chvars
  <2>1. Outstanding' = Outstanding /\ UNCHANGED <<cur, batch, accepted>>
    BY <1>4, OutstandingKept
  <2>2. connected' = connected \/ (connected /\ connected' = FALSE)
    BY <1>0, <1>4 DEF SendCheck, OnSendNext, WsaSend, Complete, TypeOK
  <2> QED
    BY <2>1, <2>2 DEF Channel!Close
<1>5. ASSUME Drop PROVE Channel!Close
  BY <1>5 DEF Drop, Channel!Close, Outstanding, Holding
<1>6. ASSUME UNCHANGED vars PROVE UNCHANGED Channel!chvars
  BY <1>6 DEF vars, Outstanding, Holding
<1> QED
  BY <1>1, <1>2, <1>3, <1>4, <1>5, <1>6 DEF Next, Thread, Channel!Next, Flight

\* The send path promises what GatherChannel says: a step of a thread or of
\* the kernel queues a buffer, lets the queue leave, settles a transfer,
\* closes the channel, or is none of its business.
THEOREM ImplementsChannel == Spec => ChannelSpec
<1>1. Init => Channel!Init
  BY DEF Init, Channel!Init, Outstanding, Holding
<1>2. Init => QueueInv /\ Placed /\ Bounded
  BY InitInv, PlacedInv, BoundedInit
<1>3. QueueInv /\ Placed /\ Bounded /\ [Next]_vars => (QueueInv /\ Placed /\ Bounded)'
  BY StepInv, PlacedStep, BoundedStep DEF QueueInv
<1>4. QueueInv /\ Placed /\ Bounded /\ [Next]_vars => [Channel!Next]_(Channel!chvars)
  BY ChannelStep
<1> QED
  BY <1>1, <1>2, <1>3, <1>4, PTL DEF Spec, ChannelSpec, Channel!Spec
============================================================================
