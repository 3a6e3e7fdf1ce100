---------------------------- MODULE DeliveryProofs ----------------------------
(***************************************************************************)
(* Proofs about Delivery, for every set of sessions and pods, every buffer *)
(* and page size, every retention limit and any number of faults.          *)
(***************************************************************************)
EXTENDS Delivery, FiniteSetTheorems, TLAPS

-----------------------------------------------------------------------------
LEMMA RowFields == ASSUME NEW r \in Row PROVE r.ver \in Versions /\ r.at \in 1..MaxStamp
BY ZenonT(300) DEF Row

LEMMA MissesType ==
  ASSUME NEW S, NEW v \in Versions, NEW why \in Causes, Misses(S, v, why),
         missed \in [Sessions -> SUBSET (Versions \X Causes)]
  PROVE  missed' \in [Sessions -> SUBSET (Versions \X Causes)]
BY SMTT(300) DEF Misses

LEMMA AppendSeq == ASSUME NEW T, NEW q \in Seq(T), NEW e \in T PROVE Append(q, e) \in Seq(T)
BY SMTT(300)

LEMMA HeadTailSeq ==
  ASSUME NEW T, NEW q \in Seq(T), q # <<>> PROVE Head(q) \in T /\ Tail(q) \in Seq(T)
BY SMTT(300)

\* The handlers of a set of sessions close: their state is reset.
LEMMA CloseType == ASSUME ServerType, NEW S, CloseHandlers(S) PROVE ServerType'
BY SMTT(300), DeliveryAssumption DEF ServerType, CloseHandlers, Phases

LEMMA FailType == ASSUME faults \in 0..MaxFaults, Fail PROVE faults' \in 0..MaxFaults
BY SMTT(300), DeliveryAssumption DEF Fail, CanFail

\* Every step of the producer, the Consume handlers, the clients, the Ack calls
\* and the cleanup keeps the rows, channels, queues and cursors in their domains.
THEOREM TypeCorrect == Spec => []TypeOK
<1> USE DeliveryAssumption
<1>1. Init => TypeOK
  BY SMTT(300) DEF Init, TypeOK, ProducerType, ServerType, ClientType, HistoryType, Phases
<1>2. TypeOK /\ [Next]_vars => TypeOK'
  <2> SUFFICES ASSUME ProducerType, ServerType, ClientType, HistoryType, [Next]_vars
               PROVE  TypeOK'
    BY ZenonT(300) DEF TypeOK
  <2> USE DEF TypeOK
  <2>a. ASSUME UNCHANGED <<outbox, producerVars>> PROVE ProducerType'
    BY ZenonT(300), <2>a DEF ProducerType, producerVars
  <2>b. ASSUME UNCHANGED serverVars PROVE ServerType'
    BY ZenonT(300), <2>b DEF ServerType, serverVars
  <2>c. ASSUME UNCHANGED <<queue, clientVars>> PROVE ClientType'
    BY ZenonT(300), <2>c DEF ClientType, clientVars
  <2>d. ASSUME UNCHANGED <<missed, cleaned, faults>> PROVE HistoryType'
    BY ZenonT(300), <2>d DEF HistoryType
  <2>1. CASE StageBegin
    <3>1. ProducerType'
      BY SMTT(300), <2>1 DEF StageBegin, ProducerType, Row, Versions
    <3> QED
      BY ZenonT(300), <2>1, <3>1, <2>b, <2>c, <2>d DEF StageBegin, producerVars, serverVars, clientVars
  <2>2. CASE StageCommit
    <3>1. ProducerType'
      BY ZenonT(300), <2>2 DEF StageCommit, ProducerType
    <3>2. HistoryType'
      BY ZenonT(300), <2>2, RowFields, MissesType DEF StageCommit, ProducerType, HistoryType, Causes
    <3> QED
      BY ZenonT(300), <2>2, <3>1, <3>2, <2>b, <2>c DEF StageCommit, producerVars, serverVars, clientVars
  <2>3. CASE StageConflict
    <3>1. ProducerType'
      BY SMTT(300), <2>3, RowFields DEF StageConflict, ProducerType, Versions
    <3> QED
      BY ZenonT(300), <2>3, <3>1, <2>b, <2>c, <2>d DEF StageConflict, producerVars, serverVars, clientVars
  <2>4. CASE PublishLive
    <3>1. ProducerType'
      BY SMTT(300), <2>4, RowFields DEF PublishLive, ProducerType, Versions
    <3>2. ServerType'
      BY ZenonT(300), <2>4, AppendSeq DEF PublishLive, ProducerType, ServerType
    <3>3. HistoryType'
      BY SMTT(300), <2>4, RowFields DEF PublishLive, ProducerType, HistoryType, Causes
    <3> QED
      BY ZenonT(300), <2>4, <3>1, <3>2, <3>3, <2>c DEF PublishLive, producerVars, serverVars, clientVars
  <2>5. CASE ConfirmPosition
    <3>1. ProducerType'
      BY ZenonT(300), <2>5 DEF ConfirmPosition, ProducerType
    <3> QED
      BY ZenonT(300), <2>5, <3>1, <2>b, <2>c, <2>d DEF ConfirmPosition, producerVars, serverVars, clientVars
  <2>6. ASSUME NEW p \in Pods, ProducerRestart(p) PROVE TypeOK'
    <3>1. ProducerType'
      BY ZenonT(300), <2>6 DEF ProducerRestart, ProducerType
    <3>2. HistoryType'
      BY ZenonT(300), <2>6, RowFields, MissesType, FailType DEF ProducerRestart, ProducerType, HistoryType, Causes
    <3> QED
      BY ZenonT(300), <2>6, <3>1, <3>2, <2>b, <2>c DEF ProducerRestart, producerVars, serverVars, clientVars
  <2>7. ASSUME NEW p \in Pods, HomeCrash(p) PROVE TypeOK'
    <3>1. ProducerType'
      BY ZenonT(300), <2>7 DEF HomeCrash, ProducerType
    <3>2. ServerType'
      BY ZenonT(300), <2>7, CloseType DEF HomeCrash
    <3>3. HistoryType'
      BY ZenonT(300), <2>7, RowFields, MissesType, FailType DEF HomeCrash, ProducerType, HistoryType, Causes
    <3> QED
      BY ZenonT(300), <2>7, <3>1, <3>2, <3>3, <2>c DEF HomeCrash, producerVars, serverVars, clientVars
  <2>8. ASSUME NEW s \in Sessions, LiveWatermark(s) PROVE TypeOK'
    <3>1. ServerType'
      BY SMTT(300), <2>8 DEF LiveWatermark, ServerType, Phases
    <3> QED
      BY ZenonT(300), <2>8, <3>1, <2>a, <2>c, <2>d DEF LiveWatermark, producerVars, serverVars, clientVars
  <2>9. ASSUME NEW s \in Sessions, ListPage(s) PROVE TypeOK'
    <3>1. ServerType'
      <4>1. FirstPage(s) \in SUBSET Row
        BY ZenonT(300) DEF FirstPage, Window, ProducerType
      <4>2. page' \in [Sessions -> SUBSET Row]
        BY ZenonT(300), <2>9, <4>1 DEF ListPage, ServerType
      <4>3. phase' \in [Sessions -> Phases]
        BY ZenonT(300), <2>9 DEF ListPage, ServerType, Phases
      <4>4. after' \in [Sessions -> 0..MaxStamp]
        BY SMTT(300), <2>9 DEF ListPage, ServerType
      <4> QED
        BY ZenonT(300), <2>9, <4>2, <4>3, <4>4 DEF ListPage, ServerType
    <3> QED
      BY ZenonT(300), <2>9, <3>1, <2>a, <2>c, <2>d DEF ListPage, producerVars, serverVars, clientVars
  <2>10. ASSUME NEW s \in Sessions, ReplayNext(s) PROVE TypeOK'
    <3>1. ServerType'
      BY SMTT(300), <2>10, RowFields DEF ReplayNext, ServerType
    <3>2. ClientType'
      BY SMTT(300), <2>10, RowFields, AppendSeq DEF ReplayNext, ServerType, ClientType, clientVars
    <3>3. HistoryType'
      BY SMTT(300), <2>10 DEF ReplayNext, HistoryType
    <3> QED
      BY ZenonT(300), <2>10, <3>1, <3>2, <3>3, <2>a DEF ReplayNext, producerVars, serverVars, clientVars
  <2>11. ASSUME NEW s \in Sessions, ForwardLive(s) PROVE TypeOK'
    <3>1. ServerType'
      BY ZenonT(300), <2>11, HeadTailSeq DEF ForwardLive, ServerType
    <3>2. ClientType'
      <4>1. Head(chan[s]) \in Row
        BY ZenonT(300), <2>11, HeadTailSeq DEF ForwardLive, ServerType
      <4>2. Append(queue[s], Head(chan[s]).ver) \in Seq(Versions)
        BY ZenonT(300), <4>1, RowFields, AppendSeq DEF ClientType
      <4>3. queue' \in [Sessions -> Seq(Versions)]
        BY ZenonT(300), <2>11, <4>2 DEF ForwardLive, ClientType
      <4> QED
        BY ZenonT(300), <2>11, <4>3 DEF ForwardLive, ClientType, clientVars
    <3> QED
      BY ZenonT(300), <2>11, <3>1, <3>2, <2>a, <2>d DEF ForwardLive, producerVars, serverVars, clientVars
  <2>12. ASSUME NEW s \in Sessions, ServerEnd(s) PROVE TypeOK'
    <3>1. ServerType'
      BY ZenonT(300), <2>12, CloseType DEF ServerEnd
    <3>2. HistoryType'
      BY ZenonT(300), <2>12, FailType DEF ServerEnd, HistoryType
    <3> QED
      BY ZenonT(300), <2>12, <3>1, <3>2, <2>a, <2>c DEF ServerEnd, producerVars, serverVars, clientVars
  <2>13. ASSUME NEW s \in Sessions, Connect(s) PROVE TypeOK'
    <3>1. ServerType'
      BY ZenonT(300), <2>13 DEF Connect, ServerType, Phases
    <3>2. HistoryType'
      BY ZenonT(300), <2>13, FailType DEF Connect, HistoryType
    <3> QED
      BY ZenonT(300), <2>13, <3>1, <3>2, <2>a, <2>c DEF Connect, producerVars, serverVars, clientVars
  <2>14. ASSUME NEW s \in Sessions, ApplyNext(s) PROVE TypeOK'
    <3>1. ClientType'
      BY SMTT(300), <2>14, HeadTailSeq DEF ApplyNext, ClientType, Max2, Versions
    <3> QED
      BY ZenonT(300), <2>14, <3>1, <2>a, <2>b, <2>d DEF ApplyNext, producerVars, serverVars, clientVars
  <2>15. ASSUME NEW s \in Sessions, AckReturn(s) PROVE TypeOK'
    <3>1. ClientType'
      BY SMTT(300), <2>15 DEF AckReturn, ClientType
    <3> QED
      BY ZenonT(300), <2>15, <3>1, <2>a, <2>b, <2>d DEF AckReturn, producerVars, serverVars, clientVars
  <2>16. ASSUME NEW s \in Sessions, ClientEnd(s) PROVE TypeOK'
    <3>1. ServerType'
      BY SMTT(300), <2>16 DEF ClientEnd, ServerType, Phases
    <3>2. ClientType'
      BY SMTT(300), <2>16 DEF ClientEnd, ClientType
    <3>3. HistoryType'
      BY ZenonT(300), <2>16, FailType DEF ClientEnd, HistoryType
    <3> QED
      BY ZenonT(300), <2>16, <3>1, <3>2, <3>3, <2>a DEF ClientEnd, producerVars, serverVars, clientVars
  <2>17. ASSUME NEW s \in Sessions, NEW v \in Versions, LoseAck(s, v) PROVE TypeOK'
    <3>1. ClientType'
      BY ZenonT(300), <2>17 DEF LoseAck, ClientType
    <3> QED
      BY ZenonT(300), <2>17, <3>1, <2>a, <2>b, <2>d DEF LoseAck, producerVars, serverVars, clientVars
  <2>18. ASSUME NEW s \in Sessions, NEW v \in Versions, ServeAck(s, v) PROVE TypeOK'
    <3>1. ProducerType'
      BY ZenonT(300), <2>18 DEF ServeAck, ProducerType, producerVars
    <3>2. ClientType'
      BY ZenonT(300), <2>18 DEF ServeAck, ClientType
    <3> QED
      BY ZenonT(300), <2>18, <3>1, <3>2, <2>b, <2>d DEF ServeAck, producerVars, serverVars, clientVars
  <2>19. CASE Cleanup
    <3>1. ProducerType'
      BY ZenonT(300), <2>19 DEF Cleanup, ProducerType, producerVars
    <3>2. HistoryType'
      BY ZenonT(300), <2>19, RowFields DEF Cleanup, TooMany, TooOld, ProducerType, HistoryType
    <3> QED
      BY ZenonT(300), <2>19, <3>1, <3>2, <2>b, <2>c DEF Cleanup, producerVars, serverVars, clientVars
  <2>20. CASE UNCHANGED vars
    BY ZenonT(300), <2>20, <2>a, <2>b, <2>c, <2>d DEF vars
  <2> QED
    BY ZenonT(300), <2>1, <2>2, <2>3, <2>4, <2>5, <2>6, <2>7, <2>8, <2>9, <2>10, <2>11, <2>12, <2>13,
       <2>14, <2>15, <2>16, <2>17, <2>18, <2>19, <2>20 DEF Next, Producer, Server, Client
<1> QED
  BY <1>1, <1>2, PTL DEF Spec

-----------------------------------------------------------------------------
(* PendingUntilCovered is not inductive: an Ack deletes a row because the    *)
(* cursor covers its version (AcksCovered), a restart goes back to a         *)
(* position not beyond pos (SlotBehind), and PublishLive moves pos to the    *)
(* version of a row that was committed before (StagedNext).                  *)

Settled(v) == Pending(v) \/ v <= cursor \/ v \in cleaned

AcksCovered == \A a \in acks : a[2] <= cursor
SlotBehind == slot <= pos
StagedNext ==
  /\ ppc # "idle" => prow.ver = pos + 1
  /\ ppc = "publishing" => Settled(prow.ver)
DurableInv == PendingUntilCovered /\ AcksCovered /\ SlotBehind /\ StagedNext

\* A step that deletes no uncovered row leaves every settled version settled.
LEMMA SettledStable ==
  ASSUME TypeOK, NEW v \in Int, Settled(v), cursor' \in Int, cursor <= cursor',
         cleaned \subseteq cleaned',
         \A r \in outbox : r \in outbox' \/ r.ver <= cursor' \/ r.ver \in cleaned'
  PROVE  Settled(v)'
BY SMTT(300) DEF Settled, Pending, TypeOK, ClientType

LEMMA DurableStep ==
  ASSUME TypeOK, TypeOK', DurableInv, [Next]_vars
  PROVE  DurableInv'
<1> USE DeliveryAssumption DEF TypeOK, ProducerType, ClientType, HistoryType
<1>1. \A v \in 1..pos : Settled(v)
  BY ZenonT(300) DEF DurableInv, PendingUntilCovered, Settled
<1>2. ASSUME cursor <= cursor', cleaned \subseteq cleaned',
             \A r \in outbox : r \in outbox' \/ r.ver <= cursor' \/ r.ver \in cleaned'
      PROVE  \A v \in Int : Settled(v) => Settled(v)'
  BY SMTT(300), <1>2, SettledStable
<1>3. ASSUME cursor <= cursor', acks' \subseteq acks PROVE AcksCovered'
  BY SMTT(300), <1>3 DEF DurableInv, AcksCovered, Versions
<1>4. ASSUME \A v \in Int : Settled(v) => Settled(v)', UNCHANGED producerVars
      PROVE  PendingUntilCovered' /\ SlotBehind' /\ StagedNext'
  <2>1. PendingUntilCovered'
    BY SMTT(300), <1>1, <1>4 DEF PendingUntilCovered, Settled, producerVars
  <2>2. ASSUME ppc = "publishing" PROVE Settled(prow.ver)'
    <3>1. prow.ver \in Int /\ Settled(prow.ver)
      BY SMTT(300), <2>2, RowFields DEF DurableInv, StagedNext, Versions
    <3> QED
      BY ZenonT(300), <1>4, <3>1 DEF producerVars, Settled, Pending
  <2> QED
    BY ZenonT(300), <1>4, <2>1, <2>2 DEF DurableInv, SlotBehind, StagedNext, producerVars, Settled, Pending
<1>5. ASSUME UNCHANGED <<outbox, producerVars, clientVars, cleaned>> PROVE DurableInv'
  BY SMTT(300), <1>2, <1>3, <1>4, <1>5 DEF DurableInv, clientVars
<1>6. CASE StageBegin
  BY SMTT(300), <1>6 DEF StageBegin, DurableInv, PendingUntilCovered, Pending, AcksCovered, SlotBehind,
              StagedNext, clientVars
<1>7. CASE StageCommit
  <2>1. \A v \in Int : Settled(v) => Settled(v)'
    BY SMTT(300), <1>2, <1>7 DEF StageCommit, clientVars
  <2>2. Settled(prow.ver)'
    BY ZenonT(300), <1>7 DEF StageCommit, Settled, Pending
  <2> QED
    BY SMTT(300), <1>1, <1>7, <2>1, <2>2 DEF StageCommit, DurableInv, PendingUntilCovered, AcksCovered,
                                  SlotBehind, StagedNext, Settled, clientVars
<1>8. ASSUME StageConflict \/ PublishLive PROVE DurableInv'
  <2>1. pos' = pos + 1 /\ Settled(pos + 1)
    BY ZenonT(300), <1>8 DEF StageConflict, PublishLive, DurableInv, StagedNext, Settled
  <2>2. UNCHANGED <<outbox, cursor, acks, cleaned, slot>> /\ ppc' = "idle"
    BY ZenonT(300), <1>8 DEF StageConflict, PublishLive, clientVars
  <2>3. \A v \in 1..pos' : Settled(v)'
    <3>1. \A v \in 1..pos' : Settled(v)
      <4>1. \A v \in 1..pos' : v \in 1..pos \/ v = pos + 1
        BY SMTT(300), <2>1
      <4> QED
        BY ZenonT(300), <1>1, <2>1, <4>1
    <3> QED
      BY ZenonT(300), <2>2, <3>1 DEF Settled, Pending
  <2> QED
    BY SMTT(300), <2>1, <2>2, <2>3 DEF DurableInv, PendingUntilCovered, AcksCovered, SlotBehind, StagedNext,
                            Settled
<1>9. CASE ConfirmPosition
  BY SMTT(300), <1>9 DEF ConfirmPosition, DurableInv, PendingUntilCovered, Pending, AcksCovered, SlotBehind,
              StagedNext, Settled, clientVars
<1>10. ASSUME NEW p \in Pods, ProducerRestart(p) \/ HomeCrash(p) PROVE DurableInv'
  <2>1. /\ outbox \subseteq outbox' /\ UNCHANGED <<cursor, acks, cleaned, slot>>
        /\ pos' = slot /\ ppc' = "idle"
    BY ZenonT(300), <1>10 DEF ProducerRestart, HomeCrash, clientVars
  <2>2. \A v \in Int : Settled(v) => Settled(v)'
    BY SMTT(300), <1>2, <2>1
  <2> QED
    BY SMTT(300), <1>1, <2>1, <2>2 DEF DurableInv, PendingUntilCovered, AcksCovered, SlotBehind, StagedNext,
                            Settled
<1>11. ASSUME NEW s \in Sessions, ApplyNext(s) PROVE DurableInv'
  <2>1. Head(queue[s]) \in Versions
    BY ZenonT(300), <1>11, HeadTailSeq DEF ApplyNext
  <2>2. cursor <= cursor' /\ Head(queue[s]) <= cursor'
    BY SMTT(300), <1>11, <2>1 DEF ApplyNext, Max2, Versions
  <2>3. AcksCovered'
    BY SMTT(300), <1>11, <2>2 DEF ApplyNext, DurableInv, AcksCovered, Versions
  <2>4. \A v \in Int : Settled(v) => Settled(v)'
    BY ZenonT(300), <1>2, <1>11, <2>2 DEF ApplyNext
  <2> QED
    BY ZenonT(300), <1>4, <1>11, <2>3, <2>4 DEF ApplyNext, DurableInv
<1>12. ASSUME NEW s \in Sessions, NEW v \in Versions, ServeAck(s, v) PROVE DurableInv'
  <2>1. v <= cursor
    BY ZenonT(300), <1>12 DEF ServeAck, DurableInv, AcksCovered
  <2>2. \A u \in Int : Settled(u) => Settled(u)'
    BY SMTT(300), <1>2, <1>12, <2>1 DEF ServeAck
  <2> QED
    BY SMTT(300), <1>3, <1>4, <1>12, <2>2 DEF ServeAck, DurableInv
<1>13. ASSUME NEW s \in Sessions, NEW v \in Versions, LoseAck(s, v) PROVE DurableInv'
  BY SMTT(300), <1>2, <1>3, <1>4, <1>13 DEF LoseAck, DurableInv
<1>14. ASSUME NEW s \in Sessions, AckReturn(s) \/ ClientEnd(s) PROVE DurableInv'
  BY SMTT(300), <1>2, <1>3, <1>4, <1>14 DEF AckReturn, ClientEnd, DurableInv
<1>15. CASE Cleanup
  BY SMTT(300), <1>2, <1>3, <1>4, <1>15 DEF Cleanup, DurableInv, clientVars
<1>16. ASSUME NEW s \in Sessions, Server(s) \/ ServerEnd(s) \/ Connect(s) PROVE DurableInv'
  BY ZenonT(300), <1>5, <1>16 DEF Server, LiveWatermark, ListPage, ReplayNext, ForwardLive, ServerEnd, Connect
<1>17. CASE UNCHANGED vars
  BY ZenonT(300), <1>5, <1>17 DEF vars
<1> QED
  BY ZenonT(300), <1>6, <1>7, <1>8, <1>9, <1>10, <1>11, <1>12, <1>13, <1>14, <1>15, <1>16, <1>17
     DEF Next, Producer, Client

\* At-least-once staging: a batch the producer has put behind it is pending,
\* covered by the peer's cursor or removed by the cleanup, through any number of
\* crashes, restarts from the slot, conflicts, lost, late and repeated Acks and
\* overlapping sessions (HandleBatch, Enqueue, Ack, OutboxCleanup).
THEOREM DurableStaging == Spec => []PendingUntilCovered
<1>1. Init => DurableInv
  BY SMTT(300) DEF Init, DurableInv, PendingUntilCovered, AcksCovered, SlotBehind, StagedNext
<1>2. TypeOK /\ TypeOK' /\ DurableInv /\ [Next]_vars => DurableInv'
  BY ZenonT(300), DurableStep
<1>3. DurableInv => PendingUntilCovered
  BY ZenonT(300) DEF DurableInv
<1> QED
  BY <1>1, <1>2, <1>3, TypeCorrect, PTL DEF Spec
-----------------------------------------------------------------------------
(* Delivery implements Feed.  Beyond DurableInv the argument needs that what  *)
(* pages, channels and queues carry was staged (Pages-, Chans-, QueuesSettled) *)
(* and that no version has two rows (UniqueRows), so that deleting a row      *)
(* deletes its version.                                                      *)

PagesSettled == \A s \in Sessions : \A r \in page[s] : Settled(r.ver)
ChansSettled == \A s \in Sessions : \A i \in 1..Len(chan[s]) : Settled(chan[s][i].ver)
QueuesSettled == \A s \in Sessions : \A i \in 1..Len(queue[s]) : Settled(queue[s][i])
UniqueRows == \A r, q \in outbox : r.ver = q.ver => r = q

FeedInv == DurableInv /\ PagesSettled /\ ChansSettled /\ QueuesSettled /\ UniqueRows

-----------------------------------------------------------------------------
LEMMA AppendElement ==
  ASSUME NEW T, NEW q \in Seq(T), NEW e \in T, NEW i \in 1..Len(Append(q, e))
  PROVE  \/ i \in 1..Len(q) /\ Append(q, e)[i] = q[i]
         \/ Append(q, e)[i] = e
BY SMTT(300)

LEMMA EmptyHasNone == 1..Len(<<>>) = {}
BY SMTT(300)

LEMMA TailElement ==
  ASSUME NEW T, NEW q \in Seq(T), q # <<>>, NEW i \in 1..Len(Tail(q))
  PROVE  i + 1 \in 1..Len(q) /\ Tail(q)[i] = q[i + 1]
BY SMTT(300)

LEMMA HeadElement ==
  ASSUME NEW T, NEW q \in Seq(T), q # <<>>
  PROVE  1 \in 1..Len(q) /\ Head(q) = q[1]
BY SMTT(300)

LEMMA ElementType ==
  ASSUME NEW T, NEW q \in Seq(T), NEW i \in 1..Len(q)
  PROVE  q[i] \in T
BY SMTT(300)

KeepsSettled ==
  /\ cursor <= cursor' /\ cleaned \subseteq cleaned'
  /\ \A r \in outbox : r \in outbox' \/ r.ver <= cursor' \/ r.ver \in cleaned'

\* No step takes a version out of the outbox that is neither covered nor cleaned.
LEMMA RowsLeaveSettled ==
  ASSUME TypeOK, TypeOK', DurableInv, [Next]_vars
  PROVE  KeepsSettled
<1> USE DEF TypeOK, ProducerType, ClientType, KeepsSettled
<1>0. cursor \in Int /\ cursor' \in Int
  BY SMTT(300), DeliveryAssumption
<1>1. CASE Producer
  <2>1. ASSUME StageBegin \/ StageCommit \/ StageConflict \/ PublishLive \/ ConfirmPosition
        PROVE  outbox \subseteq outbox' /\ UNCHANGED <<cursor, cleaned>>
    BY ZenonT(300), <2>1 DEF StageBegin, StageCommit, StageConflict, PublishLive, ConfirmPosition, clientVars
  <2>2. ASSUME NEW p \in Pods, ProducerRestart(p) \/ HomeCrash(p)
        PROVE  outbox \subseteq outbox' /\ UNCHANGED <<cursor, cleaned>>
    BY ZenonT(300), <2>2 DEF ProducerRestart, HomeCrash, clientVars
  <2> QED
    BY SMTT(300), <1>0, <1>1, <2>1, <2>2 DEF Producer
<1>2. ASSUME NEW s \in Sessions, Server(s) \/ ServerEnd(s) PROVE KeepsSettled
  <2>1. UNCHANGED <<outbox, cursor, cleaned>>
    BY ZenonT(300), <1>2 DEF Server, LiveWatermark, ListPage, ReplayNext, ForwardLive, ServerEnd, clientVars
  <2> QED
    BY SMTT(300), <1>0, <2>1
<1>3. ASSUME NEW s \in Sessions, ApplyNext(s) PROVE KeepsSettled
  <2>1. Head(queue[s]) \in Int
    BY SMTT(300), <1>3, HeadTailSeq DEF ApplyNext, Versions
  <2> QED
    BY SMTT(300), <1>0, <1>3, <2>1 DEF ApplyNext, Max2
<1>4. ASSUME NEW s \in Sessions, Connect(s) \/ AckReturn(s) \/ ClientEnd(s) PROVE KeepsSettled
  <2>1. UNCHANGED <<outbox, cursor, cleaned>>
    BY ZenonT(300), <1>4 DEF Connect, AckReturn, ClientEnd, clientVars
  <2> QED
    BY SMTT(300), <1>0, <2>1
<1>5. ASSUME NEW s \in Sessions, NEW u \in Versions, LoseAck(s, u) PROVE KeepsSettled
  BY SMTT(300), <1>0, <1>5 DEF LoseAck
<1>6. ASSUME NEW s \in Sessions, NEW u \in Versions, ServeAck(s, u) PROVE KeepsSettled
  BY SMTT(300), <1>0, <1>6 DEF ServeAck, DurableInv, AcksCovered
<1>7. CASE Cleanup
  BY SMTT(300), <1>0, <1>7 DEF Cleanup, clientVars
<1>8. CASE UNCHANGED vars
  BY SMTT(300), <1>0, <1>8 DEF vars, clientVars
<1> QED
  BY ZenonT(300), <1>1, <1>2, <1>3, <1>4, <1>5, <1>6, <1>7, <1>8 DEF Next, Client

LEMMA SettledStep ==
  ASSUME TypeOK, TypeOK', DurableInv, [Next]_vars, NEW v \in Int, Settled(v)
  PROVE  Settled(v)'
<1>1. cursor \in Int /\ cursor' \in Int
  BY SMTT(300), DeliveryAssumption DEF TypeOK, ClientType
<1> QED
  BY ZenonT(300), <1>1, RowsLeaveSettled, SettledStable DEF KeepsSettled

-----------------------------------------------------------------------------
(* What a step may do to the page, the channel and the queue of a session.  *)

PagesFromRows == \A s \in Sessions : page'[s] \subseteq page[s] \cup outbox
ChansFromStaged ==
  \A s \in Sessions :
    \/ chan'[s] = chan[s] \/ chan'[s] = <<>>
    \/ chan[s] # <<>> /\ chan'[s] = Tail(chan[s])
    \/ ppc = "publishing" /\ chan'[s] = Append(chan[s], prow)
QueuesFromCarried ==
  \A s \in Sessions :
    \/ queue'[s] = queue[s] \/ queue'[s] = <<>>
    \/ queue[s] # <<>> /\ queue'[s] = Tail(queue[s])
    \/ \E v \in Versions : Settled(v) /\ queue'[s] = Append(queue[s], v)
CarriesOld == PagesFromRows /\ ChansFromStaged /\ QueuesFromCarried

\* Pages list rows, channels get the row being published, queues get what a
\* page or a channel held: nothing is carried that was not staged.
LEMMA CarriesOldStep ==
  ASSUME TypeOK, FeedInv, [Next]_vars
  PROVE  CarriesOld
<1> USE DEF CarriesOld, PagesFromRows, ChansFromStaged, QueuesFromCarried,
            TypeOK, ProducerType, ServerType, ClientType
<1>1. ASSUME UNCHANGED <<page, chan, queue>> PROVE CarriesOld
  BY ZenonT(300), <1>1
<1>2. ASSUME StageBegin \/ StageCommit \/ StageConflict \/ ConfirmPosition PROVE CarriesOld
  BY ZenonT(300), <1>1, <1>2 DEF StageBegin, StageCommit, StageConflict, ConfirmPosition, serverVars
<1>3. CASE PublishLive
  BY ZenonT(300), <1>3 DEF PublishLive
<1>4. ASSUME NEW p \in Pods, ProducerRestart(p) PROVE CarriesOld
  BY ZenonT(300), <1>1, <1>4 DEF ProducerRestart, serverVars
<1>5. ASSUME NEW p \in Pods, HomeCrash(p) PROVE CarriesOld
  BY ZenonT(300), <1>5 DEF HomeCrash, CloseHandlers
<1>6. ASSUME NEW s \in Sessions, LiveWatermark(s) \/ Connect(s) \/ AckReturn(s) PROVE CarriesOld
  BY ZenonT(300), <1>1, <1>6 DEF LiveWatermark, Connect, AckReturn, serverVars
<1>7. ASSUME NEW s \in Sessions, ListPage(s) PROVE CarriesOld
  <2>1. FirstPage(s) \subseteq outbox
    BY ZenonT(300) DEF FirstPage, Window
  <2> QED
    BY ZenonT(300), <1>7, <2>1 DEF ListPage
<1>8. ASSUME NEW s \in Sessions, ReplayNext(s) PROVE CarriesOld
  <2>1. PICK r \in page[s] : /\ queue' = [queue EXCEPT ![s] = Append(@, r.ver)]
                             /\ page' = [page EXCEPT ![s] = @ \ {r}]
    BY ZenonT(300), <1>8 DEF ReplayNext
  <2>2. r.ver \in Versions /\ Settled(r.ver)
    BY ZenonT(300), RowFields DEF FeedInv, PagesSettled
  <2>3. QueuesFromCarried
    BY ZenonT(300), <2>1, <2>2
  <2>4. chan' = chan
    BY ZenonT(300), <1>8 DEF ReplayNext
  <2> QED
    BY ZenonT(300), <2>1, <2>3, <2>4
<1>9. ASSUME NEW s \in Sessions, ForwardLive(s) PROVE CarriesOld
  <2>1. Head(chan[s]) \in Row /\ 1 \in 1..Len(chan[s]) /\ Head(chan[s]) = chan[s][1]
    BY ZenonT(300), <1>9, HeadTailSeq, HeadElement DEF ForwardLive
  <2>2. Head(chan[s]).ver \in Versions /\ Settled(Head(chan[s]).ver)
    BY ZenonT(300), <2>1, RowFields DEF FeedInv, ChansSettled
  <2>3. QueuesFromCarried
    BY ZenonT(300), <1>9, <2>2 DEF ForwardLive
  <2>4. page' = page /\ ChansFromStaged
    BY ZenonT(300), <1>9 DEF ForwardLive
  <2> QED
    BY ZenonT(300), <2>3, <2>4
<1>10. ASSUME NEW s \in Sessions, ServerEnd(s) PROVE CarriesOld
  BY ZenonT(300), <1>10 DEF ServerEnd, CloseHandlers
<1>11. ASSUME NEW s \in Sessions, ApplyNext(s) PROVE CarriesOld
  BY ZenonT(300), <1>11 DEF ApplyNext, serverVars
<1>12. ASSUME NEW s \in Sessions, ClientEnd(s) PROVE CarriesOld
  BY ZenonT(300), <1>12 DEF ClientEnd
<1>13. ASSUME NEW s \in Sessions, NEW v \in Versions, LoseAck(s, v) \/ ServeAck(s, v)
       PROVE  CarriesOld
  BY ZenonT(300), <1>1, <1>13 DEF LoseAck, ServeAck, serverVars
<1>14. ASSUME Cleanup \/ UNCHANGED vars PROVE CarriesOld
  BY ZenonT(300), <1>1, <1>14 DEF Cleanup, vars, serverVars
<1> QED
  BY ZenonT(300), <1>2, <1>3, <1>4, <1>5, <1>6, <1>7, <1>8, <1>9, <1>10, <1>11, <1>12, <1>13, <1>14
     DEF Next, Producer, Server, Client

LEMMA ChanComesFrom ==
  ASSUME TypeOK, CarriesOld, NEW s \in Sessions, NEW i \in 1..Len(chan'[s])
  PROVE  \/ \E j \in 1..Len(chan[s]) : chan'[s][i] = chan[s][j]
         \/ ppc = "publishing" /\ chan'[s][i] = prow
<1> USE DEF TypeOK, ProducerType, ServerType
<1>0. chan[s] \in Seq(Row)
  BY ZenonT(300)
<1>1. CASE chan'[s] = chan[s] \/ chan'[s] = <<>>
  BY ZenonT(300), <1>1, EmptyHasNone
<1>2. CASE chan[s] # <<>> /\ chan'[s] = Tail(chan[s])
  BY ZenonT(300), <1>0, <1>2, TailElement
<1>3. CASE ppc = "publishing" /\ chan'[s] = Append(chan[s], prow)
  <2>1. prow \in Row
    <3>1. ppc # "idle"
      BY ZenonT(300), <1>3
    <3> QED
      BY ZenonT(300), <3>1
  <2>2. i \in 1..Len(Append(chan[s], prow))
    BY ZenonT(300), <1>3
  <2>3. \/ i \in 1..Len(chan[s]) /\ Append(chan[s], prow)[i] = chan[s][i]
        \/ Append(chan[s], prow)[i] = prow
    BY ZenonT(300), <1>0, <2>1, <2>2, AppendElement
  <2> QED
    BY ZenonT(300), <1>3, <2>3
<1> QED
  BY ZenonT(300), <1>1, <1>2, <1>3 DEF CarriesOld, ChansFromStaged

LEMMA CarriesStep ==
  ASSUME TypeOK, TypeOK', FeedInv, [Next]_vars
  PROVE  PagesSettled' /\ ChansSettled' /\ QueuesSettled'
<1> USE DEF TypeOK, ProducerType, ServerType, ClientType
<1>1. \A v \in Versions : Settled(v) => Settled(v)'
  <2>1. \A v \in Versions : v \in Int
    BY SMTT(300) DEF Versions
  <2> QED
    BY ZenonT(300), <2>1, SettledStep DEF FeedInv
<1>2. CarriesOld
  BY ZenonT(300), CarriesOldStep
<1>3. PagesSettled'
  <2> SUFFICES ASSUME NEW s \in Sessions, NEW r \in page'[s] PROVE Settled(r.ver)'
    BY ZenonT(300) DEF PagesSettled
  <2>1. r \in page[s] \/ r \in outbox
    BY ZenonT(300), <1>2 DEF CarriesOld, PagesFromRows
  <2>2. r.ver \in Versions /\ Settled(r.ver)
    BY ZenonT(300), <2>1, RowFields DEF FeedInv, PagesSettled, Settled, Pending
  <2> QED
    BY ZenonT(300), <1>1, <2>2
<1>4. ChansSettled'
  <2> SUFFICES ASSUME NEW s \in Sessions, NEW i \in 1..Len(chan'[s])
               PROVE  Settled(chan[s][i].ver)'
    BY ZenonT(300) DEF ChansSettled
  <2>1. \/ \E j \in 1..Len(chan[s]) : chan'[s][i] = chan[s][j]
        \/ ppc = "publishing" /\ chan'[s][i] = prow
    BY ZenonT(300), <1>2, ChanComesFrom
  <2>2. chan'[s][i] \in Row
    BY ZenonT(300), ElementType
  <2>3. Settled(chan'[s][i].ver)
    BY ZenonT(300), <2>1 DEF FeedInv, ChansSettled, DurableInv, StagedNext
  <2>4. PICK v \in Versions : v = chan'[s][i].ver /\ Settled(v)
    BY ZenonT(300), <2>2, <2>3, RowFields
  <2> QED
    BY ZenonT(300), <1>1, <2>4 DEF Settled, Pending
<1>5. QueuesSettled'
  <2> SUFFICES ASSUME NEW s \in Sessions, NEW i \in 1..Len(queue'[s])
               PROVE  Settled(queue[s][i])'
    BY ZenonT(300) DEF QueuesSettled
  <2>1. \/ \E j \in 1..Len(queue[s]) : queue'[s][i] = queue[s][j]
        \/ Settled(queue'[s][i])
    <3>0. queue[s] \in Seq(Versions)
      BY ZenonT(300)
    <3>1. CASE queue'[s] = queue[s] \/ queue'[s] = <<>>
      BY ZenonT(300), <3>1, EmptyHasNone
    <3>2. CASE queue[s] # <<>> /\ queue'[s] = Tail(queue[s])
      BY ZenonT(300), <3>0, <3>2, TailElement
    <3>3. CASE \E v \in Versions : Settled(v) /\ queue'[s] = Append(queue[s], v)
      <4>1. PICK v \in Versions : Settled(v) /\ queue'[s] = Append(queue[s], v)
        BY ZenonT(300), <3>3
      <4>2. i \in 1..Len(Append(queue[s], v))
        BY ZenonT(300), <4>1
      <4>3. \/ i \in 1..Len(queue[s]) /\ Append(queue[s], v)[i] = queue[s][i]
            \/ Append(queue[s], v)[i] = v
        BY ZenonT(300), <3>0, <4>2, AppendElement
      <4> QED
        BY ZenonT(300), <4>1, <4>3
    <3> QED
      BY ZenonT(300), <1>2, <3>1, <3>2, <3>3 DEF CarriesOld, QueuesFromCarried
  <2>2. queue'[s][i] \in Versions
    BY ZenonT(300), ElementType
  <2>3. PICK v \in Versions : v = queue'[s][i] /\ Settled(v)
    BY ZenonT(300), <2>1, <2>2 DEF FeedInv, QueuesSettled
  <2> QED
    BY ZenonT(300), <1>1, <2>3 DEF Settled, Pending
<1> QED
  BY ZenonT(300), <1>3, <1>4, <1>5

-----------------------------------------------------------------------------
(* What a step may do to the outbox, the cursor and the discarded versions.  *)

Inserts ==
  /\ ppc = "inserting" /\ ~Pending(prow.ver)
  /\ outbox' = outbox \cup {prow} /\ UNCHANGED <<cursor, cleaned>>
Moves(v) == Settled(v) /\ cursor' = Max2(cursor, v) /\ UNCHANGED <<outbox, cleaned>>
Deletes(v) ==
  v <= cursor /\ outbox' = {r \in outbox : r.ver # v} /\ UNCHANGED <<cursor, cleaned>>
Drops(gone) ==
  /\ outbox' = outbox \ gone /\ cleaned' = cleaned \cup {r.ver : r \in gone}
  /\ UNCHANGED cursor

StepKinds ==
  \/ UNCHANGED <<outbox, cursor, cleaned>>
  \/ Inserts
  \/ \E v \in Versions : Moves(v) \/ Deletes(v)
  \/ \E gone \in SUBSET outbox : Drops(gone)

LEMMA EveryStepKind == ASSUME TypeOK, FeedInv, [Next]_vars PROVE StepKinds
<1> USE DEF StepKinds, TypeOK, ProducerType, ServerType, ClientType
<1>1. ASSUME StageBegin \/ StageCommit \/ StageConflict \/ PublishLive \/ ConfirmPosition
      PROVE  StepKinds
  BY ZenonT(300), <1>1 DEF StageBegin, StageCommit, StageConflict, PublishLive, ConfirmPosition, clientVars, Inserts
<1>2. ASSUME NEW p \in Pods, ProducerRestart(p) \/ HomeCrash(p) PROVE StepKinds
  BY ZenonT(300), <1>2 DEF ProducerRestart, HomeCrash, clientVars, Inserts
<1>3. ASSUME NEW s \in Sessions, Server(s) \/ ServerEnd(s) PROVE StepKinds
  BY ZenonT(300), <1>3 DEF Server, LiveWatermark, ListPage, ReplayNext, ForwardLive, ServerEnd, clientVars
<1>4. ASSUME NEW s \in Sessions, Connect(s) \/ AckReturn(s) \/ ClientEnd(s) PROVE StepKinds
  BY ZenonT(300), <1>4 DEF Connect, AckReturn, ClientEnd, clientVars
<1>5. ASSUME NEW s \in Sessions, ApplyNext(s) PROVE StepKinds
  <2>1. Head(queue[s]) \in Versions /\ 1 \in 1..Len(queue[s]) /\ Head(queue[s]) = queue[s][1]
    BY ZenonT(300), <1>5, HeadTailSeq, HeadElement DEF ApplyNext
  <2>2. Settled(Head(queue[s]))
    BY ZenonT(300), <2>1 DEF FeedInv, QueuesSettled
  <2>3. Moves(Head(queue[s]))
    BY ZenonT(300), <1>5, <2>2 DEF ApplyNext, Moves
  <2> QED
    BY ZenonT(300), <2>1, <2>3
<1>6. ASSUME NEW s \in Sessions, NEW v \in Versions, LoseAck(s, v) PROVE StepKinds
  BY ZenonT(300), <1>6 DEF LoseAck
<1>7. ASSUME NEW s \in Sessions, NEW v \in Versions, ServeAck(s, v) PROVE StepKinds
  <2>1. Deletes(v)
    BY ZenonT(300), <1>7 DEF ServeAck, Deletes, FeedInv, DurableInv, AcksCovered
  <2> QED
    BY ZenonT(300), <2>1
<1>8. CASE Cleanup
  <2>1. PICK gone \in {TooMany} \cup {TooOld(t) : t \in 1..(MaxStamp + 1)} :
          outbox' = outbox \ gone /\ cleaned' = cleaned \cup {r.ver : r \in gone} /\ UNCHANGED cursor
    BY ZenonT(300), <1>8 DEF Cleanup, clientVars
  <2>2. gone \subseteq outbox
    BY ZenonT(300) DEF TooMany, TooOld
  <2> QED
    BY ZenonT(300), <2>1, <2>2 DEF Drops
<1>9. CASE UNCHANGED vars
  BY ZenonT(300), <1>9 DEF vars, clientVars
<1> QED
  BY ZenonT(300), <1>1, <1>2, <1>3, <1>4, <1>5, <1>6, <1>7, <1>8, <1>9 DEF Next, Producer, Client

LEMMA FeedInvStep ==
  ASSUME TypeOK, TypeOK', FeedInv, [Next]_vars
  PROVE  FeedInv'
<1>1. UniqueRows'
  <2>1. StepKinds
    BY ZenonT(300), EveryStepKind
  <2>2. CASE outbox' \subseteq outbox
    BY ZenonT(300), <2>2 DEF FeedInv, UniqueRows
  <2>3. CASE Inserts
    BY ZenonT(300), <2>3 DEF Inserts, Pending, FeedInv, UniqueRows
  <2> QED
    BY ZenonT(300), <2>1, <2>2, <2>3 DEF StepKinds, Moves, Deletes, Drops
<1>2. DurableInv'
  BY ZenonT(300), DurableStep DEF FeedInv
<1> QED
  BY ZenonT(300), <1>1, <1>2, CarriesStep DEF FeedInv

-----------------------------------------------------------------------------
\* An insertion is Feed's Stage, moving the cursor its Deliver or nothing, an
\* Ack its Settle, the cleanup its Discard; every other step is invisible.
LEMMA StepSimulation ==
  ASSUME TypeOK, TypeOK', FeedInv, [Next]_vars
  PROVE  [Promise!Next]_(Promise!state)
<1> USE DEF TypeOK, ProducerType, ClientType
<1> DEFINE pending == {r.ver : r \in outbox}
<1>1. StepKinds
  BY ZenonT(300), EveryStepKind
<1>2. CASE UNCHANGED <<outbox, cursor, cleaned>>
  BY ZenonT(300), <1>2 DEF Promise!state
<1>3. CASE Inserts
  <2>1. prow \in Row /\ prow.ver = pos + 1
    BY ZenonT(300), <1>3 DEF Inserts, FeedInv, DurableInv, StagedNext
  <2>2. prow.ver \in 1..MaxVersion
    BY ZenonT(300), <2>1, RowFields DEF Versions
  <2>3. \A u \in 1..(prow.ver - 1) : Promise!Known(u)
    <3>1. \A u \in 1..pos : Pending(u) \/ u <= cursor \/ u \in cleaned
      BY ZenonT(300) DEF FeedInv, DurableInv, PendingUntilCovered
    <3>2. prow.ver - 1 = pos
      BY SMTT(300), <2>1
    <3> QED
      BY ZenonT(300), <3>1, <3>2 DEF Promise!Known, Pending
  <2>4. pending' = pending \cup {prow.ver}
    BY ZenonT(300), <1>3 DEF Inserts
  <2>5. PICK v \in 1..MaxVersion : v = prow.ver
    BY ZenonT(300), <2>2
  <2>6. Promise!Stage(v)
    BY ZenonT(300), <1>3, <2>3, <2>4, <2>5 DEF Promise!Stage, Inserts
  <2> QED
    BY ZenonT(300), <2>6 DEF Promise!Next
<1>4. ASSUME NEW v \in Versions, Moves(v) PROVE [Promise!Next]_(Promise!state)
  <2>1. CASE v <= cursor
    BY SMTT(300), <1>4, <2>1 DEF Moves, Max2, Promise!state, Versions
  <2>2. CASE v > cursor
    <3>1. Promise!Known(v)
      BY ZenonT(300), <1>4 DEF Moves, Settled, Pending, Promise!Known
    <3>2. cursor' = v
      BY SMTT(300), <1>4, <2>2 DEF Moves, Max2, Versions
    <3>3. Promise!Deliver(v)
      BY ZenonT(300), <1>4, <2>2, <3>1, <3>2 DEF Moves, Promise!Deliver
    <3> QED
      BY ZenonT(300), <3>3 DEF Promise!Next, Versions
  <2> QED
    BY SMTT(300), <2>1, <2>2 DEF Versions
<1>5. ASSUME NEW v \in Versions, Deletes(v) PROVE [Promise!Next]_(Promise!state)
  <2>1. pending' = pending \ {v}
    BY ZenonT(300), <1>5 DEF Deletes
  <2>2. Promise!Settle(v)
    BY ZenonT(300), <1>5, <2>1 DEF Deletes, Promise!Settle
  <2> QED
    BY ZenonT(300), <2>2 DEF Promise!Next, Versions
<1>6. ASSUME NEW gone \in SUBSET outbox, Drops(gone) PROVE [Promise!Next]_(Promise!state)
  <2> DEFINE S == {r.ver : r \in gone}
  <2>1. S \subseteq pending /\ S \in SUBSET (1..MaxVersion)
    BY ZenonT(300), RowFields DEF Versions
  <2>2. pending' = pending \ S
    BY ZenonT(300), <1>6 DEF Drops, FeedInv, UniqueRows
  <2>3. Promise!Discard(S)
    BY ZenonT(300), <1>6, <2>1, <2>2 DEF Drops, Promise!Discard
  <2> QED
    BY ZenonT(300), <2>1, <2>3 DEF Promise!Next
<1> QED
  BY ZenonT(300), <1>1, <1>2, <1>3, <1>4, <1>5, <1>6 DEF StepKinds

\* The producer, the outbox, the Consume handlers, the clients and the Acks keep
\* Feed's promise, whatever the sessions, pods, buffers, limits and faults.
THEOREM FeedRefinement == Spec => ImplementsFeed
<1>1. Init => FeedInv /\ Promise!Init
  BY SMTT(300) DEF Init, FeedInv, DurableInv, PendingUntilCovered, AcksCovered, SlotBehind, StagedNext,
         PagesSettled, ChansSettled, QueuesSettled, UniqueRows, Promise!Init
<1>2. TypeOK /\ TypeOK' /\ FeedInv /\ [Next]_vars => FeedInv'
  BY ZenonT(300), FeedInvStep
<1>3. TypeOK /\ TypeOK' /\ FeedInv /\ [Next]_vars => [Promise!Next]_(Promise!state)
  BY ZenonT(300), StepSimulation
<1> QED
  BY <1>1, <1>2, <1>3, TypeCorrect, PTL DEF Spec, ImplementsFeed, Promise!Spec

-----------------------------------------------------------------------------
(* What the cursor may jump over.  Rows are staged in the order of their      *)
(* versions, except for versions that are settled for good (RowsAreOrdered):  *)
(* a row that comes to a session has all smaller versions before it, in the   *)
(* outbox and by stamp.  The session has come past them by replay or through  *)
(* its channel, or has missed them (ReplayedCame, LiveCame).                  *)

\* Leaves without a backend of their own are Zenon's.
USE ZenonT(300)

\* Versions that are settled for good, and those that are so or have a row older than t.
Over(u) == u <= cursor \/ u \in cleaned
HasOlder(u, t) == Over(u) \/ \E q \in outbox : q.ver = u /\ q.at < t
IsOrdered(r) == \A u \in 1..(r.ver - 1) : HasOlder(u, r.at)

RowsAreOrdered ==
  /\ \A r \in outbox : IsOrdered(r)
  /\ ppc # "idle" => IsOrdered(prow)
  /\ \A s \in Sessions : \A r \in page[s] : IsOrdered(r)
  /\ \A s \in Sessions : \A i \in 1..Len(chan[s]) : IsOrdered(chan[s][i])

StampsDiffer == \A q, r \in outbox : q.at = r.at => q = r

\* The row HandleBatch is at is younger than all others; until it is committed, nobody has it.
NewestIsLast ==
  /\ ppc # "idle" => /\ \A r \in outbox : r = prow \/ r.at < prow.at
                     /\ \A s \in Sessions : \A i \in 1..Len(chan[s]) : chan[s][i].at < prow.at
  /\ ppc = "inserting" => /\ \A r \in outbox : r.at < prow.at
                          /\ \A s \in Sessions : after[s] < prow.at
                          /\ \A s \in Sessions : \A r \in page[s] : r.at < prow.at

LEMMA OverStays ==
  ASSUME TypeOK, TypeOK', KeepsSettled, NEW u \in Int, Over(u)
  PROVE  Over(u)'
BY SMTT(300), DeliveryAssumption DEF Over, KeepsSettled, TypeOK, ClientType

LEMMA OlderStays ==
  ASSUME TypeOK, TypeOK', KeepsSettled, NEW u \in Int, NEW t, HasOlder(u, t)
  PROVE  HasOlder(u, t)'
<1>1. CASE Over(u)
  BY <1>1, OverStays DEF HasOlder
<1>2. CASE \E q \in outbox : q.ver = u /\ q.at < t
  BY <1>2 DEF HasOlder, Over, KeepsSettled
<1> QED
  BY <1>1, <1>2 DEF HasOlder

LEMMA OrderedStays ==
  ASSUME TypeOK, TypeOK', KeepsSettled, NEW r, r.ver \in Int, IsOrdered(r)
  PROVE  IsOrdered(r)'
<1>1. \A u \in 1..(r.ver - 1) : u \in Int
  BY SMTT(300)
<1> QED
  BY <1>1, OlderStays DEF IsOrdered

\* Where the rows of the outbox, and the one in the hands of the producer, come from.
LEMMA RowsComeFrom ==
  ASSUME TypeOK, FeedInv, [Next]_vars
  PROVE  /\ outbox' \subseteq outbox \/ Inserts
         /\ ppc' # "idle" => (ppc # "idle" /\ prow' = prow) \/ StageBegin
<1>1. outbox' \subseteq outbox \/ Inserts
  <2>1. StepKinds
    BY EveryStepKind
  <2> QED
    BY <2>1 DEF StepKinds, Moves, Deletes, Drops
<1> DEFINE G == ppc' # "idle" => (ppc # "idle" /\ prow' = prow) \/ StageBegin
<1> HIDE DEF G
<1>2. ASSUME Producer PROVE G
  <2>1. ASSUME StageCommit \/ StageConflict \/ PublishLive \/ ConfirmPosition PROVE G
    BY <2>1 DEF StageCommit, StageConflict, PublishLive, ConfirmPosition, G
  <2>2. ASSUME NEW p \in Pods, ProducerRestart(p) \/ HomeCrash(p) PROVE G
    BY <2>2 DEF ProducerRestart, HomeCrash, G
  <2>3. StageBegin => G
    BY DEF G
  <2> QED
    BY <1>2, <2>1, <2>2, <2>3 DEF Producer
<1>3. ASSUME UNCHANGED producerVars PROVE G
  BY <1>3 DEF producerVars, G
<1>4. ASSUME NEW s \in Sessions, Server(s) \/ ServerEnd(s) \/ Client(s) PROVE G
  BY <1>3, <1>4 DEF Server, LiveWatermark, ListPage, ReplayNext, ForwardLive, ServerEnd, Client, Connect,
     ApplyNext, AckReturn, ClientEnd, LoseAck
<1>5. ASSUME NEW s \in Sessions, NEW v \in Versions, ServeAck(s, v) PROVE G
  BY <1>3, <1>5 DEF ServeAck
<1>6. ASSUME Cleanup \/ UNCHANGED vars PROVE G
  BY <1>3, <1>6 DEF Cleanup, vars
<1>7. G
  BY <1>2, <1>4, <1>5, <1>6 DEF Next
<1> QED
  BY <1>1, <1>7 DEF G

\* A statement that starts now draws a stamp above all that are in use.
LEMMA NowIsLast ==
  ASSUME TypeOK, NEW t, IsNow(t)
  PROVE  /\ \A r \in outbox : r.at < t
         /\ \A s \in Sessions : lw[s] < t /\ \A r \in page[s] : r.at < t
         /\ \A s \in Sessions : \A i \in 1..Len(chan[s]) : chan[s][i].at < t
<1>1. \A u \in Stamps : u < t
  BY DEF IsNow
<1>2. \A s \in Sessions : \A i \in 1..Len(chan[s]) : chan[s][i] \in Range(chan[s])
  <2>1. ASSUME NEW s \in Sessions, NEW i \in 1..Len(chan[s]) PROVE i \in DOMAIN chan[s]
    <3>1. chan[s] \in Seq(Row)
      BY DEF TypeOK, ServerType
    <3> QED
      BY SMTT(300), <3>1
  <2> QED
    BY <2>1 DEF Range
<1>3. /\ \A r \in outbox : r \in Rows
      /\ \A s \in Sessions : \A r \in page[s] : r \in Rows
      /\ \A s \in Sessions : \A i \in 1..Len(chan[s]) : chan[s][i] \in Rows
  <2> DEFINE held(s) == page[s] \cup Range(chan[s])
  <2>1. ASSUME NEW s \in Sessions, NEW r \in held(s) PROVE r \in UNION {held(q) : q \in Sessions}
    OBVIOUS
  <2> QED
    BY <1>2, <2>1 DEF Rows
<1>4. (\A r \in Rows : r.at \in Stamps) /\ \A s \in Sessions : lw[s] \in Stamps
  BY DEF Stamps
<1> QED
  BY <1>1, <1>3, <1>4

LEMMA OrderedStep ==
  ASSUME TypeOK, TypeOK', FeedInv, RowsAreOrdered, [Next]_vars
  PROVE  RowsAreOrdered'
<1>0. KeepsSettled /\ CarriesOld
  BY RowsLeaveSettled, CarriesOldStep DEF FeedInv
<1>1. \A r \in Row : r.ver \in Int
  BY SMTT(300), RowFields DEF Versions
<1>2. \A r \in Row : IsOrdered(r) => IsOrdered(r)'
  BY <1>0, <1>1, OrderedStays
<1>3. \A r \in outbox' : IsOrdered(r)'
  <2>1. \A r \in outbox' : r \in outbox \/ (r = prow /\ ppc # "idle" /\ prow \in Row)
    BY RowsComeFrom DEF Inserts, TypeOK, ProducerType
  <2> QED
    BY <1>2, <2>1 DEF RowsAreOrdered, TypeOK, ProducerType
<1>4. ASSUME ppc' # "idle" PROVE IsOrdered(prow)'
  <2>1. CASE ppc # "idle" /\ prow' = prow
    <3>1. PICK r \in Row : r = prow /\ IsOrdered(r)
      BY <2>1 DEF RowsAreOrdered, TypeOK, ProducerType
    <3>2. IsOrdered(r)' /\ prow' = r
      BY <1>2, <2>1, <3>1
    <3> QED
      BY <3>2 DEF IsOrdered, HasOlder, Over
  <2>2. CASE StageBegin
    <3>1. PICK t : IsNow(t) /\ prow' = [ver |-> pos + 1, at |-> t]
      BY <2>2 DEF StageBegin
    <3>2. PICK v : v = pos + 1
      OBVIOUS
    <3> DEFINE r == [ver |-> v, at |-> t]
    <3>3. r.ver = v /\ r.at = t
      OBVIOUS
    <3>4. \A u \in 1..(v - 1) : u \in 1..pos /\ u \in Int
      BY SMTT(300), <3>2 DEF TypeOK, ProducerType
    <3>5. \A u \in 1..(v - 1) : HasOlder(u, t)
      BY <3>1, <3>4, NowIsLast DEF FeedInv, DurableInv, PendingUntilCovered, Pending, HasOlder, Over
    <3>6. \A u \in 1..(v - 1) : HasOlder(u, t)'
      BY <1>0, <3>4, <3>5, OlderStays
    <3>7. IsOrdered(r)' /\ prow' = r
      BY <3>1, <3>2, <3>3, <3>6 DEF IsOrdered
    <3> QED
      BY <3>7 DEF IsOrdered, HasOlder, Over
  <2> QED
    BY <1>4, <2>1, <2>2, RowsComeFrom
<1>5. ASSUME NEW s \in Sessions, NEW r \in page'[s] PROVE IsOrdered(r)'
  <2>1. r \in page[s] \/ r \in outbox
    BY <1>0 DEF CarriesOld, PagesFromRows
  <2>2. r \in Row
    BY <2>1 DEF TypeOK, ProducerType, ServerType
  <2> QED
    BY <1>2, <2>1, <2>2 DEF RowsAreOrdered
<1>6. ASSUME NEW s \in Sessions, NEW i \in 1..Len(chan'[s]) PROVE IsOrdered(chan[s][i])'
  <2>1. PICK r : r = chan'[s][i]
    OBVIOUS
  <2>2. r \in Row
    BY <2>1, ElementType DEF TypeOK, ServerType
  <2>3. IsOrdered(r)
    <3>1. \/ \E j \in 1..Len(chan[s]) : r = chan[s][j]
          \/ ppc = "publishing" /\ r = prow
      BY <1>0, <2>1, ChanComesFrom
    <3> QED
      BY <3>1 DEF RowsAreOrdered
  <2>4. IsOrdered(r)'
    BY <1>2, <2>2, <2>3
  <2> QED
    BY <2>1, <2>4 DEF IsOrdered, HasOlder, Over
<1> QED
  BY <1>3, <1>4, <1>5, <1>6 DEF RowsAreOrdered

LEMMA StampsStep ==
  ASSUME TypeOK, FeedInv, StampsDiffer, NewestIsLast, [Next]_vars
  PROVE  StampsDiffer'
<1>1. CASE outbox' \subseteq outbox
  BY <1>1 DEF StampsDiffer
<1>2. CASE Inserts
  <2>1. \A r \in outbox : r.at # prow.at
    <3>1. \A r \in outbox : r.at < prow.at
      BY <1>2 DEF Inserts, NewestIsLast
    <3>2. prow.at \in Int /\ \A r \in outbox : r.at \in Int
      <4>1. prow \in Row /\ \A r \in outbox : r \in Row
        BY <1>2 DEF Inserts, TypeOK, ProducerType
      <4> QED
        BY SMTT(300), <4>1, RowFields
    <3> QED
      BY SMTT(300), <3>1, <3>2
  <2> QED
    BY <1>2, <2>1 DEF Inserts, StampsDiffer
<1> QED
  BY <1>1, <1>2, RowsComeFrom

\* The producer rests, and what the sessions have is what they or the outbox had.
Drains ==
  /\ UNCHANGED producerVars /\ outbox' \subseteq outbox
  /\ \A s \in Sessions : chan'[s] = chan[s] \/ chan'[s] = <<>> \/ (chan[s] # <<>> /\ chan'[s] = Tail(chan[s]))
  /\ \A s \in Sessions : after'[s] = after[s] \/ after'[s] = 0 \/ \E r \in page[s] : after'[s] = r.at

LEMMA OthersDrain ==
  ASSUME TypeOK, [Next]_vars
  PROVE  Producer \/ Drains
<1> USE DEF TypeOK, ServerType
<1>1. ASSUME UNCHANGED <<producerVars, chan, after>>, outbox' \subseteq outbox PROVE Drains
  BY <1>1 DEF Drains
<1>2. ASSUME NEW s \in Sessions, LiveWatermark(s) \/ Connect(s) \/ ApplyNext(s) \/ AckReturn(s) PROVE Drains
  BY <1>1, <1>2 DEF LiveWatermark, Connect, ApplyNext, AckReturn, serverVars
<1>3. ASSUME NEW s \in Sessions, ListPage(s) PROVE Drains
  BY <1>3 DEF ListPage, Drains
<1>4. ASSUME NEW s \in Sessions, ReplayNext(s) PROVE Drains
  BY <1>4 DEF ReplayNext, Drains
<1>5. ASSUME NEW s \in Sessions, ForwardLive(s) PROVE Drains
  BY <1>5 DEF ForwardLive, Drains
<1>6. ASSUME NEW s \in Sessions, ServerEnd(s) PROVE Drains
  BY <1>6 DEF ServerEnd, CloseHandlers, Drains
<1>7. ASSUME NEW s \in Sessions, ClientEnd(s) PROVE Drains
  BY <1>7 DEF ClientEnd, Drains
<1>8. ASSUME NEW s \in Sessions, NEW v \in Versions, LoseAck(s, v) \/ ServeAck(s, v) PROVE Drains
  BY <1>1, <1>8 DEF LoseAck, ServeAck, serverVars
<1>9. ASSUME Cleanup \/ UNCHANGED vars PROVE Drains
  BY <1>1, <1>9 DEF Cleanup, vars, serverVars
<1> QED
  BY <1>2, <1>3, <1>4, <1>5, <1>6, <1>7, <1>8, <1>9 DEF Next, Server, Client

LEMMA NewestStep ==
  ASSUME TypeOK, FeedInv, NewestIsLast, \A s \in Sessions : after[s] <= lw[s], [Next]_vars
  PROVE  NewestIsLast'
<1>1. CASE ppc' = "idle"
  BY <1>1 DEF NewestIsLast
<1>2. CASE StageBegin
  <2>1. PICK t \in 1..MaxStamp : IsNow(t) /\ prow' = [ver |-> pos + 1, at |-> t]
    BY <1>2 DEF StageBegin
  <2>2. prow'.at = t
    BY <2>1
  <2>3. UNCHANGED <<outbox, chan, page, after>>
    BY <1>2 DEF StageBegin, serverVars
  <2>4. \A s \in Sessions : after[s] < t
    <3>1. ASSUME NEW s \in Sessions PROVE after[s] < t
      <4>1. after[s] <= lw[s] /\ lw[s] < t
        BY <2>1, NowIsLast
      <4>2. after[s] \in 0..MaxStamp /\ lw[s] \in 0..MaxStamp
        BY DEF TypeOK, ServerType
      <4> QED
        BY SMTT(300), <4>1, <4>2
    <3> QED
      BY <3>1
  <2> QED
    BY <2>1, <2>2, <2>3, <2>4, NowIsLast DEF NewestIsLast
<1>3. CASE StageCommit
  <2>1. /\ outbox' = outbox \cup {prow} /\ ppc = "inserting" /\ ppc' = "publishing"
        /\ prow' = prow /\ chan' = chan
    BY <1>3 DEF StageCommit, serverVars
  <2> QED
    BY <2>1 DEF NewestIsLast
<1>4. CASE Drains
  <2>1. prow' = prow /\ ppc' = ppc /\ outbox' \subseteq outbox
    BY <1>4 DEF Drains, producerVars
  <2>2. ASSUME ppc # "idle", NEW s \in Sessions, NEW i \in 1..Len(chan'[s]) PROVE chan'[s][i].at < prow.at
    <3>1. \E j \in 1..Len(chan[s]) : chan'[s][i] = chan[s][j]
      <4>1. chan[s] \in Seq(Row)
        BY DEF TypeOK, ServerType
      <4>2. CASE chan'[s] = chan[s] \/ chan'[s] = <<>>
        BY <4>2, EmptyHasNone
      <4>3. CASE chan[s] # <<>> /\ chan'[s] = Tail(chan[s])
        BY <4>1, <4>3, TailElement
      <4> QED
        BY <1>4, <4>2, <4>3 DEF Drains
    <3> QED
      BY <2>2, <3>1 DEF NewestIsLast
  <2>3. ASSUME ppc = "inserting", NEW s \in Sessions
        PROVE  after'[s] < prow.at /\ \A r \in page'[s] : r.at < prow.at
    <3>1. page'[s] \subseteq page[s] \cup outbox
      BY CarriesOldStep DEF CarriesOld, PagesFromRows
    <3>2. 0 < prow.at
      <4>1. prow \in Row
        BY <2>3 DEF TypeOK, ProducerType
      <4>2. prow.at \in 1..MaxStamp
        BY <4>1, RowFields
      <4> QED
        BY SMTT(300), <4>2
    <3> QED
      BY <1>4, <2>3, <3>1, <3>2 DEF Drains, NewestIsLast
  <2> QED
    BY <2>1, <2>2, <2>3 DEF NewestIsLast
<1>5. Producer => ppc' = "idle" \/ StageBegin \/ StageCommit
  BY DEF Producer, StageConflict, PublishLive, ConfirmPosition, ProducerRestart, HomeCrash
<1> QED
  BY <1>1, <1>2, <1>3, <1>4, <1>5, OthersDrain

(* What a step may do to session s: nothing but let it miss a row, publish a  *)
(* row to it, end it, or be a step of its own.                                *)

NowMissed(s, v) == \E m \in missed'[s] : m[1] = v
StillPublishes == ppc' = "publishing" /\ prow' = prow
SameHandler(s) == phase'[s] = phase[s] /\ lw'[s] = lw[s] /\ after'[s] = after[s] /\ page'[s] = page[s]

\* Row q is new: a session that is past it has missed it, one that is not gets it or misses it.
IsNew(s, q) ==
  /\ q = prow /\ ppc = "inserting"
  /\ phase[s] = "live" /\ q.at <= lw[s] => NowMissed(s, q.ver)
  /\ Subscribed(s) => NowMissed(s, q.ver) \/ StillPublishes

Rests(s) ==
  /\ SameHandler(s) /\ chan'[s] = chan[s] /\ queue'[s] = queue[s] /\ missed[s] \subseteq missed'[s]
  /\ \A q \in outbox' : q \in outbox \/ IsNew(s, q)
  /\ ppc = "publishing" => StillPublishes \/ ~Subscribed(s) \/ NowMissed(s, prow.ver)
Gets(s) ==
  /\ SameHandler(s) /\ queue'[s] = queue[s] /\ missed'[s] = missed[s] /\ outbox' = outbox
  /\ ppc = "publishing" /\ chan'[s] = Append(chan[s], prow)
Ends(s) ==
  /\ phase'[s] \in {"closed", "off"} /\ lw'[s] = 0 /\ after'[s] = 0 /\ chan'[s] = <<>> /\ page'[s] = {}
  /\ \/ queue'[s] = <<>>
     \/ phase'[s] = "closed" /\ queue'[s] = queue[s] /\ missed[s] \subseteq missed'[s]
Turns(s) == Connect(s) \/ Server(s) \/ ApplyNext(s)

LEMMA MissesAdds ==
  ASSUME NEW S, NEW v, NEW why, Misses(S, v, why), NEW s \in Sessions
  PROVE  missed[s] \subseteq missed'[s] /\ (s \in S => NowMissed(s, v))
<1>1. <<v, why>>[1] = v
  BY SMTT(300)
<1>2. missed'[s] = IF s \in S /\ ~HasMissed(s, v) THEN missed[s] \cup {<<v, why>>} ELSE missed[s]
  BY DEF Misses
<1> QED
  BY <1>1, <1>2 DEF HasMissed, NowMissed

LEMMA ProducerKinds ==
  ASSUME TypeOK, Producer, NEW s \in Sessions
  PROVE  Rests(s) \/ Gets(s) \/ Ends(s)
<1> DEFINE G == Rests(s) \/ Gets(s) \/ Ends(s)
<1> HIDE DEF G
<1>0. Subscribed(s) => s \in SubscribedSessions
  BY DEF SubscribedSessions
<1>1. ASSUME UNCHANGED <<serverVars, queue, missed, outbox>>, ppc # "publishing" PROVE G
  BY <1>1 DEF serverVars, G, Rests, SameHandler
<1>2. ASSUME StageBegin \/ StageConflict \/ ConfirmPosition PROVE G
  BY <1>1, <1>2 DEF StageBegin, StageConflict, ConfirmPosition
<1>3. ASSUME StageCommit PROVE G
  <2>1. missed[s] \subseteq missed'[s] /\ (s \in ReplayedPast => NowMissed(s, prow.ver))
    BY <1>3, MissesAdds DEF StageCommit
  <2>2. UNCHANGED <<phase, lw, after, chan, page, queue>> /\ ppc = "inserting" /\ StillPublishes
    BY <1>3 DEF StageCommit, serverVars, StillPublishes
  <2>3. outbox' = outbox \cup {prow}
    BY <1>3 DEF StageCommit
  <2>4. IsNew(s, prow)
    BY <2>1, <2>2 DEF IsNew, ReplayedPast
  <2> QED
    BY <2>1, <2>2, <2>3, <2>4 DEF G, Rests, SameHandler
<1>4. ASSUME PublishLive PROVE G
  <2>1. /\ ppc = "publishing" /\ outbox' = outbox
        /\ UNCHANGED <<phase, lw, after, page, queue>>
        /\ chan'[s] = IF Reaches(s) THEN Append(chan[s], prow) ELSE chan[s]
    BY <1>4 DEF PublishLive
  <2>2. PICK w : missed'[s] = IF Subscribed(s) /\ ~Reaches(s) /\ ~HasMissed(s, prow.ver)
                               THEN missed[s] \cup {<<prow.ver, w>>} ELSE missed[s]
    BY <1>4 DEF PublishLive
  <2>3. <<prow.ver, w>>[1] = prow.ver
    BY SMTT(300)
  <2>4. CASE Reaches(s)
    BY <2>1, <2>2, <2>4 DEF G, Gets, SameHandler
  <2>5. CASE ~Reaches(s)
    <3>1. missed[s] \subseteq missed'[s] /\ (Subscribed(s) => NowMissed(s, prow.ver))
      BY <2>2, <2>3, <2>5 DEF HasMissed, NowMissed
    <3> QED
      BY <2>1, <2>5, <3>1 DEF G, Rests, SameHandler
  <2> QED
    BY <2>4, <2>5
<1>5. ASSUME ppc = "inserting", outbox' = outbox \cup {prow}, UNCHANGED queue, SameHandler(s), chan'[s] = chan[s],
             Misses(SubscribedSessions, prow.ver, "unpublished")
      PROVE  G
  <2>1. missed[s] \subseteq missed'[s] /\ (Subscribed(s) => NowMissed(s, prow.ver))
    BY <1>0, <1>5, MissesAdds
  <2>2. IsNew(s, prow)
    BY <1>5, <2>1 DEF IsNew, Subscribed
  <2> QED
    BY <1>5, <2>1, <2>2 DEF G, Rests
<1>6. ASSUME NEW p \in Pods, ProducerRestart(p) PROVE G
  <2>1. SameHandler(s) /\ UNCHANGED <<serverVars, queue>> /\ chan'[s] = chan[s] /\ ppc # "publishing"
    BY <1>6 DEF ProducerRestart, serverVars, SameHandler
  <2>2. CASE UNCHANGED <<outbox, missed>>
    BY <1>1, <2>1, <2>2
  <2>3. CASE ~UNCHANGED <<outbox, missed>>
    <3>1. ppc = "inserting" /\ outbox' = outbox \cup {prow} /\ Misses(SubscribedSessions, prow.ver, "unpublished")
      BY <1>6, <2>3 DEF ProducerRestart
    <3> QED
      BY <1>5, <2>1, <3>1
  <2> QED
    BY <2>2, <2>3
<1>7. ASSUME NEW p \in Pods, HomeCrash(p) PROVE G
  <2>1. /\ queue' = queue
        /\ \/ ppc # "publishing" /\ UNCHANGED <<outbox, missed>>
           \/ /\ ppc = "inserting" /\ outbox' = outbox \cup {prow}
              /\ Misses(SubscribedSessions, prow.ver, "unpublished")
           \/ /\ ppc = "publishing" /\ UNCHANGED outbox
              /\ Misses(SubscribedSessions, prow.ver, "unpublished")
    BY <1>7 DEF HomeCrash
  <2>2. CloseHandlers({t \in Sessions : Subscribed(t) /\ PodOf[t] = home})
    BY <1>7 DEF HomeCrash
  <2>3. missed[s] \subseteq missed'[s]
    BY <2>1, MissesAdds
  <2>4. CASE Subscribed(s) /\ PodOf[s] = home
    <3>1. phase'[s] = "closed" /\ lw'[s] = 0 /\ after'[s] = 0 /\ chan'[s] = <<>> /\ page'[s] = {}
      BY <2>2, <2>4 DEF CloseHandlers
    <3> QED
      BY <2>1, <2>3, <3>1 DEF G, Ends
  <2>5. CASE ~(Subscribed(s) /\ PodOf[s] = home)
    <3>1. SameHandler(s) /\ chan'[s] = chan[s]
      BY <2>2, <2>5 DEF CloseHandlers, SameHandler
    <3>2. CASE ppc # "publishing" /\ UNCHANGED <<outbox, missed>>
      BY <2>1, <3>1, <3>2 DEF G, Rests
    <3>3. CASE ppc = "inserting" /\ outbox' = outbox \cup {prow} /\ Misses(SubscribedSessions, prow.ver, "unpublished")
      BY <1>5, <2>1, <3>1, <3>3
    <3>4. CASE ppc = "publishing" /\ UNCHANGED outbox /\ Misses(SubscribedSessions, prow.ver, "unpublished")
      <4>1. Subscribed(s) => NowMissed(s, prow.ver)
        BY <1>0, <3>4, MissesAdds
      <4> QED
        BY <2>1, <2>3, <3>1, <3>4, <4>1 DEF G, Rests
    <3> QED
      BY <2>1, <3>2, <3>3, <3>4
  <2> QED
    BY <2>4, <2>5
<1> QED
  BY <1>2, <1>3, <1>4, <1>6, <1>7 DEF Producer, G

LEMMA SessionKinds ==
  ASSUME TypeOK, [Next]_vars, NEW s \in Sessions
  PROVE  Rests(s) \/ Gets(s) \/ Ends(s) \/ Turns(s)
<1> DEFINE G == Rests(s) \/ Gets(s) \/ Ends(s) \/ Turns(s)
<1> HIDE DEF G
<1> USE DEF TypeOK, ServerType, ClientType, HistoryType
<1>1. ASSUME SameHandler(s), chan'[s] = chan[s], queue'[s] = queue[s], missed'[s] = missed[s],
             outbox' \subseteq outbox, UNCHANGED <<ppc, prow>>
      PROVE  G
  BY <1>1 DEF G, Rests, StillPublishes
<1>2. ASSUME UNCHANGED <<serverVars, queue, missed, producerVars>>, outbox' \subseteq outbox PROVE G
  BY <1>1, <1>2 DEF serverVars, producerVars, SameHandler
<1>3. ASSUME NEW t \in Sessions, t # s, Connect(t) \/ LiveWatermark(t) \/ ListPage(t) PROVE G
  BY <1>1, <1>3 DEF Connect, LiveWatermark, ListPage, producerVars, SameHandler
<1>4. ASSUME NEW t \in Sessions, t # s, ReplayNext(t) PROVE G
  BY <1>1, <1>4 DEF ReplayNext, producerVars, SameHandler
<1>5. ASSUME NEW t \in Sessions, t # s, ForwardLive(t) PROVE G
  BY <1>1, <1>5 DEF ForwardLive, producerVars, SameHandler
<1>6. ASSUME NEW t \in Sessions, t # s, ApplyNext(t) PROVE G
  BY <1>1, <1>6 DEF ApplyNext, serverVars, producerVars, SameHandler
<1>7. ASSUME NEW t \in Sessions, ServerEnd(t) PROVE G
  <2>1. CASE t = s
    BY <1>7, <2>1 DEF ServerEnd, CloseHandlers, G, Ends
  <2>2. CASE t # s
    BY <1>1, <1>7, <2>2 DEF ServerEnd, CloseHandlers, producerVars, SameHandler
  <2> QED
    BY <2>1, <2>2
<1>8. ASSUME NEW t \in Sessions, ClientEnd(t) PROVE G
  <2>1. CASE t = s
    BY <1>8, <2>1 DEF ClientEnd, G, Ends
  <2>2. CASE t # s
    BY <1>1, <1>8, <2>2 DEF ClientEnd, producerVars, SameHandler
  <2> QED
    BY <2>1, <2>2
<1>9. ASSUME NEW t \in Sessions, NEW v \in Versions, LoseAck(t, v) \/ ServeAck(t, v) PROVE G
  BY <1>2, <1>9 DEF LoseAck, ServeAck
<1>10. ASSUME NEW t \in Sessions, AckReturn(t) PROVE G
  BY <1>2, <1>10 DEF AckReturn
<1>11. ASSUME Cleanup \/ UNCHANGED vars PROVE G
  BY <1>2, <1>11 DEF Cleanup, vars
<1>12. Producer => G
  BY ProducerKinds DEF G
<1>13. Turns(s) => G
  BY DEF G
<1> QED
  BY <1>3, <1>4, <1>5, <1>6, <1>7, <1>8, <1>9, <1>10, <1>11, <1>12, <1>13 DEF Next, Server, Client, Turns, G

\* The steps of session s, as it sees them.
KeepsRows == outbox' = outbox /\ UNCHANGED <<ppc, prow>>
Opens(s) ==
  /\ KeepsRows /\ phase[s] = "off" /\ phase'[s] = "subscribed" /\ lw'[s] = lw[s] /\ after'[s] = after[s]
  /\ chan'[s] = chan[s] /\ page'[s] = page[s] /\ queue'[s] = queue[s] /\ missed'[s] = missed[s]
ReadsClock(s, t) ==
  /\ KeepsRows /\ phase[s] = "subscribed" /\ phase'[s] = "replaying" /\ IsNow(t) /\ lw'[s] = t
  /\ after'[s] = after[s] /\ chan'[s] = chan[s] /\ page'[s] = page[s]
  /\ queue'[s] = queue[s] /\ missed'[s] = missed[s]
Lists(s) ==
  /\ KeepsRows /\ phase[s] = "replaying" /\ Window(s) # {} /\ page'[s] = FirstPage(s)
  /\ phase'[s] = "replaying" /\ lw'[s] = lw[s] /\ after'[s] = after[s]
  /\ chan'[s] = chan[s] /\ queue'[s] = queue[s] /\ missed'[s] = missed[s]
GoesLive(s) ==
  /\ KeepsRows /\ phase[s] = "replaying" /\ Window(s) = {} /\ page'[s] = {}
  /\ phase'[s] = "live" /\ lw'[s] = lw[s] /\ after'[s] = 0
  /\ chan'[s] = chan[s] /\ queue'[s] = queue[s] /\ missed'[s] = missed[s]
Replays(s, r) ==
  /\ KeepsRows /\ phase[s] = "replaying" /\ r \in page[s] /\ \A q \in page[s] : r.at <= q.at
  /\ queue'[s] = Append(queue[s], r.ver) /\ after'[s] = r.at /\ page'[s] = page[s] \ {r}
  /\ missed'[s] = {m \in missed[s] : m[1] # r.ver}
  /\ phase'[s] = "replaying" /\ lw'[s] = lw[s] /\ chan'[s] = chan[s]
Forwards(s, h) ==
  /\ KeepsRows /\ SameHandler(s) /\ phase[s] = "live" /\ missed'[s] = missed[s]
  /\ chan[s] # <<>> /\ h = Head(chan[s]) /\ chan'[s] = Tail(chan[s])
  /\ IF h.at <= lw[s] THEN queue'[s] = queue[s] ELSE queue'[s] = Append(queue[s], h.ver)
Receives(s, v) ==
  /\ KeepsRows /\ SameHandler(s) /\ chan'[s] = chan[s] /\ missed'[s] = missed[s]
  /\ queue[s] # <<>> /\ v = Head(queue[s]) /\ queue'[s] = Tail(queue[s]) /\ cursor' = Max2(cursor, v)

LEMMA TurnKinds ==
  ASSUME TypeOK, NEW s \in Sessions, Turns(s)
  PROVE  \/ Opens(s) \/ Lists(s) \/ GoesLive(s) \/ (\E t \in 1..MaxStamp : ReadsClock(s, t))
         \/ (\E r \in page[s] : Replays(s, r)) \/ (\E h : Forwards(s, h)) \/ (\E v : Receives(s, v))
<1> USE DEF TypeOK, ServerType, ClientType, HistoryType, KeepsRows
<1>1. Connect(s) => Opens(s)
  BY DEF Connect, Opens, producerVars
<1>2. ASSUME LiveWatermark(s) PROVE \E t \in 1..MaxStamp : ReadsClock(s, t)
  <2>1. PICK t \in 1..MaxStamp : IsNow(t) /\ lw' = [lw EXCEPT ![s] = t]
    BY <1>2 DEF LiveWatermark
  <2>2. ReadsClock(s, t)
    BY <1>2, <2>1 DEF LiveWatermark, ReadsClock, producerVars
  <2> QED
    BY <2>2
<1>3. ASSUME ListPage(s) PROVE Lists(s) \/ GoesLive(s)
  <2>1. Window(s) = {} => FirstPage(s) = {}
    BY DEF FirstPage
  <2>2. /\ phase[s] = "replaying" /\ page'[s] = FirstPage(s) /\ lw'[s] = lw[s] /\ KeepsRows
        /\ chan'[s] = chan[s] /\ queue'[s] = queue[s] /\ missed'[s] = missed[s]
    BY <1>3 DEF ListPage, producerVars
  <2>3. CASE Window(s) = {}
    <3>1. phase'[s] = "live" /\ after'[s] = 0
      BY <1>3, <2>3 DEF ListPage
    <3> QED
      BY <2>1, <2>2, <2>3, <3>1 DEF GoesLive
  <2>4. CASE Window(s) # {}
    <3>1. phase'[s] = phase[s] /\ after'[s] = after[s]
      BY <1>3, <2>4 DEF ListPage
    <3> QED
      BY <2>2, <2>4, <3>1 DEF Lists
  <2> QED
    BY <2>3, <2>4
<1>4. ASSUME ReplayNext(s) PROVE \E r \in page[s] : Replays(s, r)
  <2>1. PICK r \in page[s] :
          /\ \A q \in page[s] : r.at <= q.at
          /\ queue' = [queue EXCEPT ![s] = Append(@, r.ver)]
          /\ after' = [after EXCEPT ![s] = r.at]
          /\ page' = [page EXCEPT ![s] = @ \ {r}]
          /\ missed' = [missed EXCEPT ![s] = {m \in @ : m[1] # r.ver}]
    BY <1>4 DEF ReplayNext
  <2>2. phase[s] = "replaying" /\ phase'[s] = phase[s] /\ lw'[s] = lw[s] /\ chan'[s] = chan[s] /\ KeepsRows
    BY <1>4 DEF ReplayNext, producerVars
  <2>3. /\ queue'[s] = Append(queue[s], r.ver) /\ after'[s] = r.at /\ page'[s] = page[s] \ {r}
        /\ missed'[s] = {m \in missed[s] : m[1] # r.ver}
    BY <2>1
  <2> QED
    BY <2>1, <2>2, <2>3 DEF Replays
<1>5. ASSUME ForwardLive(s) PROVE \E h : Forwards(s, h)
  <2>1. PICK h : h = Head(chan[s])
    OBVIOUS
  <2>2. /\ KeepsRows /\ SameHandler(s) /\ phase[s] = "live" /\ missed'[s] = missed[s]
        /\ chan[s] # <<>> /\ chan'[s] = Tail(chan[s])
    BY <1>5 DEF ForwardLive, producerVars, SameHandler
  <2>3. IF h.at <= lw[s] THEN queue'[s] = queue[s] ELSE queue'[s] = Append(queue[s], h.ver)
    BY <1>5, <2>1 DEF ForwardLive
  <2> QED
    BY <2>1, <2>2, <2>3 DEF Forwards
<1>6. ASSUME ApplyNext(s) PROVE \E v : Receives(s, v)
  <2>1. PICK v : v = Head(queue[s])
    OBVIOUS
  <2>2. /\ KeepsRows /\ SameHandler(s) /\ chan'[s] = chan[s] /\ missed'[s] = missed[s]
        /\ queue[s] # <<>> /\ queue'[s] = Tail(queue[s])
    BY <1>6 DEF ApplyNext, producerVars, serverVars, SameHandler
  <2>3. cursor' = Max2(cursor, v)
    BY <1>6, <2>1 DEF ApplyNext
  <2> QED
    BY <2>1, <2>2, <2>3 DEF Receives
<1> QED
  BY <1>1, <1>2, <1>3, <1>4, <1>5, <1>6 DEF Turns, Server

LEMMA StepsOfSession ==
  ASSUME TypeOK, [Next]_vars, NEW s \in Sessions
  PROVE  \/ Rests(s) \/ Gets(s) \/ Ends(s) \/ Opens(s) \/ Lists(s) \/ GoesLive(s)
         \/ (\E t \in 1..MaxStamp : ReadsClock(s, t))
         \/ (\E r \in page[s] : Replays(s, r)) \/ (\E h : Forwards(s, h)) \/ (\E v : Receives(s, v))
BY SessionKinds, TurnKinds

-----------------------------------------------------------------------------
(* The handler, its page and its channel.                                     *)

Shape(s) ==
  /\ after[s] <= lw[s]
  /\ page[s] # {} \/ after[s] # 0 => phase[s] = "replaying"
  /\ phase[s] \in {"off", "subscribed"} => queue[s] = <<>>

\* The page is what follows afterID, up to any row of it.
PageIsNext(s) ==
  \A r \in page[s] :
    /\ after[s] < r.at /\ r.at <= lw[s] /\ (r \in outbox \/ Over(r.ver))
    /\ \A q \in page[s] : q.at = r.at => q = r
    /\ \A q \in outbox : after[s] < q.at /\ q.at <= r.at => q \in page[s]

ChanRises(s) == \A i, j \in 1..Len(chan[s]) : i < j => chan[s][i].at < chan[s][j].at

LEMMA SessionTypes ==
  ASSUME TypeOK, NEW s \in Sessions
  PROVE  /\ after[s] \in Nat /\ lw[s] \in Nat /\ page[s] \subseteq Row
         /\ chan[s] \in Seq(Row) /\ queue[s] \in Seq(Versions)
<1>1. after[s] \in 0..MaxStamp /\ lw[s] \in 0..MaxStamp /\ page[s] \subseteq Row
  BY DEF TypeOK, ServerType
<1>2. chan[s] \in Seq(Row) /\ queue[s] \in Seq(Versions)
  BY DEF TypeOK, ServerType, ClientType
<1>3. after[s] \in Nat /\ lw[s] \in Nat
  BY SMTT(300), <1>1, DeliveryAssumption
<1> QED
  BY <1>1, <1>2, <1>3

LEMMA RowNumbers ==
  ASSUME NEW r \in Row
  PROVE  r.at \in Nat /\ r.at > 0 /\ r.ver \in Nat /\ r.ver > 0
BY SMTT(300), RowFields, DeliveryAssumption DEF Versions

LEMMA ShapeStep ==
  ASSUME TypeOK, [Next]_vars, NEW s \in Sessions, Shape(s), PageIsNext(s)
  PROVE  Shape(s)'
<1>0. after[s] \in Nat /\ lw[s] \in Nat
  BY SessionTypes
<1>1. CASE Rests(s) \/ Gets(s)
  BY <1>1 DEF Rests, Gets, SameHandler, Shape
<1>2. CASE Ends(s)
  <2>1. 0 <= 0
    BY SMTT(300)
  <2> QED
    BY <1>2, <2>1 DEF Ends, Shape
<1>3. CASE Opens(s)
  BY <1>3 DEF Opens, Shape
<1>4. ASSUME NEW t \in 1..MaxStamp, ReadsClock(s, t) PROVE Shape(s)'
  <2>1. lw[s] < t
    BY <1>4, NowIsLast DEF ReadsClock
  <2>2. after[s] <= t
    BY SMTT(300), <1>0, <2>1 DEF Shape
  <2> QED
    BY <1>4, <2>2 DEF ReadsClock, Shape
<1>5. CASE Lists(s)
  BY <1>5 DEF Lists, Shape
<1>6. CASE GoesLive(s)
  <2>1. 0 <= lw[s]
    BY SMTT(300), <1>0
  <2> QED
    BY <1>6, <2>1 DEF GoesLive, Shape
<1>7. ASSUME NEW r \in page[s], Replays(s, r) PROVE Shape(s)'
  <2>1. r.at <= lw[s]
    BY DEF PageIsNext
  <2> QED
    BY <1>7, <2>1 DEF Replays, Shape
<1>8. ASSUME NEW h, Forwards(s, h) PROVE Shape(s)'
  BY <1>8 DEF Forwards, SameHandler, Shape
<1>9. ASSUME NEW v, Receives(s, v) PROVE Shape(s)'
  BY <1>9 DEF Receives, SameHandler, Shape
<1> QED
  BY <1>1, <1>2, <1>3, <1>4, <1>5, <1>6, <1>7, <1>8, <1>9, StepsOfSession

\* A page that stays is still the next one: a row committed since is younger than all of it.
LEMMA PageStays ==
  ASSUME TypeOK, TypeOK', KeepsSettled, NewestIsLast, NEW s \in Sessions, SameHandler(s), PageIsNext(s),
         \A q \in outbox' : q \in outbox \/ (q = prow /\ ppc = "inserting")
  PROVE  PageIsNext(s)'
<1>1. \A r \in Row : r.at \in Nat /\ r.ver \in Int
  BY SMTT(300), RowNumbers
<1>2. ASSUME NEW r \in page[s] PROVE r \in outbox' \/ Over(r.ver)'
  <2>1. r.ver \in Int
    BY <1>1, SessionTypes
  <2>2. r \in outbox \/ Over(r.ver)
    BY DEF PageIsNext
  <2> QED
    BY <2>1, <2>2, OverStays DEF KeepsSettled, Over
<1>3. ASSUME NEW r \in page[s], NEW q \in outbox', after[s] < q.at, q.at <= r.at PROVE q \in page[s]
  <2>1. CASE q \in outbox
    BY <1>3, <2>1 DEF PageIsNext
  <2>2. CASE q = prow /\ ppc = "inserting"
    <3>1. r.at < prow.at
      BY <2>2 DEF NewestIsLast
    <3>2. prow \in Row
      BY <2>2 DEF TypeOK, ProducerType
    <3>3. prow.at \in Nat /\ r.at \in Nat
      BY <1>1, <3>2, SessionTypes
    <3> QED
      BY SMTT(300), <1>3, <2>2, <3>1, <3>3
  <2> QED
    BY <2>1, <2>2
<1> QED
  BY <1>2, <1>3 DEF PageIsNext, SameHandler

LEMMA RowsAreFinite == IsFiniteSet(Row)
<1>1. IsFiniteSet(1..MaxVersion) /\ IsFiniteSet(1..MaxStamp)
  BY FS_Interval, DeliveryAssumption, SMTT(300)
<1>2. IsFiniteSet(Versions \X (1..MaxStamp))
  BY <1>1, FS_Product DEF Versions
<1> DEFINE row == [x \in Versions \X (1..MaxStamp) |-> [ver |-> x[1], at |-> x[2]]]
<1>3. row \in Surjection(Versions \X (1..MaxStamp), Row)
  <2>1. ASSUME NEW x \in Versions \X (1..MaxStamp) PROVE row[x] \in Row
    BY SMTT(300) DEF Row
  <2>2. ASSUME NEW r \in Row PROVE \E x \in Versions \X (1..MaxStamp) : row[x] = r
    <3>1. <<r.ver, r.at>> \in Versions \X (1..MaxStamp) /\ row[<<r.ver, r.at>>] = r
      BY SMTT(300) DEF Row
    <3> QED
      BY <3>1
  <2>3. row \in [Versions \X (1..MaxStamp) -> Row]
    BY <2>1
  <2> HIDE DEF row
  <2> QED
    BY <2>2, <2>3 DEF Surjection
<1> QED
  BY <1>2, <1>3, FS_Surjection

LEMMA FirstPageIsNext ==
  ASSUME TypeOK, StampsDiffer, NEW s \in Sessions, NEW r \in FirstPage(s)
  PROVE  /\ after[s] < r.at /\ r.at <= lw[s] /\ r \in outbox
         /\ \A q \in FirstPage(s) : q.at = r.at => q = r
         /\ \A q \in outbox : after[s] < q.at /\ q.at <= r.at => q \in FirstPage(s)
<1>1. \A q \in FirstPage(s) : q \in Window(s) /\ q \in outbox
  BY DEF FirstPage, Window
<1>2. \A q \in outbox : q.at \in Nat
  BY RowNumbers DEF TypeOK, ProducerType
<1>3. after[s] \in Nat /\ lw[s] \in Nat
  BY SessionTypes
<1>4. r.at > after[s] /\ r.at <= lw[s]
  BY <1>1 DEF Window
<1>5. ASSUME NEW q \in outbox, after[s] < q.at, q.at <= r.at PROVE q \in FirstPage(s)
  <2>1. q \in Window(s)
    <3>1. q.at > after[s] /\ q.at <= lw[s]
      BY SMTT(300), <1>1, <1>2, <1>3, <1>4, <1>5
    <3> QED
      BY <3>1 DEF Window
  <2> DEFINE below(x) == {w \in Window(s) : w.at < x}
  <2>2. below(q.at) \subseteq below(r.at)
    <3>1. ASSUME NEW w \in Window(s), w.at < q.at PROVE w.at < r.at
      <4>1. w \in outbox
        BY DEF Window
      <4> QED
        BY SMTT(300), <1>1, <1>2, <1>5, <3>1, <4>1
    <3> QED
      BY <3>1
  <2>3. IsFiniteSet(below(r.at))
    <3>1. IsFiniteSet(Row)
      BY RowsAreFinite
    <3>2. below(r.at) \subseteq Row
      BY DEF Window, TypeOK, ProducerType
    <3> QED
      BY <3>1, <3>2, FS_Subset
  <2>4. Cardinality(below(q.at)) <= Cardinality(below(r.at)) /\ Cardinality(below(r.at)) \in Nat
        /\ Cardinality(below(q.at)) \in Nat
    BY <2>2, <2>3, FS_Subset, FS_CardinalityType
  <2>5. Cardinality(below(r.at)) < PageSize
    BY DEF FirstPage
  <2> HIDE DEF below
  <2>6. Cardinality(below(q.at)) < PageSize
    BY SMTT(300), <2>4, <2>5, DeliveryAssumption
  <2> QED
    BY <2>1, <2>6 DEF FirstPage, below
<1>6. after[s] < r.at
  BY SMTT(300), <1>3, <1>4
<1> QED
  BY <1>1, <1>4, <1>5, <1>6 DEF StampsDiffer

LEMMA PageStep ==
  ASSUME TypeOK, TypeOK', KeepsSettled, [Next]_vars, NewestIsLast, StampsDiffer,
         NEW s \in Sessions, Shape(s), PageIsNext(s)
  PROVE  PageIsNext(s)'
<1>1. CASE Rests(s)
  BY <1>1, PageStays DEF Rests, IsNew
<1>2. CASE Gets(s)
  BY <1>2, PageStays DEF Gets
<1>3. ASSUME page'[s] = {} PROVE PageIsNext(s)'
  BY <1>3 DEF PageIsNext
<1>4. CASE Ends(s) \/ Opens(s) \/ GoesLive(s)
  BY <1>3, <1>4 DEF Ends, Opens, GoesLive, Shape
<1>5. ASSUME NEW t \in 1..MaxStamp, ReadsClock(s, t) PROVE PageIsNext(s)'
  BY <1>3, <1>5 DEF ReadsClock, Shape
<1>6. CASE Lists(s)
  <2>1. outbox' = outbox /\ page'[s] = FirstPage(s) /\ after'[s] = after[s] /\ lw'[s] = lw[s]
    BY <1>6 DEF Lists, KeepsRows
  <2>2. ASSUME NEW r \in page'[s]
        PROVE  /\ after'[s] < r.at /\ r.at <= lw'[s] /\ r \in outbox'
               /\ \A q \in page'[s] : q.at = r.at => q = r
               /\ \A q \in outbox' : after'[s] < q.at /\ q.at <= r.at => q \in page'[s]
    <3>1. r \in FirstPage(s)
      BY <2>1
    <3>2. /\ after[s] < r.at /\ r.at <= lw[s] /\ r \in outbox
          /\ \A q \in FirstPage(s) : q.at = r.at => q = r
          /\ \A q \in outbox : after[s] < q.at /\ q.at <= r.at => q \in FirstPage(s)
      BY <3>1, FirstPageIsNext
    <3> QED
      BY SMTT(300), <2>1, <3>2
  <2> QED
    BY <2>2 DEF PageIsNext
<1>7. ASSUME NEW r \in page[s], Replays(s, r) PROVE PageIsNext(s)'
  <2>1. \A q \in Row : q.at \in Nat /\ q.ver \in Int
    BY SMTT(300), RowNumbers
  <2>2. page[s] \subseteq Row /\ after[s] \in Nat /\ outbox \subseteq Row
    BY SessionTypes DEF TypeOK, ProducerType
  <2>3. /\ outbox' = outbox /\ after'[s] = r.at /\ page'[s] = page[s] \ {r} /\ lw'[s] = lw[s]
        /\ \A q \in page[s] : r.at <= q.at
    BY <1>7 DEF Replays, KeepsRows
  <2>4. ASSUME NEW q \in page[s], q # r PROVE r.at < q.at
    <3>1. r.at # q.at
      BY <2>4 DEF PageIsNext
    <3>2. r.at \in Nat /\ q.at \in Nat /\ r.at <= q.at
      BY <2>1, <2>2, <2>3
    <3> QED
      BY SMTT(300), <3>1, <3>2
  <2>5. ASSUME NEW q \in page[s], NEW w \in outbox, r.at < w.at, w.at <= q.at PROVE w \in page[s] /\ w # r
    <3>1. after[s] < r.at
      BY DEF PageIsNext
    <3>2. r.at \in Nat /\ w.at \in Nat
      BY <2>1, <2>2
    <3>3. after[s] < w.at /\ w # r
      BY SMTT(300), <2>2, <2>5, <3>1, <3>2
    <3> QED
      BY <2>5, <3>3 DEF PageIsNext
  <2>6. ASSUME NEW q \in page[s] PROVE q \in outbox' \/ Over(q.ver)'
    <3>1. q.ver \in Int
      BY <2>1, <2>2
    <3> QED
      BY <2>3, <3>1, OverStays DEF PageIsNext, Over
  <2> QED
    BY <2>3, <2>4, <2>5, <2>6 DEF PageIsNext
<1>8. ASSUME NEW h, Forwards(s, h) PROVE PageIsNext(s)'
  BY <1>8, PageStays DEF Forwards, KeepsRows
<1>9. ASSUME NEW v, Receives(s, v) PROVE PageIsNext(s)'
  BY <1>9, PageStays DEF Receives, KeepsRows
<1> QED
  BY <1>1, <1>2, <1>4, <1>5, <1>6, <1>7, <1>8, <1>9, StepsOfSession

LEMMA ChanStep ==
  ASSUME TypeOK, CarriesOld, NewestIsLast, NEW s \in Sessions, ChanRises(s)
  PROVE  ChanRises(s)'
<1>0. chan[s] \in Seq(Row)
  BY SessionTypes
<1>1. CASE chan'[s] = chan[s]
  BY <1>1 DEF ChanRises
<1>2. CASE chan'[s] = <<>>
  BY <1>2, EmptyHasNone DEF ChanRises
<1>3. CASE chan[s] # <<>> /\ chan'[s] = Tail(chan[s])
  <2>1. ASSUME NEW i \in 1..Len(Tail(chan[s])), NEW j \in 1..Len(Tail(chan[s])), i < j
        PROVE  Tail(chan[s])[i].at < Tail(chan[s])[j].at
    <3>1. /\ i + 1 \in 1..Len(chan[s]) /\ Tail(chan[s])[i] = chan[s][i + 1]
          /\ j + 1 \in 1..Len(chan[s]) /\ Tail(chan[s])[j] = chan[s][j + 1]
      BY <1>0, <1>3, TailElement
    <3>2. i + 1 < j + 1
      BY SMTT(300), <2>1
    <3> QED
      BY <3>1, <3>2 DEF ChanRises
  <2> QED
    BY <1>3, <2>1 DEF ChanRises
<1>4. CASE ppc = "publishing" /\ chan'[s] = Append(chan[s], prow)
  <2>1. \A i \in 1..Len(chan[s]) : chan[s][i].at < prow.at
    BY <1>4 DEF NewestIsLast
  <2> DEFINE c == Append(chan[s], prow)
  <2>2. ASSUME NEW i \in 1..Len(c), NEW j \in 1..Len(c), i < j
        PROVE  \/ i \in 1..Len(chan[s]) /\ c[i] = chan[s][i] /\ c[j] = prow
               \/ /\ i \in 1..Len(chan[s]) /\ c[i] = chan[s][i]
                  /\ j \in 1..Len(chan[s]) /\ c[j] = chan[s][j]
    BY SMTT(300), <1>0, <2>2
  <2>3. chan'[s] = c
    BY <1>4
  <2> HIDE DEF c
  <2> QED
    BY <2>1, <2>2, <2>3 DEF ChanRises
<1> QED
  BY <1>1, <1>2, <1>3, <1>4 DEF CarriesOld, ChansFromStaged

-----------------------------------------------------------------------------
(* What has come to a session.                                                *)

IsQueued(s, u) == \E n \in 1..Len(queue[s]) : queue[s][n] = u
Came(s, u) == Over(u) \/ HasMissed(s, u) \/ IsQueued(s, u)

\* The replay has come past its afterID, and past the watermark when it is over.
Bound(s) == IF phase[s] = "live" THEN lw[s] ELSE after[s]
ReplayedCame(s) == \A q \in outbox : q.at <= Bound(s) => Came(s, q.ver)

\* Younger rows come through the channel.
InChan(s, q) == \E i \in 1..Len(chan[s]) : chan[s][i] = q
LiveCame(s) ==
  phase[s] \in {"replaying", "live"} =>
    \A q \in outbox : q.at > lw[s] => Came(s, q.ver) \/ InChan(s, q) \/ (ppc = "publishing" /\ q = prow)

LEMMA TailHas ==
  ASSUME NEW T, NEW q \in Seq(T), q # <<>>, NEW n \in 1..Len(q)
  PROVE  q[n] = Head(q) \/ (n - 1 \in 1..Len(Tail(q)) /\ Tail(q)[n - 1] = q[n])
BY SMTT(300)

\* What came stays so, but for what the replay takes back from the missed versions.
LEMMA CameStays ==
  ASSUME TypeOK, TypeOK', KeepsSettled, NEW s \in Sessions, NEW u \in Int, Came(s, u),
         HasMissed(s, u) => NowMissed(s, u) \/ IsQueued(s, u)',
         IsQueued(s, u) => IsQueued(s, u)' \/ Over(u)'
  PROVE  Came(s, u)'
<1>1. Over(u) => Over(u)'
  BY OverStays
<1>2. NowMissed(s, u) => HasMissed(s, u)'
  BY DEF NowMissed, HasMissed
<1> QED
  BY <1>1, <1>2 DEF Came

LEMMA AppendQueues ==
  ASSUME TypeOK, NEW s \in Sessions, NEW e \in Versions, queue'[s] = Append(queue[s], e)
  PROVE  IsQueued(s, e)' /\ \A u : IsQueued(s, u) => IsQueued(s, u)'
<1>1. PICK q \in Seq(Versions) : q = queue[s]
  BY SessionTypes
<1>2. PICK c : c = Append(q, e)
  OBVIOUS
<1>3. /\ \A n \in 1..Len(q) : n \in 1..Len(c) /\ c[n] = q[n]
      /\ Len(q) + 1 \in 1..Len(c) /\ c[Len(q) + 1] = e
  BY SMTT(300), <1>2
<1>4. queue'[s] = c
  BY <1>1, <1>2
<1> QED
  BY <1>1, <1>3, <1>4 DEF IsQueued

\* What a step sends to the client, if it does.
LEMMA SentVersions ==
  ASSUME TypeOK, NEW s \in Sessions
  PROVE  /\ \A r \in page[s] : r.ver \in Versions
         /\ \A h : Forwards(s, h) => h \in Row /\ h.ver \in Versions /\ 1 \in 1..Len(chan[s]) /\ h = chan[s][1]
         /\ \A v : Receives(s, v) => v \in Versions /\ v \in Int /\ v <= cursor'
<1>1. \A r \in page[s] : r.ver \in Versions
  BY SessionTypes, RowFields
<1>2. ASSUME NEW h, Forwards(s, h)
      PROVE  h \in Row /\ h.ver \in Versions /\ 1 \in 1..Len(chan[s]) /\ h = chan[s][1]
  <2>1. chan[s] \in Seq(Row) /\ chan[s] # <<>> /\ h = Head(chan[s])
    BY <1>2, SessionTypes DEF Forwards
  <2>2. 1 \in 1..Len(chan[s]) /\ h = chan[s][1]
    BY <2>1, HeadElement
  <2>3. h \in Row
    BY <2>1, <2>2, ElementType
  <2> QED
    BY <2>2, <2>3, RowFields
<1>3. ASSUME NEW v, Receives(s, v) PROVE v \in Versions /\ v \in Int /\ v <= cursor'
  <2>1. queue[s] \in Seq(Versions) /\ queue[s] # <<>> /\ v = Head(queue[s]) /\ cursor' = Max2(cursor, v)
    BY <1>3, SessionTypes DEF Receives
  <2>2. v \in Versions
    BY <2>1, HeadElement, ElementType
  <2>3. v \in Int /\ v <= cursor'
    BY SMTT(300), <2>1, <2>2, DeliveryAssumption DEF Versions, Max2, TypeOK, ClientType
  <2> QED
    BY <2>2, <2>3
<1> QED
  BY <1>1, <1>2, <1>3

LEMMA CameStep ==
  ASSUME TypeOK, TypeOK', KeepsSettled, [Next]_vars, NEW s \in Sessions, NEW u \in Int, Came(s, u)
  PROVE  Ends(s) \/ Came(s, u)'
<1>0. queue[s] \in Seq(Versions)
  BY SessionTypes
<1>1. ASSUME missed[s] \subseteq missed'[s], queue'[s] = queue[s] PROVE Came(s, u)'
  BY <1>1, CameStays DEF HasMissed, NowMissed, IsQueued
<1>2. ASSUME missed[s] \subseteq missed'[s], NEW e \in Versions, queue'[s] = Append(queue[s], e) PROVE Came(s, u)'
  <2>1. IsQueued(s, u) => IsQueued(s, u)'
    BY <1>2, AppendQueues
  <2> QED
    BY <1>2, <2>1, CameStays DEF HasMissed, NowMissed
<1>3. ASSUME NEW r \in page[s], Replays(s, r) PROVE Came(s, u)'
  <2>1. queue'[s] = Append(queue[s], r.ver) /\ missed'[s] = {m \in missed[s] : m[1] # r.ver}
    BY <1>3 DEF Replays
  <2>2. IsQueued(s, u) => IsQueued(s, u)'
    BY <2>1, AppendQueues, SentVersions
  <2>3. u = r.ver => IsQueued(s, u)'
    BY <2>1, AppendQueues, SentVersions
  <2>4. u # r.ver /\ HasMissed(s, u) => NowMissed(s, u)
    BY <2>1 DEF HasMissed, NowMissed
  <2> QED
    BY <2>2, <2>3, <2>4, CameStays
<1>4. ASSUME NEW h, Forwards(s, h) PROVE Came(s, u)'
  <2>1. missed'[s] = missed[s] /\ (queue'[s] = queue[s] \/ queue'[s] = Append(queue[s], h.ver))
    BY <1>4 DEF Forwards
  <2>2. h.ver \in Versions
    BY <1>4, SentVersions
  <2> QED
    BY <1>1, <1>2, <2>1, <2>2
<1>5. ASSUME NEW v, Receives(s, v) PROVE Came(s, u)'
  <2>1. /\ missed'[s] = missed[s] /\ queue[s] # <<>> /\ v = Head(queue[s]) /\ queue'[s] = Tail(queue[s])
        /\ v <= cursor'
    BY <1>5, SentVersions DEF Receives
  <2>2. u = v => Over(u)'
    BY <2>1 DEF Over
  <2>3. IsQueued(s, u) => u = v \/ IsQueued(s, u)'
    BY <1>0, <2>1, TailHas DEF IsQueued
  <2> QED
    BY <2>1, <2>2, <2>3, CameStays DEF HasMissed, NowMissed
<1>6. CASE Rests(s)
  BY <1>1, <1>6 DEF Rests
<1>7. CASE Gets(s) \/ Opens(s) \/ Lists(s) \/ GoesLive(s)
  BY <1>1, <1>7 DEF Gets, Opens, Lists, GoesLive
<1>8. ASSUME NEW t \in 1..MaxStamp, ReadsClock(s, t) PROVE Came(s, u)'
  BY <1>1, <1>8 DEF ReadsClock
<1> QED
  BY <1>3, <1>4, <1>5, <1>6, <1>7, <1>8, StepsOfSession

LEMMA ReplayedStep ==
  ASSUME TypeOK, TypeOK', KeepsSettled, [Next]_vars, NewestIsLast, StampsDiffer,
         NEW s \in Sessions, Shape(s), PageIsNext(s), ReplayedCame(s)
  PROVE  ReplayedCame(s)'
<1>0. /\ after[s] \in Nat /\ lw[s] \in Nat /\ outbox \subseteq Row /\ outbox' \subseteq Row
      /\ \A q \in Row : q.at \in Nat /\ q.at > 0 /\ q.ver \in Int /\ ~(q.at <= 0)
  <2>1. \A q \in Row : q.at \in Nat /\ q.at > 0 /\ q.ver \in Int /\ ~(q.at <= 0)
    BY SMTT(300), RowNumbers
  <2> QED
    BY <2>1, SessionTypes DEF TypeOK, ProducerType
<1>1. ASSUME after'[s] = 0, phase'[s] # "live" PROVE ReplayedCame(s)'
  BY <1>0, <1>1 DEF ReplayedCame, Bound
\* Rows that were there, up to where the replay was.
<1>2. ASSUME ~Ends(s), NEW q \in outbox, q.at <= Bound(s) PROVE Came(s, q.ver)'
  <2>1. q.ver \in Int /\ Came(s, q.ver)
    BY <1>0, <1>2 DEF ReplayedCame
  <2> QED
    BY <1>2, <2>1, CameStep
<1>3. ASSUME ~Ends(s), outbox' = outbox, SameHandler(s) PROVE ReplayedCame(s)'
  BY <1>2, <1>3 DEF SameHandler, ReplayedCame, Bound
<1>4. CASE Ends(s)
  BY <1>1, <1>4 DEF Ends
<1>5. ASSUME Rests(s), ~Ends(s) PROVE ReplayedCame(s)'
  <2>1. ASSUME NEW q \in outbox', IsNew(s, q), q.at <= Bound(s) PROVE Came(s, q.ver)'
    <3>1. phase[s] = "live"
      <4>1. after[s] < q.at /\ q.at \in Nat
        BY <1>0, <2>1 DEF IsNew, NewestIsLast
      <4>2. ~(q.at <= after[s])
        BY SMTT(300), <1>0, <4>1
      <4> QED
        BY <2>1, <4>2 DEF Bound
    <3>2. NowMissed(s, q.ver)
      BY <2>1, <3>1 DEF IsNew, Bound
    <3> QED
      BY <3>2 DEF NowMissed, Came, HasMissed
  <2>2. \A q \in outbox' : q \in outbox \/ IsNew(s, q)
    BY <1>5 DEF Rests
  <2>3. Bound(s)' = Bound(s)
    BY <1>5 DEF Rests, SameHandler, Bound
  <2> QED
    BY <1>2, <1>5, <2>1, <2>2, <2>3 DEF ReplayedCame
<1>6. ASSUME ~Ends(s), Gets(s) \/ (\E h : Forwards(s, h)) \/ (\E v : Receives(s, v)) PROVE ReplayedCame(s)'
  BY <1>3, <1>6 DEF Gets, Forwards, Receives, KeepsRows
<1>7. CASE Opens(s) \/ (\E t \in 1..MaxStamp : ReadsClock(s, t))
  BY <1>1, <1>7 DEF Opens, ReadsClock, Shape
<1>8. ASSUME ~Ends(s), Lists(s) PROVE ReplayedCame(s)'
  <2>1. outbox' = outbox /\ Bound(s)' = Bound(s)
    BY <1>8 DEF Lists, KeepsRows, Bound
  <2> QED
    BY <1>2, <1>8, <2>1 DEF ReplayedCame
<1>9. ASSUME ~Ends(s), GoesLive(s) PROVE ReplayedCame(s)'
  <2>1. outbox' = outbox /\ Bound(s)' = lw[s] /\ Window(s) = {} /\ Bound(s) = after[s]
    BY <1>9 DEF GoesLive, KeepsRows, Bound
  <2>2. ASSUME NEW q \in outbox, q.at <= lw[s] PROVE q.at <= after[s]
    <3>1. q \notin Window(s)
      BY <2>1
    <3>2. ~(q.at > after[s])
      BY <2>2, <3>1 DEF Window
    <3> QED
      BY SMTT(300), <1>0, <3>2
  <2> QED
    BY <1>2, <1>9, <2>1, <2>2 DEF ReplayedCame
<1>10. ASSUME ~Ends(s), NEW r \in page[s], Replays(s, r) PROVE ReplayedCame(s)'
  <2>1. outbox' = outbox /\ Bound(s)' = r.at /\ Bound(s) = after[s] /\ \A q \in page[s] : r.at <= q.at
    BY <1>10 DEF Replays, KeepsRows, Bound
  <2>2. Came(s, r.ver)'
    <3>1. queue'[s] = Append(queue[s], r.ver)
      BY <1>10 DEF Replays
    <3>2. IsQueued(s, r.ver)'
      BY <3>1, AppendQueues, SentVersions
    <3> QED
      BY <3>2 DEF Came
  <2>3. ASSUME NEW q \in outbox, q.at <= r.at, ~(q.at <= after[s]) PROVE q = r
    <3>1. q.at \in Nat /\ r.at \in Nat
      BY <1>0, SessionTypes
    <3>2. after[s] < q.at
      BY SMTT(300), <1>0, <2>3, <3>1
    <3>3. q \in page[s]
      BY <2>3, <3>2 DEF PageIsNext
    <3>4. q.at = r.at
      BY SMTT(300), <2>1, <2>3, <3>1, <3>3
    <3> QED
      BY <3>3, <3>4 DEF PageIsNext
  <2> QED
    BY <1>2, <1>10, <2>1, <2>2, <2>3 DEF ReplayedCame
<1> QED
  BY <1>4, <1>5, <1>6, <1>7, <1>8, <1>9, <1>10, StepsOfSession

LEMMA LiveStep ==
  ASSUME TypeOK, TypeOK', KeepsSettled, [Next]_vars, NEW s \in Sessions, LiveCame(s)
  PROVE  LiveCame(s)'
<1>0. /\ lw[s] \in Nat /\ outbox \subseteq Row /\ chan[s] \in Seq(Row)
      /\ \A q \in Row : q.at \in Nat /\ q.ver \in Int
  <2>1. \A q \in Row : q.at \in Nat /\ q.ver \in Int
    BY SMTT(300), RowNumbers
  <2> QED
    BY <2>1, SessionTypes DEF TypeOK, ProducerType
<1> DEFINE Comes(q) == Came(s, q.ver)' \/ InChan(s, q)' \/ (ppc' = "publishing" /\ q = prow')
<1>1. ASSUME phase'[s] \in {"replaying", "live"} => \A q \in outbox' : q.at > lw'[s] => Comes(q)
      PROVE  LiveCame(s)'
  BY <1>1 DEF LiveCame, Came, Over, HasMissed, IsQueued, InChan
<1>2. ASSUME ~Ends(s), NEW q \in outbox, Came(s, q.ver) PROVE Comes(q)
  BY <1>0, <1>2, CameStep
<1>3. ASSUME chan'[s] = chan[s], NEW q, InChan(s, q) PROVE InChan(s, q)'
  BY <1>3 DEF InChan
<1> HIDE DEF Comes
<1>4. ASSUME ~Ends(s), KeepsRows, phase[s] \in {"replaying", "live"}, lw'[s] = lw[s], chan'[s] = chan[s]
      PROVE  LiveCame(s)'
  <2>1. ASSUME NEW q \in outbox, q.at > lw[s] PROVE Comes(q)
    <3>1. Came(s, q.ver) \/ InChan(s, q) \/ (ppc = "publishing" /\ q = prow)
      BY <1>4, <2>1 DEF LiveCame
    <3>2. (ppc = "publishing" /\ q = prow) \/ InChan(s, q) => Comes(q)
      BY <1>3, <1>4 DEF Comes, KeepsRows
    <3> QED
      BY <1>2, <1>4, <3>1, <3>2
  <2> QED
    BY <1>1, <1>4, <2>1 DEF KeepsRows
<1>5. CASE Ends(s)
  BY <1>5 DEF Ends, LiveCame
<1>6. ASSUME Rests(s), ~Ends(s) PROVE LiveCame(s)'
  <2>1. ASSUME phase[s] \in {"replaying", "live"}, NEW q \in outbox', q.at > lw[s] PROVE Comes(q)
    <3>0. Subscribed(s) /\ chan'[s] = chan[s] /\ \A v : NowMissed(s, v) => HasMissed(s, v)'
      BY <1>6, <2>1 DEF Subscribed, Rests, NowMissed, HasMissed
    <3>1. CASE IsNew(s, q)
      BY <3>0, <3>1 DEF IsNew, StillPublishes, Comes, Came
    <3>2. CASE q \in outbox
      <4>1. CASE Came(s, q.ver)
        BY <1>2, <1>6, <3>2, <4>1
      <4>2. CASE InChan(s, q)
        BY <1>3, <3>0, <4>2 DEF Comes
      <4>3. CASE ppc = "publishing" /\ q = prow
        <5>1. StillPublishes \/ NowMissed(s, prow.ver)
          BY <1>6, <3>0, <4>3 DEF Rests
        <5> QED
          BY <3>0, <4>3, <5>1 DEF StillPublishes, Comes, Came
      <4> QED
        BY <2>1, <3>2, <4>1, <4>2, <4>3 DEF LiveCame
    <3> QED
      BY <1>6, <3>1, <3>2 DEF Rests
  <2>2. phase'[s] = phase[s] /\ lw'[s] = lw[s]
    BY <1>6 DEF Rests, SameHandler
  <2> QED
    BY <1>1, <2>1, <2>2
<1>7. ASSUME Gets(s), ~Ends(s) PROVE LiveCame(s)'
  <2>1. /\ phase'[s] = phase[s] /\ lw'[s] = lw[s] /\ outbox' = outbox
        /\ ppc = "publishing" /\ chan'[s] = Append(chan[s], prow)
    BY <1>7 DEF Gets, SameHandler
  <2>2. prow \in Row
    BY <2>1 DEF TypeOK, ProducerType
  <2>3. PICK c : c = chan'[s]
    OBVIOUS
  <2>4. /\ \A n \in 1..Len(chan[s]) : n \in 1..Len(c) /\ c[n] = chan[s][n]
        /\ Len(chan[s]) + 1 \in 1..Len(c) /\ c[Len(chan[s]) + 1] = prow
    BY SMTT(300), <1>0, <2>1, <2>2, <2>3
  <2>5. \A q : InChan(s, q) \/ q = prow => InChan(s, q)'
    <3>1. \A q : InChan(s, q)' <=> \E n \in 1..Len(c) : c[n] = q
      BY <2>3 DEF InChan
    <3>2. \A q : q = prow => InChan(s, q)'
      BY <2>4, <3>1
    <3>3. \A q : InChan(s, q) => InChan(s, q)'
      BY <2>4, <3>1 DEF InChan
    <3>4. prow' # prow \/ prow' = prow
      OBVIOUS
    <3> QED
      BY <3>2, <3>3
  <2>6. ASSUME phase[s] \in {"replaying", "live"}, NEW q \in outbox, q.at > lw[s] PROVE Comes(q)
    BY <1>2, <1>7, <2>5, <2>6 DEF LiveCame, Comes
  <2> QED
    BY <1>1, <2>1, <2>6
<1>8. CASE Opens(s)
  BY <1>8 DEF Opens, LiveCame
<1>9. ASSUME NEW t \in 1..MaxStamp, ReadsClock(s, t) PROVE LiveCame(s)'
  <2>1. lw'[s] = t /\ outbox' = outbox /\ \A q \in outbox : q.at < t
    BY <1>9, NowIsLast DEF ReadsClock, KeepsRows
  <2>2. ASSUME NEW q \in outbox, q.at > t PROVE FALSE
    BY SMTT(300), <1>0, <2>1, <2>2
  <2> QED
    BY <1>1, <2>1, <2>2
<1>10. ASSUME ~Ends(s), Lists(s) \/ GoesLive(s) \/ \E r \in page[s] : Replays(s, r) PROVE LiveCame(s)'
  BY <1>4, <1>10 DEF Lists, GoesLive, Replays
<1>11. ASSUME ~Ends(s), NEW v, Receives(s, v) PROVE LiveCame(s)'
  <2>1. CASE phase[s] \in {"replaying", "live"}
    BY <1>4, <1>11, <2>1 DEF Receives, SameHandler
  <2>2. CASE phase[s] \notin {"replaying", "live"}
    BY <1>11, <2>2 DEF Receives, SameHandler, LiveCame
  <2> QED
    BY <2>1, <2>2
<1>12. ASSUME ~Ends(s), NEW h, Forwards(s, h) PROVE LiveCame(s)'
  <2>1. /\ KeepsRows /\ phase[s] = "live" /\ phase'[s] = "live" /\ lw'[s] = lw[s] /\ chan[s] # <<>>
        /\ h = Head(chan[s]) /\ chan'[s] = Tail(chan[s])
    BY <1>12 DEF Forwards, SameHandler
  <2>2. h \in Row /\ h.ver \in Versions
    BY <1>12, SentVersions
  <2>3. ASSUME NEW q \in outbox, q.at > lw[s] PROVE Comes(q)
    <3>1. CASE q = h
      <4>1. ~(h.at <= lw[s])
        BY SMTT(300), <1>0, <2>2, <2>3, <3>1
      <4>2. queue'[s] = Append(queue[s], h.ver)
        BY <1>12, <4>1 DEF Forwards
      <4>3. IsQueued(s, h.ver)'
        BY <2>2, <4>2, AppendQueues
      <4> QED
        BY <3>1, <4>3 DEF Comes, Came
    <3>2. CASE q # h /\ InChan(s, q)
      <4>1. PICK i \in 1..Len(chan[s]) : chan[s][i] = q
        BY <3>2 DEF InChan
      <4>2. i - 1 \in 1..Len(Tail(chan[s])) /\ Tail(chan[s])[i - 1] = q
        BY <1>0, <2>1, <3>2, <4>1, TailHas
      <4>3. i - 1 \in 1..Len(chan'[s]) /\ chan'[s][i - 1] = q
        BY <2>1, <4>2
      <4> QED
        BY <4>3 DEF InChan, Comes
    <3>3. CASE Came(s, q.ver)
      BY <1>2, <1>12, <3>3
    <3>4. CASE ppc = "publishing" /\ q = prow
      BY <2>1, <3>4 DEF Comes, KeepsRows
    <3> QED
      BY <2>1, <2>3, <3>1, <3>2, <3>3, <3>4 DEF LiveCame
  <2> QED
    BY <1>1, <2>1, <2>3 DEF KeepsRows
<1> QED
  BY <1>5, <1>6, <1>7, <1>8, <1>9, <1>10, <1>11, <1>12, StepsOfSession

-----------------------------------------------------------------------------
(* The queue: whatever is older than a version in it came before it.          *)

HasBefore(s, n, u) == \E m \in 1..(n - 1) : queue[s][m] = u
IsCovered(s, n, u) == Over(u) \/ HasMissed(s, u) \/ HasBefore(s, n, u)
QueueIsComplete(s) == \A n \in 1..Len(queue[s]) : \A u \in 1..(queue[s][n] - 1) : IsCovered(s, n, u)

\* While a session replays, what it has queued is older than what it has to list.
QueueIsReplayed(s) ==
  phase[s] = "replaying" =>
    \A n \in 1..Len(queue[s]) : \A u \in 1..(queue[s][n] - 1) : HasOlder(u, after[s] + 1)

\* What the queue jumps over and had missed is missed still.
MissesStay(s) ==
  \A n \in 1..Len(queue[s]) : \A u \in 1..(queue[s][n] - 1) : HasMissed(s, u) => Over(u) \/ NowMissed(s, u)
AllCameBelow(s, e) == \A u \in 1..(e - 1) : Over(u) \/ NowMissed(s, u) \/ IsQueued(s, u)

LEMMA CompleteStays ==
  ASSUME TypeOK, TypeOK', KeepsSettled, NEW s \in Sessions, QueueIsComplete(s), MissesStay(s),
         NEW n \in 1..Len(queue[s]), NEW u \in 1..(queue[s][n] - 1)
  PROVE  Over(u)' \/ HasMissed(s, u)' \/ HasBefore(s, n, u)
<1>1. u \in Int
  BY SMTT(300)
<1>2. Over(u) => Over(u)'
  BY <1>1, OverStays
<1>3. NowMissed(s, u) => HasMissed(s, u)'
  BY DEF NowMissed, HasMissed
<1> QED
  BY <1>2, <1>3 DEF QueueIsComplete, IsCovered, MissesStay

LEMMA CompleteAfterAppend ==
  ASSUME TypeOK, TypeOK', KeepsSettled, NEW s \in Sessions, QueueIsComplete(s), MissesStay(s),
         NEW e \in Versions, queue'[s] = Append(queue[s], e), AllCameBelow(s, e)
  PROVE  QueueIsComplete(s)'
<1>1. PICK q \in Seq(Versions) : q = queue[s]
  BY SessionTypes
<1>2. PICK c : c = queue'[s]
  OBVIOUS
<1>3. ASSUME NEW n \in 1..Len(c)
      PROVE  \/ n \in 1..Len(q) /\ c[n] = q[n] /\ \A m \in 1..(n - 1) : c[m] = q[m]
             \/ c[n] = e /\ \A m \in 1..Len(q) : m \in 1..(n - 1) /\ c[m] = q[m]
  BY SMTT(300), <1>1, <1>2, <1>3
<1>4. ASSUME NEW n \in 1..Len(c), NEW u \in 1..(c[n] - 1) PROVE IsCovered(s, n, u)'
  <2>1. CASE n \in 1..Len(q) /\ c[n] = q[n] /\ \A m \in 1..(n - 1) : c[m] = q[m]
    <3>1. Over(u)' \/ HasMissed(s, u)' \/ HasBefore(s, n, u)
      BY <1>1, <2>1, CompleteStays
    <3>2. HasBefore(s, n, u) => HasBefore(s, n, u)'
      BY <1>1, <1>2, <2>1 DEF HasBefore
    <3> QED
      BY <3>1, <3>2 DEF IsCovered
  <2>2. CASE c[n] = e /\ \A m \in 1..Len(q) : m \in 1..(n - 1) /\ c[m] = q[m]
    <3>1. Over(u) \/ NowMissed(s, u) \/ IsQueued(s, u)
      BY <2>2 DEF AllCameBelow
    <3>2. Over(u) => Over(u)'
      <4>1. u \in Int
        BY SMTT(300)
      <4> QED
        BY <4>1, OverStays
    <3>3. IsQueued(s, u) => HasBefore(s, n, u)'
      BY <1>1, <1>2, <2>2 DEF IsQueued, HasBefore
    <3> QED
      BY <3>1, <3>2, <3>3 DEF IsCovered, NowMissed, HasMissed
  <2> QED
    BY <1>3, <2>1, <2>2
<1> QED
  BY <1>2, <1>4 DEF QueueIsComplete

LEMMA CompleteAfterTail ==
  ASSUME TypeOK, TypeOK', KeepsSettled, NEW s \in Sessions, QueueIsComplete(s), MissesStay(s),
         NEW v, Receives(s, v)
  PROVE  QueueIsComplete(s)'
<1>1. PICK q \in Seq(Versions) : q = queue[s]
  BY SessionTypes
<1>2. PICK c : c = queue'[s]
  OBVIOUS
<1>3. q # <<>> /\ v = Head(q) /\ c = Tail(q)
  BY <1>1, <1>2 DEF Receives
<1>4. ASSUME NEW n \in 1..Len(c)
      PROVE  /\ n + 1 \in 1..Len(q) /\ c[n] = q[n + 1]
             /\ \A m \in 1..((n + 1) - 1) : q[m] = v \/ (m - 1 \in 1..(n - 1) /\ c[m - 1] = q[m])
  BY SMTT(300), <1>1, <1>3, <1>4
<1>5. ASSUME NEW n \in 1..Len(c), NEW u \in 1..(c[n] - 1) PROVE IsCovered(s, n, u)'
  <2>1. Over(u)' \/ HasMissed(s, u)' \/ HasBefore(s, n + 1, u)
    BY <1>1, <1>4, CompleteStays
  <2>2. HasBefore(s, n + 1, u) => u = v \/ HasBefore(s, n, u)'
    BY <1>1, <1>2, <1>4 DEF HasBefore
  <2>3. u = v => Over(u)'
    BY SentVersions DEF Over
  <2> QED
    BY <2>1, <2>2, <2>3 DEF IsCovered
<1> QED
  BY <1>2, <1>5 DEF QueueIsComplete

\* All versions below that of the next row of the page have come.
LEMMA CameBeforePage ==
  ASSUME TypeOK, RowsAreOrdered, UniqueRows, NEW s \in Sessions, PageIsNext(s), ReplayedCame(s),
         QueueIsReplayed(s), NEW r \in page[s], Replays(s, r)
  PROVE  AllCameBelow(s, r.ver) /\ MissesStay(s)
<1>0. after[s] \in Nat /\ outbox \subseteq Row /\ page[s] \subseteq Row /\ \A q \in Row : q.at \in Nat
  BY SessionTypes, RowNumbers DEF TypeOK, ProducerType
<1>1. /\ phase[s] = "replaying" /\ \A q \in page[s] : r.at <= q.at
      /\ missed'[s] = {m \in missed[s] : m[1] # r.ver}
  BY DEF Replays
<1>2. \A u : u # r.ver /\ HasMissed(s, u) => NowMissed(s, u)
  BY <1>1 DEF HasMissed, NowMissed
<1>3. ASSUME NEW u \in 1..(r.ver - 1) PROVE Over(u) \/ NowMissed(s, u) \/ IsQueued(s, u)
  <2>1. u # r.ver
    BY SMTT(300), RowNumbers, <1>0
  <2>2. ASSUME NEW q \in outbox, q.ver = u, q.at < r.at PROVE Came(s, u)
    <3>1. q.at <= after[s]
      <4>1. ASSUME after[s] < q.at PROVE FALSE
        <5>1. q.at <= r.at
          BY SMTT(300), <1>0, <2>2
        <5>2. q \in page[s]
          BY <4>1, <5>1 DEF PageIsNext
        <5> QED
          BY SMTT(300), <1>0, <1>1, <2>2, <5>2
      <4> QED
        BY SMTT(300), <1>0, <4>1
    <3> QED
      BY <1>1, <2>2, <3>1 DEF ReplayedCame, Bound
  <2>3. HasOlder(u, r.at)
    BY DEF RowsAreOrdered, IsOrdered
  <2> QED
    BY <1>2, <2>1, <2>2, <2>3 DEF HasOlder, Came
<1>4. ASSUME HasOlder(r.ver, after[s] + 1) PROVE Over(r.ver)
  <2>1. ASSUME NEW q \in outbox, q.ver = r.ver, q.at < after[s] + 1, r \in outbox PROVE FALSE
    <3>1. q = r /\ after[s] < r.at
      BY <2>1 DEF UniqueRows, PageIsNext
    <3> QED
      BY SMTT(300), <1>0, <2>1, <3>1
  <2> QED
    BY <1>4, <2>1 DEF HasOlder, PageIsNext
<1>5. MissesStay(s)
  BY <1>1, <1>2, <1>4 DEF MissesStay, QueueIsReplayed
<1> QED
  BY <1>3, <1>5 DEF AllCameBelow

\* All versions below that of the next row of the channel have come, once the replay is over.
LEMMA CameBeforeLive ==
  ASSUME TypeOK, RowsAreOrdered, NewestIsLast, NEW s \in Sessions, ChanRises(s), ReplayedCame(s), LiveCame(s),
         NEW h, Forwards(s, h)
  PROVE  AllCameBelow(s, h.ver)
<1>0. lw[s] \in Nat /\ outbox \subseteq Row /\ chan[s] \in Seq(Row) /\ \A q \in Row : q.at \in Nat
  BY SessionTypes, RowNumbers DEF TypeOK, ProducerType
<1>1. /\ phase[s] = "live" /\ missed'[s] = missed[s]
      /\ h \in Row /\ 1 \in 1..Len(chan[s]) /\ h = chan[s][1]
  BY SentVersions DEF Forwards
<1>2. ASSUME NEW i \in 1..Len(chan[s]) PROVE h.at <= chan[s][i].at
  <2>1. CASE i = 1
    BY SMTT(300), <1>0, <1>1, <2>1
  <2>2. CASE i # 1
    <3>1. 1 < i
      BY SMTT(300), <2>2
    <3>2. h.at < chan[s][i].at
      BY <1>1, <3>1 DEF ChanRises
    <3>3. chan[s][i].at \in Nat /\ h.at \in Nat
      BY <1>0, <1>1, ElementType
    <3> QED
      BY SMTT(300), <3>2, <3>3
  <2> QED
    BY <2>1, <2>2
<1>3. ASSUME NEW q \in outbox, q.at < h.at PROVE Came(s, q.ver)
  <2>0. q.at \in Nat /\ h.at \in Nat
    BY <1>0, <1>1
  <2>1. CASE q.at <= lw[s]
    BY <1>1, <2>1 DEF ReplayedCame, Bound
  <2>2. CASE q.at > lw[s]
    <3>1. ~InChan(s, q)
      <4>1. ~(h.at <= q.at)
        BY SMTT(300), <1>3, <2>0
      <4> QED
        BY <1>2, <4>1 DEF InChan
    <3>2. ~(ppc = "publishing" /\ q = prow)
      <4>1. ASSUME ppc = "publishing", q = prow PROVE FALSE
        <5>1. h.at < q.at
          BY <1>1, <4>1 DEF NewestIsLast
        <5> QED
          BY SMTT(300), <1>3, <2>0, <5>1
      <4> QED
        BY <4>1
    <3> QED
      BY <1>1, <2>2, <3>1, <3>2 DEF LiveCame
  <2>3. q.at <= lw[s] \/ q.at > lw[s]
    BY SMTT(300), <1>0, <2>0
  <2> QED
    BY <2>1, <2>2, <2>3
<1>4. ASSUME NEW u \in 1..(h.ver - 1) PROVE Came(s, u)
  <2>1. HasOlder(u, h.at)
    BY <1>1 DEF RowsAreOrdered, IsOrdered
  <2> QED
    BY <1>3, <2>1 DEF HasOlder, Came
<1> QED
  BY <1>1, <1>4 DEF AllCameBelow, Came, HasMissed, NowMissed

LEMMA CompleteStep ==
  ASSUME TypeOK, TypeOK', KeepsSettled, [Next]_vars, RowsAreOrdered, NewestIsLast, UniqueRows,
         NEW s \in Sessions, PageIsNext(s), ChanRises(s), ReplayedCame(s), LiveCame(s),
         QueueIsComplete(s), QueueIsReplayed(s)
  PROVE  QueueIsComplete(s)'
<1>1. ASSUME missed[s] \subseteq missed'[s] PROVE MissesStay(s)
  BY <1>1 DEF MissesStay, HasMissed, NowMissed
<1>2. ASSUME missed[s] \subseteq missed'[s], queue'[s] = queue[s] PROVE QueueIsComplete(s)'
  <2>1. ASSUME NEW n \in 1..Len(queue[s]), NEW u \in 1..(queue[s][n] - 1)
        PROVE  Over(u)' \/ HasMissed(s, u)' \/ HasBefore(s, n, u)
    BY <1>1, <1>2, CompleteStays
  <2>2. \A n, u : HasBefore(s, n, u) => HasBefore(s, n, u)'
    BY <1>2 DEF HasBefore
  <2> QED
    BY <1>2, <2>1, <2>2 DEF QueueIsComplete, IsCovered
<1>3. ASSUME queue'[s] = <<>> PROVE QueueIsComplete(s)'
  BY <1>3, EmptyHasNone DEF QueueIsComplete
<1>4. CASE Rests(s) \/ Ends(s)
  BY <1>2, <1>3, <1>4 DEF Rests, Ends
<1>5. CASE Gets(s) \/ Opens(s) \/ Lists(s) \/ GoesLive(s) \/ \E t \in 1..MaxStamp : ReadsClock(s, t)
  BY <1>2, <1>5 DEF Gets, Opens, Lists, GoesLive, ReadsClock
<1>6. ASSUME NEW r \in page[s], Replays(s, r) PROVE QueueIsComplete(s)'
  <2>1. queue'[s] = Append(queue[s], r.ver) /\ r.ver \in Versions
    BY <1>6, SentVersions DEF Replays
  <2> QED
    BY <1>6, <2>1, CameBeforePage, CompleteAfterAppend
<1>7. ASSUME NEW h, Forwards(s, h) PROVE QueueIsComplete(s)'
  <2>1. missed'[s] = missed[s] /\ (queue'[s] = queue[s] \/ queue'[s] = Append(queue[s], h.ver))
    BY <1>7 DEF Forwards
  <2>2. h.ver \in Versions /\ AllCameBelow(s, h.ver)
    BY <1>7, SentVersions, CameBeforeLive
  <2>3. queue'[s] = Append(queue[s], h.ver) => QueueIsComplete(s)'
    BY <1>1, <2>1, <2>2, CompleteAfterAppend
  <2> QED
    BY <1>2, <2>1, <2>3
<1>8. ASSUME NEW v, Receives(s, v) PROVE QueueIsComplete(s)'
  BY <1>1, <1>8, CompleteAfterTail DEF Receives
<1> QED
  BY <1>4, <1>5, <1>6, <1>7, <1>8, StepsOfSession

LEMMA QueueReplayedStep ==
  ASSUME TypeOK, TypeOK', KeepsSettled, [Next]_vars, RowsAreOrdered,
         NEW s \in Sessions, Shape(s), PageIsNext(s), QueueIsReplayed(s)
  PROVE  QueueIsReplayed(s)'
<1>0. /\ after[s] \in Nat /\ page[s] \subseteq Row /\ outbox \subseteq Row /\ queue[s] \in Seq(Versions)
      /\ \A q \in Row : q.at \in Nat /\ q.ver \in Int
  <2>1. \A q \in Row : q.at \in Nat /\ q.ver \in Int
    BY SMTT(300), RowNumbers
  <2> QED
    BY <2>1, SessionTypes DEF TypeOK, ProducerType
<1>1. ASSUME phase[s] = "replaying", NEW n \in 1..Len(queue[s]), NEW u \in 1..(queue[s][n] - 1), NEW x, x = after[s] + 1
      PROVE  HasOlder(u, x) /\ HasOlder(u, x)'
  <2>1. u \in Int
    BY SMTT(300)
  <2>2. HasOlder(u, x)
    BY <1>1 DEF QueueIsReplayed
  <2> QED
    BY <2>1, <2>2, OlderStays
<1>2. ASSUME phase[s] = "replaying", after'[s] = after[s], queue'[s] = queue[s] PROVE QueueIsReplayed(s)'
  <2>1. PICK x : x = after[s] + 1
    OBVIOUS
  <2>2. \A n \in 1..Len(queue[s]) : \A u \in 1..(queue[s][n] - 1) : HasOlder(u, x)'
    BY <1>1, <1>2, <2>1
  <2>3. \A u : HasOlder(u, x)' => HasOlder(u, after[s] + 1)'
    BY <1>2, <2>1 DEF HasOlder, Over
  <2> QED
    BY <1>2, <2>2, <2>3 DEF QueueIsReplayed
<1>3. ASSUME phase'[s] # "replaying" PROVE QueueIsReplayed(s)'
  BY <1>3 DEF QueueIsReplayed
<1>4. CASE Rests(s) \/ Gets(s)
  <2>1. phase'[s] = phase[s] /\ after'[s] = after[s] /\ queue'[s] = queue[s]
    BY <1>4 DEF Rests, Gets, SameHandler
  <2> QED
    BY <1>2, <1>3, <2>1
<1>5. CASE Ends(s) \/ Opens(s) \/ GoesLive(s) \/ \E h : Forwards(s, h)
  BY <1>3, <1>5 DEF Ends, Opens, GoesLive, Forwards, SameHandler
<1>6. CASE Lists(s)
  BY <1>2, <1>6 DEF Lists
<1>7. ASSUME NEW t \in 1..MaxStamp, ReadsClock(s, t) PROVE QueueIsReplayed(s)'
  BY <1>7, EmptyHasNone DEF ReadsClock, Shape, QueueIsReplayed
<1>8. ASSUME NEW r \in page[s], Replays(s, r) PROVE QueueIsReplayed(s)'
  <2>1. /\ phase[s] = "replaying" /\ after'[s] = r.at /\ after[s] < r.at
        /\ queue'[s] = Append(queue[s], r.ver)
    BY <1>8 DEF Replays, PageIsNext
  <2>2. PICK x : x = r.at + 1
    OBVIOUS
  <2>3. ASSUME NEW u, NEW y, y = r.at \/ y = after[s] + 1, HasOlder(u, y) PROVE HasOlder(u, x)
    <3>1. ASSUME NEW q \in outbox, q.at < y PROVE q.at < x
      BY SMTT(300), <1>0, <2>1, <2>2, <2>3, <3>1
    <3> QED
      BY <2>3, <3>1 DEF HasOlder
  <2>4. ASSUME NEW u \in 1..(r.ver - 1) PROVE HasOlder(u, x)
    BY <2>3 DEF RowsAreOrdered, IsOrdered
  <2>5. ASSUME NEW n \in 1..Len(queue[s]), NEW u \in 1..(queue[s][n] - 1) PROVE HasOlder(u, x)
    BY <1>1, <2>1, <2>3
  <2>6. PICK c : c = queue'[s]
    OBVIOUS
  <2>7. ASSUME NEW n \in 1..Len(c) PROVE (n \in 1..Len(queue[s]) /\ c[n] = queue[s][n]) \/ c[n] = r.ver
    <3>1. r.ver \in Versions
      BY SentVersions
    <3> QED
      BY SMTT(300), <1>0, <2>1, <2>6, <2>7, <3>1
  <2>8. ASSUME NEW n \in 1..Len(c), NEW u \in 1..(c[n] - 1) PROVE HasOlder(u, x)'
    <3>1. HasOlder(u, x)
      BY <2>4, <2>5, <2>7
    <3>2. u \in Int
      BY SMTT(300)
    <3> QED
      BY <3>1, <3>2, OlderStays
  <2>9. \A u : HasOlder(u, x)' => HasOlder(u, after[s] + 1)'
    BY <2>1, <2>2 DEF HasOlder, Over
  <2> QED
    BY <2>6, <2>8, <2>9 DEF QueueIsReplayed
<1>9. ASSUME NEW v, Receives(s, v), phase[s] = "replaying" PROVE QueueIsReplayed(s)'
  <2>1. after'[s] = after[s] /\ queue[s] # <<>> /\ queue'[s] = Tail(queue[s])
    BY <1>9 DEF Receives, SameHandler
  <2>2. PICK x : x = after[s] + 1
    OBVIOUS
  <2>3. PICK c : c = queue'[s]
    OBVIOUS
  <2>4. ASSUME NEW n \in 1..Len(c), NEW u \in 1..(c[n] - 1) PROVE HasOlder(u, x)'
    <3>1. n + 1 \in 1..Len(queue[s]) /\ c[n] = queue[s][n + 1]
      BY <1>0, <2>1, <2>3, TailElement
    <3> QED
      BY <1>1, <1>9, <2>2, <3>1
  <2>5. \A u : HasOlder(u, x)' => HasOlder(u, after[s] + 1)'
    BY <2>1, <2>2 DEF HasOlder, Over
  <2> QED
    BY <2>3, <2>4, <2>5 DEF QueueIsReplayed
<1>10. ASSUME NEW v, Receives(s, v), phase[s] # "replaying" PROVE QueueIsReplayed(s)'
  BY <1>3, <1>10 DEF Receives, SameHandler
<1> QED
  BY <1>4, <1>5, <1>6, <1>7, <1>8, <1>9, <1>10, StepsOfSession

-----------------------------------------------------------------------------
SessionInv(s) ==
  /\ Shape(s) /\ PageIsNext(s) /\ ChanRises(s) /\ ReplayedCame(s) /\ LiveCame(s)
  /\ QueueIsComplete(s) /\ QueueIsReplayed(s)
HoleInv == RowsAreOrdered /\ StampsDiffer /\ NewestIsLast /\ \A s \in Sessions : SessionInv(s)

LEMMA HoleInit == ASSUME Init PROVE HoleInv
<1>1. ASSUME NEW s \in Sessions
      PROVE  /\ phase[s] = "off" /\ lw[s] = 0 /\ after[s] = 0 /\ chan[s] = <<>> /\ page[s] = {}
             /\ queue[s] = <<>>
  BY DEF Init
<1>2. outbox = {} /\ ppc = "idle"
  BY DEF Init
<1>3. RowsAreOrdered /\ StampsDiffer /\ NewestIsLast
  BY <1>1, <1>2, EmptyHasNone DEF RowsAreOrdered, StampsDiffer, NewestIsLast
<1>4. ASSUME NEW s \in Sessions PROVE SessionInv(s)
  <2>1. 0 <= 0
    BY SMTT(300)
  <2>2. Shape(s)
    BY <1>1, <2>1 DEF Shape
  <2> QED
    BY <1>1, <1>2, <2>2, EmptyHasNone DEF SessionInv, PageIsNext, ChanRises, ReplayedCame, LiveCame,
       QueueIsComplete, QueueIsReplayed
<1> QED
  BY <1>3, <1>4 DEF HoleInv

LEMMA HoleStep ==
  ASSUME TypeOK, TypeOK', FeedInv, HoleInv, [Next]_vars
  PROVE  HoleInv'
<1>1. KeepsSettled /\ CarriesOld /\ UniqueRows
  BY RowsLeaveSettled, CarriesOldStep DEF FeedInv
<1>2. RowsAreOrdered /\ StampsDiffer /\ NewestIsLast /\ \A s \in Sessions : SessionInv(s)
  BY DEF HoleInv
<1>3. RowsAreOrdered' /\ StampsDiffer'
  BY <1>2, OrderedStep, StampsStep
<1>4. NewestIsLast'
  <2>1. \A s \in Sessions : after[s] <= lw[s]
    BY <1>2 DEF SessionInv, Shape
  <2> QED
    BY <1>2, <2>1, NewestStep
<1>5. ASSUME NEW s \in Sessions PROVE SessionInv(s)'
  <2>1. /\ Shape(s) /\ PageIsNext(s) /\ ChanRises(s) /\ ReplayedCame(s) /\ LiveCame(s)
        /\ QueueIsComplete(s) /\ QueueIsReplayed(s)
    BY <1>2 DEF SessionInv
  <2>2. Shape(s)' /\ PageIsNext(s)' /\ ChanRises(s)'
    BY <1>1, <1>2, <2>1, ShapeStep, PageStep, ChanStep
  <2>3. ReplayedCame(s)' /\ LiveCame(s)'
    BY <1>1, <1>2, <2>1, ReplayedStep, LiveStep
  <2>4. QueueIsComplete(s)' /\ QueueIsReplayed(s)'
    BY <1>1, <1>2, <2>1, CompleteStep, QueueReplayedStep
  <2> QED
    BY <2>2, <2>3, <2>4 DEF SessionInv
<1> QED
  BY <1>3, <1>4, <1>5 DEF HoleInv

LEMMA OnlyApplyMovesCursor ==
  ASSUME TypeOK, [Next]_vars
  PROVE  cursor' = cursor \/ \E s \in Sessions : ApplyNext(s)
<1>1. Producer => cursor' = cursor
  BY DEF Producer, StageBegin, StageCommit, StageConflict, PublishLive, ConfirmPosition, ProducerRestart,
     HomeCrash, clientVars
<1>2. ASSUME NEW s \in Sessions, Server(s) \/ ServerEnd(s) PROVE cursor' = cursor
  BY <1>2 DEF Server, LiveWatermark, ListPage, ReplayNext, ForwardLive, ServerEnd, clientVars
<1>3. ASSUME NEW s \in Sessions, Client(s), ~ApplyNext(s) PROVE cursor' = cursor
  BY <1>3 DEF Client, Connect, AckReturn, ClientEnd, LoseAck, clientVars
<1>4. ASSUME NEW s \in Sessions, NEW v \in Versions, ServeAck(s, v) PROVE cursor' = cursor
  BY <1>4 DEF ServeAck
<1>5. Cleanup \/ UNCHANGED vars => cursor' = cursor
  BY DEF Cleanup, vars, clientVars
<1> QED
  BY <1>1, <1>2, <1>3, <1>4, <1>5 DEF Next

LEMMA JumpIsMissed ==
  ASSUME TypeOK, HoleInv, [Next]_vars, NEW s \in Sessions, Applies(s), NEW v \in JumpedOver
  PROVE  v \in cleaned \/ HasMissed(s, v)
<1>1. cursor \in Nat /\ v \in Int /\ cursor < v /\ cursor' # cursor /\ cursor' # 0
  <2>1. cursor \in Nat
    BY SMTT(300), DeliveryAssumption DEF TypeOK, ClientType
  <2>2. v \in (cursor + 1)..(cursor' - 1)
    BY DEF JumpedOver
  <2>3. cursor' \in Int
    <3>1. ASSUME NEW t \in Sessions, ApplyNext(t) PROVE cursor' \in Int
      <4>1. queue[t] \in Seq(Versions) /\ queue[t] # <<>> /\ cursor' = Max2(cursor, Head(queue[t]))
        BY <3>1, SessionTypes DEF ApplyNext
      <4>2. Head(queue[t]) \in Versions
        BY <4>1, HeadElement, ElementType
      <4> QED
        BY SMTT(300), <2>1, <4>1, <4>2 DEF Max2, Versions
    <3>2. cursor' = cursor => cursor' \in Int
      BY SMTT(300), <2>1
    <3> QED
      BY <3>1, <3>2, OnlyApplyMovesCursor
  <2>4. PICK c \in Int : c = cursor'
    BY <2>3
  <2>5. v \in (cursor + 1)..(c - 1)
    BY <2>2, <2>4
  <2>6. v \in Int /\ cursor < v /\ c # cursor /\ c # 0
    BY SMTT(300), <2>1, <2>5
  <2> QED
    BY <2>1, <2>4, <2>6
<1>2. PICK t \in Sessions : ApplyNext(t)
  BY <1>1, OnlyApplyMovesCursor
<1>3. t = s
  <2>1. ASSUME t # s PROVE acking'[s] = acking[s]
    BY <1>2, <2>1 DEF ApplyNext, TypeOK, ClientType
  <2> QED
    BY <1>1, <2>1 DEF Applies
<1>4. queue[s] \in Seq(Versions) /\ queue[s] # <<>> /\ cursor' = Max2(cursor, Head(queue[s]))
  BY <1>2, <1>3, SessionTypes DEF ApplyNext
<1>5. 1 \in 1..Len(queue[s]) /\ Head(queue[s]) = queue[s][1]
  BY <1>4, HeadElement
<1>6. v \in 1..(queue[s][1] - 1)
  <2>1. cursor' = queue[s][1]
    BY <1>1, <1>4, <1>5 DEF Max2
  <2>2. v \in (cursor + 1)..(queue[s][1] - 1)
    BY <2>1 DEF JumpedOver
  <2>3. queue[s][1] \in Versions
    BY <1>4, <1>5, ElementType
  <2> QED
    BY SMTT(300), <1>1, <2>2, <2>3 DEF Versions
<1>7. IsCovered(s, 1, v)
  BY <1>5, <1>6 DEF HoleInv, SessionInv, QueueIsComplete
<1>8. ~HasBefore(s, 1, v)
  <2>1. 1..(1 - 1) = {}
    BY SMTT(300)
  <2> QED
    BY <2>1 DEF HasBefore
<1>9. ~(v <= cursor)
  BY SMTT(300), <1>1
<1> QED
  BY <1>7, <1>8, <1>9 DEF IsCovered, Over

\* For any number of sessions, pods, changes and faults, any channel, queue and page sizes: the
\* cursor of the consuming region jumps over a version only where the session that moves it has
\* missed it on the live path, or the outbox cleanup has removed it (Consume subscribes, reads
\* the watermark, replays by id until a page is empty, and only then forwards live batches).
THEOREM NoOtherHole == Spec => OnlyMissedIsJumpedOver
<1>1. Init => FeedInv /\ HoleInv
  <2>1. Init => FeedInv
    BY SMTT(300) DEF Init, FeedInv, DurableInv, PendingUntilCovered, AcksCovered, SlotBehind, StagedNext,
           PagesSettled, ChansSettled, QueuesSettled, UniqueRows
  <2> QED
    BY <2>1, HoleInit
<1>2. TypeOK /\ TypeOK' /\ FeedInv /\ HoleInv /\ [Next]_vars => FeedInv' /\ HoleInv'
  BY FeedInvStep, HoleStep
<1>3. TypeOK /\ HoleInv /\ [Next]_vars
        => [\A s \in Sessions : Applies(s) => \A v \in JumpedOver : v \in cleaned \/ HasMissed(s, v)]_vars
  BY JumpIsMissed
<1> QED
  BY <1>1, <1>2, <1>3, TypeCorrect, PTL DEF Spec, OnlyMissedIsJumpedOver
=============================================================================
