--------------------------- MODULE ApplyQueueProofs ---------------------------
(***************************************************************************)
(* Proofs about ApplyQueue, for every capacity of the channel and every    *)
(* number of batches and failures.                                         *)
(*                                                                         *)
(* The invariant is the conjunction of the safety properties: the depth    *)
(* and the order need the discipline of the channel (a drained channel is  *)
(* empty, a new one replaces an empty one), and all need the types.        *)
(***************************************************************************)
EXTENDS ApplyQueue, SequenceTheorems, TLAPS

IInv == TypeOK /\ ChannelDiscipline /\ QueueLenExact /\ InOrder

\* The numbers up to n followed by n + 1 are the numbers up to n + 1.
LEMMA NextNumber ==
    ASSUME NEW n \in Nat
    PROVE  [i \in 1..n |-> i] \o <<n + 1>> = [i \in 1..(n + 1) |-> i]
<1> DEFINE s == [i \in 1..n |-> i]
<1>1. s \in Seq(Nat) /\ Len(s) = n
  OBVIOUS
<1> QED
  BY <1>1

\* Appending is associative for the lists of this module.
LEMMA Reassociate ==
    ASSUME NEW s \in Seq(Nat), NEW t \in Seq(Nat), NEW u \in Seq(Nat)
    PROVE  (s \o t) \o u = s \o (t \o u)
BY ConcatAssociative

(***************************************************************************)
(* The steps are proved one lemma per part of the invariant.               *)
(***************************************************************************)

\* Every step of the two goroutines keeps the types.
LEMMA TypeKept == ASSUME TypeOK, ChannelDiscipline, [Next]_vars PROVE TypeOK'
<1> USE QueueAssumption DEF TypeOK, ChannelDiscipline, receiver, applier
<1>1. CASE Connect
  BY <1>1 DEF Connect
<1>2. CASE CheckContext
  BY <1>2 DEF CheckContext
<1>3. CASE Recv
  BY <1>3 DEF Recv
<1>4. CASE RecvError
  BY <1>4 DEF RecvError
<1>5. CASE CountIn
  BY <1>5 DEF CountIn
<1>6. CASE Send
  BY <1>6 DEF Send
<1>7. CASE GiveUp
  <2>1. failed' \in BOOLEAN /\ cancelled' \in BOOLEAN /\ closed' \in BOOLEAN /\ connected' \in BOOLEAN
    BY Zenon, <1>7 DEF GiveUp
  <2> QED
    BY <1>7, <2>1 DEF GiveUp
<1>8. CASE Close
  BY <1>8 DEF Close
<1>9. CASE Drained
  BY <1>9 DEF Drained
<1>10. CASE ReportDisconnected
  BY <1>10 DEF ReportDisconnected
<1>11. CASE Backoff
  BY <1>11 DEF Backoff
<1>12. CASE Stopped
  BY <1>12 DEF Stopped
<1>13. CASE Take
  BY <1>13 DEF Take
<1>14. CASE CountOut
  BY <1>14 DEF CountOut
<1>15. CASE Handle
  BY <1>15 DEF Handle
<1>16. CASE Finish
  BY <1>16 DEF Finish
<1>17. CASE Stop
  BY <1>17 DEF Stop
<1>18. CASE UNCHANGED vars
  BY <1>18 DEF vars
<1> QED
  BY <1>1, <1>2, <1>3, <1>4, <1>5, <1>6, <1>7, <1>8, <1>9, <1>10, <1>11, <1>12, <1>13, <1>14, <1>15, <1>16, <1>17, <1>18 DEF Next, Receive, ApplyBatches

\* Every step keeps the discipline of the channel.
LEMMA DisciplineKept == ASSUME TypeOK, ChannelDiscipline, [Next]_vars PROVE ChannelDiscipline'
<1> USE QueueAssumption DEF TypeOK, ChannelDiscipline, receiver, applier
<1>1. CASE Connect
  BY <1>1 DEF Connect
<1>2. CASE CheckContext
  BY <1>2 DEF CheckContext
<1>3. CASE Recv
  BY <1>3 DEF Recv
<1>4. CASE RecvError
  BY <1>4 DEF RecvError
<1>5. CASE CountIn
  BY <1>5 DEF CountIn
<1>6. CASE Send
  BY <1>6 DEF Send
<1>7. CASE GiveUp
  BY <1>7 DEF GiveUp
<1>8. CASE Close
  BY <1>8 DEF Close
<1>9. CASE Drained
  BY <1>9 DEF Drained
<1>10. CASE ReportDisconnected
  BY <1>10 DEF ReportDisconnected
<1>11. CASE Backoff
  BY <1>11 DEF Backoff
<1>12. CASE Stopped
  BY <1>12 DEF Stopped
<1>13. CASE Take
  BY <1>13 DEF Take
<1>14. CASE CountOut
  BY <1>14 DEF CountOut
<1>15. CASE Handle
  BY <1>15 DEF Handle
<1>16. CASE Finish
  BY <1>16 DEF Finish
<1>17. CASE Stop
  BY <1>17 DEF Stop
<1>18. CASE UNCHANGED vars
  BY <1>18 DEF vars
<1> QED
  BY <1>1, <1>2, <1>3, <1>4, <1>5, <1>6, <1>7, <1>8, <1>9, <1>10, <1>11, <1>12, <1>13, <1>14, <1>15, <1>16, <1>17, <1>18 DEF Next, Receive, ApplyBatches

\* Every step keeps the exported depth exact.
LEMMA DepthKept == ASSUME TypeOK, ChannelDiscipline, QueueLenExact, [Next]_vars PROVE QueueLenExact'
<1> USE QueueAssumption DEF TypeOK, ChannelDiscipline, QueueLenExact, One, receiver, applier
<1>1. CASE Connect
  BY <1>1 DEF Connect
<1>2. CASE CheckContext
  BY <1>2 DEF CheckContext
<1>3. CASE Recv
  BY <1>3 DEF Recv
<1>4. CASE RecvError
  BY <1>4 DEF RecvError
<1>5. CASE CountIn
  BY <1>5 DEF CountIn
<1>6. CASE Send
  BY <1>6 DEF Send
<1>7. CASE GiveUp
  BY <1>7 DEF GiveUp
<1>8. CASE Close
  BY <1>8 DEF Close
<1>9. CASE Drained
  BY <1>9 DEF Drained
<1>10. CASE ReportDisconnected
  BY <1>10 DEF ReportDisconnected
<1>11. CASE Backoff
  BY <1>11 DEF Backoff
<1>12. CASE Stopped
  BY <1>12 DEF Stopped
<1>13. CASE Take
  BY <1>13 DEF Take
<1>14. CASE CountOut
  BY <1>14 DEF CountOut
<1>15. CASE Handle
  BY <1>15 DEF Handle
<1>16. CASE Finish
  BY <1>16 DEF Finish
<1>17. CASE Stop
  BY <1>17 DEF Stop
<1>18. CASE UNCHANGED vars
  BY <1>18 DEF vars
<1> QED
  BY <1>1, <1>2, <1>3, <1>4, <1>5, <1>6, <1>7, <1>8, <1>9, <1>10, <1>11, <1>12, <1>13, <1>14, <1>15, <1>16, <1>17, <1>18 DEF Next, Receive, ApplyBatches

\* Every step keeps the batches in order: they move between neighbours.
LEMMA OrderKept == ASSUME TypeOK, ChannelDiscipline, InOrder, [Next]_vars PROVE InOrder'
<1> USE QueueAssumption DEF TypeOK, ChannelDiscipline, InOrder, receiver, applier
<1>1. CASE Connect
  BY <1>1 DEF Connect
<1>2. CASE CheckContext
  BY <1>2 DEF CheckContext
<1>3. CASE Recv
  <2>1. hand = << >> /\ hand' = <<received + 1>> /\ received' = received + 1
    BY <1>3 DEF Recv
  <2>2. handled \o work \o queue = [i \in 1..received |-> i]
    BY <2>1, ConcatEmptySeq
  <2> QED
    BY <1>3, <2>1, <2>2, NextNumber DEF Recv
<1>4. CASE RecvError
  BY <1>4 DEF RecvError
<1>5. CASE CountIn
  BY <1>5 DEF CountIn
<1>6. CASE Send
  <2>1. (handled \o work) \o (queue \o hand) = ((handled \o work) \o queue) \o hand
    <3>1. handled \o work \in Seq(Nat)
      BY ConcatProperties
    <3> QED
      BY <3>1, Reassociate
  <2>2. (handled \o work) \o (queue \o hand) \in Seq(Nat)
    BY ConcatProperties
  <2> QED
    BY <1>6, <2>1, <2>2, ConcatEmptySeq DEF Send
<1>7. CASE GiveUp
  BY <1>7 DEF GiveUp
<1>8. CASE Close
  BY <1>8 DEF Close
<1>9. CASE Drained
  BY <1>9 DEF Drained
<1>10. CASE ReportDisconnected
  BY <1>10 DEF ReportDisconnected
<1>11. CASE Backoff
  BY <1>11 DEF Backoff
<1>12. CASE Stopped
  BY <1>12 DEF Stopped
<1>13. CASE Take
  <2>1. work = << >> /\ handled \o work = handled
    BY <1>13, ConcatEmptySeq DEF Take
  <2>2. <<Head(queue)>> \o Tail(queue) = queue
    BY <1>13 DEF Take
  <2>3. <<Head(queue)>> \in Seq(Nat) /\ Tail(queue) \in Seq(Nat)
    BY <1>13, HeadTailProperties DEF Take
  <2>4. (handled \o <<Head(queue)>>) \o Tail(queue) = handled \o queue
    <3>1. (handled \o <<Head(queue)>>) \o Tail(queue) = handled \o (<<Head(queue)>> \o Tail(queue))
      BY <2>3, Reassociate
    <3> QED
      BY <2>2, <3>1
  <2> QED
    BY <1>13, <2>1, <2>4 DEF Take
<1>14. CASE CountOut
  BY <1>14 DEF CountOut
<1>15. CASE Handle
  BY <1>15 DEF Handle
<1>16. CASE Finish
  BY <1>16 DEF Finish
<1>17. CASE Stop
  BY <1>17 DEF Stop
<1>18. CASE UNCHANGED vars
  BY <1>18 DEF vars
<1> QED
  BY <1>1, <1>2, <1>3, <1>4, <1>5, <1>6, <1>7, <1>8, <1>9, <1>10, <1>11, <1>12, <1>13, <1>14, <1>15, <1>16, <1>17, <1>18 DEF Next, Receive, ApplyBatches

\* The depth is exact, the channel is used as it must be and every batch is
\* applied once and in order, whatever the capacity.
THEOREM QueueInvariant == Spec => [](TypeOK /\ HandedOver)
<1>1. Init => IInv
  <2> SUFFICES ASSUME Init PROVE IInv
    OBVIOUS
  <2>1. TypeOK
    <3>1. Len(hand) <= 1 /\ Len(work) <= 1
      BY EmptySeq DEF Init
    <3>2. queue \in Seq(Nat) /\ handled \in Seq(Nat) /\ hand \in Seq(Nat) /\ work \in Seq(Nat)
      BY EmptySeq DEF Init
    <3>3. closed \in BOOLEAN /\ failed \in BOOLEAN /\ cancelled \in BOOLEAN /\ connected \in BOOLEAN
      BY Zenon DEF Init
    <3> QED
      BY <3>1, <3>2, <3>3 DEF Init, TypeOK
  <2>4. ChannelDiscipline
    BY EmptySeq, QueueAssumption DEF Init, ChannelDiscipline
  <2>5. QueueLenExact
    BY EmptySeq DEF Init, QueueLenExact, One
  <2>2. handled \o work \o queue \o hand = << >>
    BY EmptySeq, ConcatEmptySeq DEF Init
  <2>3. [i \in 1..received |-> i] = << >>
    BY DEF Init
  <2> QED
    BY <2>1, <2>2, <2>3, <2>4, <2>5 DEF IInv, InOrder
<1>2. IInv /\ [Next]_vars => IInv'
  BY TypeKept, DisciplineKept, DepthKept, OrderKept DEF IInv
<1> QED
  BY <1>1, <1>2, PTL DEF Spec, IInv, HandedOver

\* So the exported depth is never negative and at most two above the capacity.
THEOREM DepthIsBounded == Spec => [](0 <= queueLen /\ queueLen <= Cap + 2)
<1>1. TypeOK /\ ChannelDiscipline /\ QueueLenExact => 0 <= queueLen /\ queueLen <= Cap + 2
  <2> SUFFICES ASSUME TypeOK, ChannelDiscipline, QueueLenExact
               PROVE  0 <= queueLen /\ queueLen <= Cap + 2
    OBVIOUS
  <2>1. Len(queue) \in Nat /\ Len(queue) <= Cap
    BY LenProperties DEF TypeOK, ChannelDiscipline
  <2>2. One(rpc = "send") \in {0, 1} /\ One(apc = "count") \in {0, 1}
    BY DEF One
  <2> QED
    BY <2>1, <2>2, QueueAssumption DEF QueueLenExact
<1> QED
  BY <1>1, QueueInvariant, PTL DEF HandedOver

=============================================================================
