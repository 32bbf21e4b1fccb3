----------------------------- MODULE ApplyQueue -----------------------------
(***************************************************************************)
(* The hand-off between the two goroutines of a listener                   *)
(* (internal/kvevents/listener.go: run, subscribeLoop, applyLoop).         *)
(*                                                                         *)
(* The receiving goroutine puts what the socket delivers into a bounded    *)
(* channel, the applying one takes it out; a counter beside the channel is *)
(* exported as its depth.  When receiving fails the channel is closed and  *)
(* drained, the stream is reported disconnected, and after a pause the     *)
(* receiver dials again.  Stop cancels the context of both.                *)
(*                                                                         *)
(* Batches are numbered as they are received.  KVListener has the same     *)
(* goroutines with larger steps and the contents of the batches.           *)
(***************************************************************************)
EXTENDS Integers, Sequences

CONSTANTS
    Cap,          \* applyQueueSize
    MaxReceived,  \* bound: batches received
    MaxFailures   \* bound: failures of the connection

ASSUME QueueAssumption ==
    /\ Cap \in Nat \ {0}
    /\ {MaxReceived, MaxFailures} \subseteq Nat

VARIABLES
    rpc,        \* where the receiving goroutine is
    apc,        \* where the applying goroutine is
    queue,      \* batches in the channel
    closed,     \* whether the channel is closed
    queueLen,   \* the exported depth
    hand,       \* the batch in the receiver's hands: a list of at most one
    work,       \* the batch in the applier's hands: a list of at most one
    failed,     \* whether the receiver left its loop with an error
    cancelled,  \* whether Stop was called
    connected,  \* StreamHealth.Connected
    received,   \* number of batches received so far
    handled,    \* the batches applied, in order (history)
    failures    \* failures so far

receiver == <<rpc, hand, failed, connected, received, failures>>
applier == <<apc, work, handled>>
vars == <<receiver, applier, queue, closed, queueLen, cancelled>>

Init ==
    /\ rpc = "dial" /\ apc = "done"
    /\ queue = << >> /\ closed = TRUE
    /\ queueLen = 0
    /\ hand = << >> /\ work = << >>
    /\ failed = FALSE /\ cancelled = FALSE /\ connected = FALSE
    /\ received = 0 /\ handled = << >> /\ failures = 0

-----------------------------------------------------------------------------
(***************************************************************************)
(* The receiving goroutine                                                 *)
(***************************************************************************)

\* Dial, report the stream connected, make a channel, start its applier.
Connect ==
    /\ rpc = "dial"
    /\ ~cancelled
    /\ rpc' = "loop"
    /\ connected' = TRUE
    /\ queue' = << >> /\ closed' = FALSE
    /\ apc' = "idle"
    /\ UNCHANGED <<queueLen, hand, work, failed, cancelled, received, handled, failures>>

CheckContext ==
    /\ rpc = "loop"
    /\ rpc' = IF cancelled THEN "close" ELSE "recv"
    /\ failed' = FALSE
    /\ UNCHANGED <<applier, queue, closed, queueLen, hand, cancelled, connected, received, failures>>

Recv ==
    /\ rpc = "recv"
    /\ received < MaxReceived
    /\ received' = received + 1
    /\ hand' = <<received + 1>>
    /\ rpc' = "count"
    /\ UNCHANGED <<applier, queue, closed, queueLen, failed, cancelled, connected, failures>>

\* The connection breaks, or the context of the socket is cancelled.
RecvError ==
    /\ rpc = "recv"
    /\ IF cancelled THEN UNCHANGED failures
                    ELSE failures < MaxFailures /\ failures' = failures + 1
    /\ failed' = TRUE
    /\ rpc' = "close"
    /\ UNCHANGED <<applier, queue, closed, queueLen, hand, cancelled, connected, received>>

CountIn ==
    /\ rpc = "count"
    /\ queueLen' = queueLen + 1
    /\ rpc' = "send"
    /\ UNCHANGED <<applier, queue, closed, hand, failed, cancelled, connected, received, failures>>

\* Blocks while the channel is full.
Send ==
    /\ rpc = "send"
    /\ Len(queue) < Cap
    /\ queue' = queue \o hand
    /\ hand' = << >>
    /\ rpc' = "loop"
    /\ UNCHANGED <<applier, closed, queueLen, failed, cancelled, connected, received, failures>>

\* A cancelled receiver takes its count back and keeps the batch.
GiveUp ==
    /\ rpc = "send"
    /\ cancelled
    /\ queueLen' = queueLen - 1
    /\ failed' = FALSE
    /\ rpc' = "close"
    /\ UNCHANGED <<applier, queue, closed, hand, cancelled, connected, received, failures>>

\* Mistake: the loop ends without closing the channel.
CloseForgotten ==
    /\ rpc = "close"
    /\ rpc' = "wait"
    /\ UNCHANGED <<applier, queue, closed, queueLen, hand, failed, cancelled, connected, received, failures>>

Close ==
    /\ rpc = "close"
    /\ closed' = TRUE
    /\ rpc' = "wait"
    /\ UNCHANGED <<applier, queue, queueLen, hand, failed, cancelled, connected, received, failures>>

\* Mistake: the loop ends without waiting for the applier.
DrainedAtOnce ==
    /\ rpc = "wait"
    /\ queueLen' = 0
    /\ rpc' = IF failed THEN "report" ELSE "done"
    /\ UNCHANGED <<applier, queue, closed, hand, failed, cancelled, connected, received, failures>>

\* Wait for the applier, then reset the depth.
Drained ==
    /\ rpc = "wait"
    /\ apc = "done"
    /\ queueLen' = 0
    /\ rpc' = IF failed THEN "report" ELSE "done"
    /\ UNCHANGED <<applier, queue, closed, hand, failed, cancelled, connected, received, failures>>

\* Mistake: a failed stream still counts as connected.
ReportNothing ==
    /\ rpc = "report"
    /\ rpc' = "backoff"
    /\ UNCHANGED <<applier, queue, closed, queueLen, hand, failed, cancelled, connected, received, failures>>

ReportDisconnected ==
    /\ rpc = "report"
    /\ connected' = FALSE
    /\ rpc' = "backoff"
    /\ UNCHANGED <<applier, queue, closed, queueLen, hand, failed, cancelled, received, failures>>

Backoff ==
    /\ rpc = "backoff"
    /\ rpc' = IF cancelled THEN "done" ELSE "dial"
    /\ UNCHANGED <<applier, queue, closed, queueLen, hand, failed, cancelled, connected, received, failures>>

Stopped ==
    /\ rpc = "dial"
    /\ cancelled
    /\ rpc' = "done"
    /\ UNCHANGED <<applier, queue, closed, queueLen, hand, failed, cancelled, connected, received, failures>>

Receive ==
    \/ Connect \/ CheckContext \/ Recv \/ RecvError \/ CountIn \/ Send \/ GiveUp
    \/ Close \/ Drained \/ ReportDisconnected \/ Backoff \/ Stopped

-----------------------------------------------------------------------------
(***************************************************************************)
(* The applying goroutine                                                  *)
(***************************************************************************)

Take ==
    /\ apc = "idle"
    /\ queue # << >>
    /\ work' = <<Head(queue)>>
    /\ queue' = Tail(queue)
    /\ apc' = "count"
    /\ UNCHANGED <<receiver, closed, queueLen, cancelled, handled>>

CountOut ==
    /\ apc = "count"
    /\ queueLen' = queueLen - 1
    /\ apc' = "handle"
    /\ UNCHANGED <<receiver, queue, closed, cancelled, work, handled>>

Handle ==
    /\ apc = "handle"
    /\ handled' = handled \o work
    /\ work' = << >>
    /\ apc' = "idle"
    /\ UNCHANGED <<receiver, queue, closed, queueLen, cancelled>>

\* The channel is closed and empty: the range over it ends.
Finish ==
    /\ apc = "idle"
    /\ closed
    /\ queue = << >>
    /\ apc' = "done"
    /\ UNCHANGED <<receiver, queue, closed, queueLen, cancelled, work, handled>>

ApplyBatches == Take \/ CountOut \/ Handle \/ Finish

\* Stop cancels the context.
Stop ==
    /\ ~cancelled
    /\ cancelled' = TRUE
    /\ UNCHANGED <<receiver, applier, queue, closed, queueLen>>

-----------------------------------------------------------------------------

Next == Receive \/ ApplyBatches \/ Stop

Spec == Init /\ [][Next]_vars

\* The goroutines are scheduled; receiving fails once the context is cancelled.
Fairness == WF_vars(Receive) /\ WF_vars(ApplyBatches)

FairSpec == Spec /\ Fairness

-----------------------------------------------------------------------------
(***************************************************************************)
(* Properties                                                              *)
(***************************************************************************)

\* Every variable has its type; hands hold at most one batch, and hold one
\* exactly in the steps that have one to pass on.
TypeOK ==
    /\ rpc \in {"dial", "loop", "recv", "count", "send", "close", "wait", "report", "backoff", "done"}
    /\ apc \in {"idle", "count", "handle", "done"}
    /\ queue \in Seq(Nat) /\ handled \in Seq(Nat)
    /\ hand \in Seq(Nat) /\ Len(hand) <= 1
    /\ work \in Seq(Nat) /\ Len(work) <= 1
    /\ rpc \in {"count", "send"} => hand # << >>
    /\ hand # << >> => rpc \in {"count", "send"} \/ (failed = FALSE /\ rpc \in {"close", "wait", "done"})
    /\ work # << >> <=> apc \in {"count", "handle"}
    /\ closed \in BOOLEAN /\ failed \in BOOLEAN /\ cancelled \in BOOLEAN /\ connected \in BOOLEAN
    /\ queueLen \in Int
    /\ received \in Nat /\ failures \in Nat

One(condition) == IF condition THEN 1 ELSE 0

\* The exported depth counts the channel and the one batch on either side that
\* is counted there already: "the apply goroutine's decrement can never race
\* ahead and make the observable depth go negative", and a reader sees at most
\* two more than the capacity.  The reset at the end finds zero.
QueueLenExact == queueLen = Len(queue) + One(rpc = "send") + One(apc = "count")

\* The receiver never sends on a closed channel and the applier of a channel
\* is gone before the next one is made: no batch reaches two appliers.
ChannelDiscipline ==
    /\ Len(queue) <= Cap
    /\ rpc \in {"loop", "recv", "count", "send", "close"} => ~closed
    /\ rpc \in {"dial", "report", "backoff", "done"} => closed /\ apc = "done"
    /\ apc = "done" => closed /\ queue = << >>

\* Every received batch is applied once and in order: the batches applied and
\* the batches on their way, put together, are the batches received, through
\* reconnections and cancellation.
InOrder == handled \o work \o queue \o hand = [i \in 1..received |-> i]

\* What the applier needs of the receiver, and the Streams page of both
\* (subscribeLoop, applyLoop, QueueDepth): together they are inductive.
HandedOver == ChannelDiscipline /\ QueueLenExact /\ InOrder

\* A stopped listener ends.
StopEnds == cancelled ~> rpc = "done"

\* And has applied everything it received, but for the one batch a cancelled
\* receiver could not put into the channel.
ReceivedIsApplied == <>[](handled \o hand = [i \in 1..received |-> i])

\* A broken connection is reported in the end, and so makes the stream stale;
\* until the channel is drained the stream still counts as connected.
BreakIsReported == (failed /\ rpc = "close") ~> ~connected

=============================================================================
