--------------------------- MODULE OutboundQueue ---------------------------
(***************************************************************************)
(* The byte-budgeted outbound queue of rx11-core (queue.rs): producers     *)
(* share one bulk channel gated by a byte budget and one bounded priority  *)
(* lane; a single writer task drains both.  Every atomic memory access of  *)
(* `send`, `send_priority`, `recv_any` and `Drop` is a step of its own,    *)
(* because producers and the writer run on different threads.              *)
(***************************************************************************)
EXTENDS Integers, Sequences, FiniteSets

CONSTANTS
    Senders,        \* clones of OutboundSender, one per producing task
    Sizes,          \* encoded sizes of the frames producers queue
    MaxSize,        \* the largest of them
    Budget,         \* QueueState.budget
    Capacity,       \* frame_capacity of the bulk mpsc channel
    LaneCapacity,   \* PRIORITY_LANE_CAPACITY
    MaxSends        \* bound: frames one producer queues

ASSUME SendersAssumption == IsFiniteSet(Senders) /\ Senders # {}
ASSUME SizesAssumption ==
    /\ MaxSize \in Nat
    /\ Sizes \subseteq 1 .. MaxSize
ASSUME BoundsAssumption ==
    /\ Budget \in Nat \ {0}
    /\ Capacity \in Nat \ {0}
    /\ LaneCapacity \in Nat \ {0}
    /\ MaxSends \in Nat

VARIABLES
    queue,      \* the bulk mpsc channel
    inflight,   \* QueueState.inflight
    lane,       \* packets parked in the priority mpsc channel
    backlog,    \* QueueState.priority_backlog
    pc,         \* where each producer stands in send / send_priority
    size,       \* encoded size of the frame a producer holds
    sent,       \* frames a producer has started to send
    notified,   \* whether a producer's subscription to `gate` has fired
    rpc,        \* where the writer stands in recv_any / Drop
    held,       \* size of the frame the writer popped and not yet released
    closed      \* the receiver's channels have been dropped

vars == <<queue, inflight, lane, backlog, pc, size, sent, notified, rpc, held,
          closed>>
senderVars == <<pc, size, sent>>

SenderPC == {"idle", "subscribe", "load", "try_send", "charge", "parked",
             "lane_charge", "gone"}
ReceiverPC == {"idle", "bulk", "release", "notify", "lane_release", "drop",
               "closed"}

\* A bulk frame is known by its producer, its place in that producer's order
\* and its size.
Item == [src : Senders, seq : 0 .. MaxSends, size : 0 .. MaxSize]

TypeOK ==
    /\ queue \in Seq(Item)
    /\ inflight \in Nat
    /\ lane \in 0 .. LaneCapacity
    /\ backlog \in Nat
    /\ pc \in [Senders -> SenderPC]
    /\ size \in [Senders -> 0 .. MaxSize]
    /\ sent \in [Senders -> 0 .. MaxSends]
    /\ notified \in [Senders -> BOOLEAN]
    /\ rpc \in ReceiverPC
    /\ held \in 0 .. MaxSize
    /\ closed \in BOOLEAN

Init ==
    /\ queue = <<>>
    /\ inflight = 0
    /\ lane = 0
    /\ backlog = 0
    /\ pc = [s \in Senders |-> "idle"]
    /\ size = [s \in Senders |-> 0]
    /\ sent = [s \in Senders |-> 0]
    /\ notified = [s \in Senders |-> FALSE]
    /\ rpc = "idle"
    /\ held = 0
    /\ closed = FALSE

SaturatingSub(a, b) == IF a >= b THEN a - b ELSE 0

Goto(s, l) == pc' = [pc EXCEPT ![s] = l]

-----------------------------------------------------------------------------
(* OutboundSender::send                                                    *)

\* A producer calls send with a frame of encoded size n.
Send(s, n) ==
    /\ pc[s] = "idle"
    /\ sent[s] < MaxSends
    /\ size' = [size EXCEPT ![s] = n]
    /\ sent' = [sent EXCEPT ![s] = @ + 1]
    /\ Goto(s, "subscribe")
    /\ UNCHANGED <<queue, inflight, lane, backlog, notified, rpc, held, closed>>

\* A fresh `gate.notified()` is created and enabled.
Subscribe(s) ==
    /\ pc[s] = "subscribe"
    /\ notified' = [notified EXCEPT ![s] = FALSE]
    /\ Goto(s, "load")
    /\ UNCHANGED <<queue, inflight, lane, backlog, size, sent, rpc, held, closed>>

\* Mutant: the frame's size is taken off instead of added.
RoomSubtracting(s) == inflight = 0 \/ SaturatingSub(inflight, size[s]) <= Budget

Room(s) == inflight = 0 \/ inflight + size[s] <= Budget

\* The load of `inflight` and the room test on the loaded value.
LoadInflight(s) ==
    /\ pc[s] = "load"
    /\ Goto(s, IF Room(s) THEN "try_send" ELSE "parked")
    /\ UNCHANGED <<queue, inflight, lane, backlog, size, sent, notified, rpc,
                   held, closed>>

\* `tx.try_send`: Ok publishes the frame, Full parks, Closed returns Err (the
\* callers then end their task, which drops the clone).
TrySend(s) ==
    /\ pc[s] = "try_send"
    /\ \/ /\ closed
          /\ Goto(s, "gone")
          /\ UNCHANGED queue
       \/ /\ ~closed
          /\ Len(queue) = Capacity
          /\ Goto(s, "parked")
          /\ UNCHANGED queue
       \/ /\ ~closed
          /\ Len(queue) < Capacity
          /\ queue' = Append(queue, [src |-> s, seq |-> sent[s], size |-> size[s]])
          /\ Goto(s, "charge")
    /\ UNCHANGED <<inflight, lane, backlog, size, sent, notified, rpc, held, closed>>

\* Mutant: a frame that went through the zero-inflight hatch is not charged.
ChargeUnlessHatch(s) ==
    /\ pc[s] = "charge"
    /\ inflight' = IF size[s] > Budget THEN inflight ELSE inflight + size[s]
    /\ Goto(s, "idle")
    /\ UNCHANGED <<queue, lane, backlog, size, sent, notified, rpc, held, closed>>

\* `inflight.fetch_add` after the frame has been published.
Charge(s) ==
    /\ pc[s] = "charge"
    /\ inflight' = inflight + size[s]
    /\ Goto(s, "idle")
    /\ UNCHANGED <<queue, lane, backlog, size, sent, notified, rpc, held, closed>>

\* `notified.await` completes and the loop starts over.
Wake(s) ==
    /\ pc[s] = "parked"
    /\ notified[s]
    /\ Goto(s, "subscribe")
    /\ UNCHANGED <<queue, inflight, lane, backlog, size, sent, notified, rpc,
                   held, closed>>

-----------------------------------------------------------------------------
(* OutboundSender::send_priority and dropping a clone                      *)

\* `ptx.try_send`: Full sheds the frame, Closed ends the producer.
SendPriority(s) ==
    /\ pc[s] = "idle"
    /\ sent[s] < MaxSends
    /\ sent' = [sent EXCEPT ![s] = @ + 1]
    /\ \/ /\ closed
          /\ Goto(s, "gone")
          /\ UNCHANGED lane
       \/ /\ ~closed
          /\ lane = LaneCapacity
          /\ UNCHANGED <<pc, lane>>
       \/ /\ ~closed
          /\ lane < LaneCapacity
          /\ lane' = lane + 1
          /\ Goto(s, "lane_charge")
    /\ UNCHANGED <<queue, inflight, backlog, size, notified, rpc, held, closed>>

\* Mutant: the counter is a flag.
ChargeLaneFlag(s) ==
    /\ pc[s] = "lane_charge"
    /\ backlog' = 1
    /\ Goto(s, "idle")
    /\ UNCHANGED <<queue, inflight, lane, size, sent, notified, rpc, held, closed>>

\* `priority_backlog.fetch_add` after the packet has been published.
ChargeLane(s) ==
    /\ pc[s] = "lane_charge"
    /\ backlog' = backlog + 1
    /\ Goto(s, "idle")
    /\ UNCHANGED <<queue, inflight, lane, size, sent, notified, rpc, held, closed>>

\* A producing task ends, or is aborted at its only await point, and drops
\* its clone.
DropSender(s) ==
    /\ pc[s] \in {"idle", "parked"}
    /\ Goto(s, "gone")
    /\ UNCHANGED <<queue, inflight, lane, backlog, size, sent, notified, rpc,
                   held, closed>>

-----------------------------------------------------------------------------
(* OutboundReceiver                                                        *)

\* Mutant: a closed priority lane is waited on instead of falling through.
PollPriorityOnly ==
    /\ rpc = "idle"
    /\ IF lane > 0
         THEN /\ lane' = lane - 1
              /\ rpc' = "lane_release"
         ELSE /\ \E s \in Senders : pc[s] # "gone"
              /\ rpc' = "bulk"
              /\ UNCHANGED lane
    /\ UNCHANGED <<queue, inflight, backlog, notified, held, closed, senderVars>>

\* recv_any polls the priority lane first; an empty (or closed and empty)
\* lane falls through to the bulk lane within the same poll.
PollPriority ==
    /\ rpc = "idle"
    /\ IF lane > 0
         THEN /\ lane' = lane - 1
              /\ rpc' = "lane_release"
         ELSE /\ rpc' = "bulk"
              /\ UNCHANGED lane
    /\ UNCHANGED <<queue, inflight, backlog, notified, held, closed, senderVars>>

\* release_priority
ReleasePriority ==
    /\ rpc = "lane_release"
    /\ backlog' = SaturatingSub(backlog, 1)
    /\ rpc' = "idle"
    /\ UNCHANGED <<queue, inflight, lane, notified, held, closed, senderVars>>

\* recv_any polls the bulk lane: a frame is popped; an empty lane is
\* Pending, and the next poll starts with the priority lane again; a lane
\* whose clones are all gone reports BulkClosed, on which the writer finishes
\* and drops the receiver.
PollBulk ==
    /\ rpc = "bulk"
    /\ \/ /\ queue # <<>>
          /\ queue' = Tail(queue)
          /\ held' = Head(queue).size
          /\ rpc' = "release"
       \/ /\ queue = <<>>
          /\ \E s \in Senders : pc[s] # "gone"
          /\ rpc' = "idle"
          /\ UNCHANGED <<queue, held>>
       \/ /\ queue = <<>>
          /\ \A s \in Senders : pc[s] = "gone"
          /\ rpc' = "drop"
          /\ UNCHANGED <<queue, held>>
    /\ UNCHANGED <<inflight, lane, backlog, notified, closed, senderVars>>

\* Mutant: a wrapping subtraction.
ReleaseWrapping ==
    /\ rpc = "release"
    /\ inflight' = inflight - held
    /\ rpc' = "notify"
    /\ UNCHANGED <<queue, lane, backlog, notified, held, closed, senderVars>>

\* Mutant: a release refunds the largest frame instead of the popped one.
ReleaseLargest ==
    /\ rpc = "release"
    /\ inflight' = SaturatingSub(inflight, MaxSize)
    /\ rpc' = "notify"
    /\ UNCHANGED <<queue, lane, backlog, notified, held, closed, senderVars>>

\* release: the saturating subtraction ...
Release ==
    /\ rpc = "release"
    /\ inflight' = SaturatingSub(inflight, held)
    /\ rpc' = "notify"
    /\ UNCHANGED <<queue, lane, backlog, notified, held, closed, senderVars>>

\* Mutant: notify_one.
NotifyOne ==
    /\ rpc = "notify"
    /\ notified' \in {[notified EXCEPT ![s] = TRUE] : s \in Senders}
    /\ rpc' = "idle"
    /\ UNCHANGED <<queue, inflight, lane, backlog, held, closed, senderVars>>

\* ... and `gate.notify_waiters()`, which fires every live subscription.
Notify ==
    /\ rpc = "notify"
    /\ notified' = [s \in Senders |-> TRUE]
    /\ rpc' = "idle"
    /\ UNCHANGED <<queue, inflight, lane, backlog, held, closed, senderVars>>

\* A socket write fails: the writer leaves its loop and drops the receiver.
WriteFails ==
    /\ rpc = "idle"
    /\ rpc' = "drop"
    /\ UNCHANGED <<queue, inflight, lane, backlog, notified, held, closed, senderVars>>

\* Drop::drop runs before the fields are dropped: it notifies ...
DropNotify ==
    /\ rpc = "drop"
    /\ notified' = [s \in Senders |-> TRUE]
    /\ rpc' = "closed"
    /\ UNCHANGED <<queue, inflight, lane, backlog, held, closed, senderVars>>

\* ... and only then do the channels close, discarding what they held.
\* `inflight` keeps the discarded frames' bytes.
DropChannels ==
    /\ rpc = "closed"
    /\ ~closed
    /\ closed' = TRUE
    /\ queue' = <<>>
    /\ lane' = 0
    /\ UNCHANGED <<inflight, backlog, notified, rpc, held, senderVars>>

-----------------------------------------------------------------------------
SendStep(s) ==
    Subscribe(s) \/ LoadInflight(s) \/ TrySend(s) \/ Charge(s) \/ Wake(s)
        \/ ChargeLane(s)

ReceiverStep ==
    PollPriority \/ ReleasePriority \/ PollBulk \/ Release \/ Notify
        \/ DropNotify \/ DropChannels

Next ==
    \/ \E s \in Senders :
         \/ \E n \in Sizes : Send(s, n)
         \/ SendPriority(s)
         \/ SendStep(s)
         \/ DropSender(s)
    \/ ReceiverStep
    \/ WriteFails

\* Tokio polls every task that is ready: a producer inside `send` and the
\* writer keep taking steps.  Nobody is obliged to send, to end or to fail.
Fairness ==
    /\ \A s \in Senders : WF_vars(SendStep(s))
    /\ WF_vars(ReceiverStep)

Spec == Init /\ [][Next]_vars /\ Fairness
-----------------------------------------------------------------------------
(* Properties                                                              *)

\* The writer is between calls or inside a wait, so no pop is half done.
ReceiverSettled == rpc \in {"idle", "bulk", "lane_release"}

\* What keeps a parked producer parked: the byte budget or the frame count.
Blocked(s) ==
    \/ inflight # 0 /\ inflight + size[s] > Budget
    \/ Len(queue) = Capacity

(* send subscribes to the gate BEFORE it reads `inflight` (queue.rs:109) so  *)
(* that no release slips through the gap: while the writer lives, a producer *)
(* whose wake-up has not fired is one that still has no room.                *)
NoLostWakeup ==
    \A s \in Senders :
        pc[s] = "parked" /\ ~notified[s] /\ ReceiverSettled => Blocked(s)

\* Producers that passed the room test and have not charged yet.
Admitted == {s \in Senders : pc[s] \in {"try_send", "charge"}}

LargerOf(a, b) == IF a >= b THEN a ELSE b

(* The room test and the charge are separate accesses, so producers admitted *)
(* on the same stale reading overshoot the budget together.  The overshoot   *)
(* is bounded: one largest frame per producer above the budget (or above one *)
(* oversize frame, the zero-inflight hatch).                                 *)
InflightBounded ==
    inflight + Cardinality(Admitted) * MaxSize
        <= LargerOf(Budget, MaxSize) + Cardinality(Senders) * MaxSize

\* The bytes of the members of S, one by one, where x weighs w[x] of them.
Bytes(S, w) == {b \in S \X (1 .. MaxSize) : b[2] <= w[b[1]]}

\* The bytes in the bulk channel, and those published and not charged yet.
QueuedBytes ==
    Cardinality(Bytes(DOMAIN queue, [i \in DOMAIN queue |-> queue[i].size]))
UnchargedBytes == Cardinality(Bytes({s \in Senders : pc[s] = "charge"}, size))

(* The budget never under-counts: what sits in the channel, plus a frame the *)
(* writer popped and has not released yet, is covered by `inflight` and by   *)
(* the charges producers are about to make (saturating release included).    *)
NeverUndercounts ==
    inflight + UnchargedBytes
        >= QueuedBytes + (IF rpc = "release" THEN held ELSE 0)

(* Bytes actually waiting behind a frame: the budget (or one oversize frame) *)
(* plus at most one largest frame for every other producer.                  *)
QueuedBytesBounded ==
    QueuedBytes <= LargerOf(Budget, MaxSize) + (Cardinality(Senders) - 1) * MaxSize

(* The byte account is safe on both sides of every race between publish,     *)
(* charge and release: it never under-counts and the overshoot is bounded.   *)
BytesAccounted == NeverUndercounts /\ QueuedBytesBounded

\* Producers that published a packet and have not counted it yet.
LaneCharging == {s \in Senders : pc[s] = "lane_charge"}

(* priority_pending never misses a parked packet whose producer has returned *)
(* from send_priority, although the packet is published before it is counted *)
(* and the writer may un-count it first (saturating).                        *)
PeekNeverMisses ==
    backlog + Cardinality(LaneCharging)
        >= lane + (IF rpc = "lane_release" THEN 1 ELSE 0)

(* A frame accepted by the bulk channel is received, unless the writer gives *)
(* up: the fused wait may not spin on a closed priority lane, and priority   *)
(* traffic may not starve the bulk lane for good.                            *)
AcceptedIsReceived ==
    \A s \in Senders, n \in 1 .. MaxSends :
        (\E i \in 1 .. Len(queue) : queue[i].src = s /\ queue[i].seq = n)
            ~> (\A i \in 1 .. Len(queue) : queue[i].src # s \/ queue[i].seq # n)
=============================================================================
