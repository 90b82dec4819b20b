--------------------------- MODULE TransportProofs ---------------------------
(* The way out of a transport: the outbound queue, for every number of       *)
(* producers, every set of frame sizes, every budget and every capacity; and *)
(* the coalescing writer behind it, for every frame size, batch size and     *)
(* chunk size.  The integrity of the writer's bulk byte stream is about what *)
(* FlattenSeq computes, so the second part begins with a proof, by induction *)
(* on the length, that flattening distributes over concatenation.            *)
EXTENDS OutboundQueue, FrameWriter, FiniteSetTheorems, FunctionTheorems,
        SequenceTheorems, WellFoundedInduction, TLAPS

(* Every variable keeps its type: `inflight` and `backlog` never go below    *)
(* zero, whatever the writer releases and in whatever order.                 *)
THEOREM TypeCorrect == Spec => []TypeOK
<1>1. Init => TypeOK
  <2> SUFFICES ASSUME Init PROVE TypeOK
    OBVIOUS
  <2>1. queue \in Seq(Item) /\ lane \in 0 .. LaneCapacity
    BY BoundsAssumption DEF Init
  <2>2. size \in [Senders -> 0 .. MaxSize] /\ sent \in [Senders -> 0 .. MaxSends]
    BY SizesAssumption, BoundsAssumption DEF Init
  <2>3. held \in 0 .. MaxSize
    BY SizesAssumption DEF Init
  <2> QED
    BY <2>1, <2>2, <2>3 DEF Init, TypeOK, SenderPC, ReceiverPC
<1>2. TypeOK /\ [Next]_vars => TypeOK'
  <2> SUFFICES ASSUME TypeOK, [Next]_vars PROVE TypeOK'
    OBVIOUS
  <2> USE SizesAssumption, BoundsAssumption DEF TypeOK, SenderPC, ReceiverPC, Goto, senderVars
  <2>1. ASSUME NEW s \in Senders, NEW n \in Sizes, Send(s, n) PROVE TypeOK'
    BY <2>1 DEF Send
  <2>2. ASSUME NEW s \in Senders, Subscribe(s) PROVE TypeOK'
    BY <2>2 DEF Subscribe
  <2>3. ASSUME NEW s \in Senders, LoadInflight(s) PROVE TypeOK'
    BY <2>3 DEF LoadInflight
  <2>4. ASSUME NEW s \in Senders, TrySend(s) PROVE TypeOK'
    <3>1. CASE UNCHANGED queue
      BY <2>4, <3>1 DEF TrySend
    <3>2. CASE queue' = Append(queue, [src |-> s, seq |-> sent[s], size |-> size[s]])
      <4>1. [src |-> s, seq |-> sent[s], size |-> size[s]] \in Item
        BY DEF Item
      <4>2. queue' \in Seq(Item)
        BY <3>2, <4>1
      <4> QED BY <2>4, <4>2 DEF TrySend
    <3> QED BY <2>4, <3>1, <3>2 DEF TrySend
  <2>5. ASSUME NEW s \in Senders, Charge(s) PROVE TypeOK'
    BY <2>5 DEF Charge
  <2>6. ASSUME NEW s \in Senders, Wake(s) PROVE TypeOK'
    BY <2>6 DEF Wake
  <2>7. ASSUME NEW s \in Senders, SendPriority(s) PROVE TypeOK'
    <3>1. lane' \in 0 .. LaneCapacity
      BY <2>7 DEF SendPriority
    <3>2. pc' \in [Senders -> SenderPC]
      BY <2>7 DEF SendPriority
    <3>3. sent' \in [Senders -> 0 .. MaxSends]
      BY <2>7 DEF SendPriority
    <3> QED BY <2>7, <3>1, <3>2, <3>3 DEF SendPriority
  <2>8. ASSUME NEW s \in Senders, ChargeLane(s) PROVE TypeOK'
    BY <2>8 DEF ChargeLane
  <2>9. ASSUME NEW s \in Senders, DropSender(s) PROVE TypeOK'
    BY <2>9 DEF DropSender
  <2>10. CASE PollPriority
    BY <2>10 DEF PollPriority
  <2>11. CASE ReleasePriority
    BY <2>11 DEF ReleasePriority, SaturatingSub
  <2>12. CASE PollBulk
    <3>1. CASE queue # <<>> /\ queue' = Tail(queue) /\ held' = Head(queue).size
      <4>1. Head(queue) \in Item /\ queue' \in Seq(Item)
        BY <3>1
      <4>2. held' \in 0 .. MaxSize
        BY <3>1, <4>1 DEF Item
      <4> QED BY <2>12, <4>1, <4>2 DEF PollBulk
    <3>2. CASE UNCHANGED <<queue, held>>
      BY <2>12, <3>2 DEF PollBulk
    <3> QED BY <2>12, <3>1, <3>2 DEF PollBulk
  <2>13. CASE Release
    BY <2>13 DEF Release, SaturatingSub
  <2>14. CASE Notify
    BY <2>14 DEF Notify
  <2>15. CASE WriteFails
    BY <2>15 DEF WriteFails
  <2>16. CASE DropNotify
    BY <2>16 DEF DropNotify
  <2>17. CASE DropChannels
    BY <2>17 DEF DropChannels
  <2>18. CASE UNCHANGED vars
    BY <2>18 DEF vars
  <2> QED
    BY <2>1, <2>2, <2>3, <2>4, <2>5, <2>6, <2>7, <2>8, <2>9, <2>10, <2>11,
       <2>12, <2>13, <2>14, <2>15, <2>16, <2>17, <2>18
       DEF Next, SendStep, ReceiverStep
<1> QED BY <1>1, <1>2, PTL DEF Spec
-----------------------------------------------------------------------------
(* NoLostWakeup is inductive with TypeOK: while a pop is half done its       *)
(* notification is still to come, and every other step leaves `inflight` and *)
(* the channel at least as full as the parked producer found them.           *)
LEMMA NoLostWakeupStep ==
    TypeOK /\ NoLostWakeup /\ [Next]_vars => NoLostWakeup'
<1> SUFFICES ASSUME TypeOK, NoLostWakeup, [Next]_vars,
                    NEW t \in Senders,
                    (pc[t] = "parked" /\ ~notified[t] /\ ReceiverSettled)'
             PROVE  Blocked(t)'
  BY DEF NoLostWakeup
<1> USE SizesAssumption, BoundsAssumption
        DEF TypeOK, Goto, senderVars, ReceiverSettled, Blocked
<1>1. ASSUME NEW s \in Senders, NEW n \in Sizes, Send(s, n) PROVE Blocked(t)'
  BY <1>1 DEF Send, NoLostWakeup
<1>2. ASSUME NEW s \in Senders, Subscribe(s) PROVE Blocked(t)'
  BY <1>2 DEF Subscribe, NoLostWakeup
<1>3. ASSUME NEW s \in Senders, LoadInflight(s) PROVE Blocked(t)'
  BY <1>3 DEF LoadInflight, Room, NoLostWakeup
<1>4. ASSUME NEW s \in Senders, TrySend(s) PROVE Blocked(t)'
  <2>1. CASE t = s
    BY <1>4, <2>1 DEF TrySend
  <2>2. CASE t # s
    <3>1. Blocked(t)
      BY <1>4, <2>2 DEF TrySend, NoLostWakeup
    <3>2. CASE UNCHANGED queue
      BY <1>4, <3>1, <3>2 DEF TrySend
    <3>3. CASE /\ Len(queue) < Capacity
               /\ queue' = Append(queue, [src |-> s, seq |-> sent[s], size |-> size[s]])
      <4>1. inflight # 0 /\ inflight + size[t] > Budget
        BY <3>1, <3>3
      <4> QED BY <1>4, <4>1 DEF TrySend
    <3> QED BY <1>4, <3>2, <3>3 DEF TrySend
  <2> QED BY <2>1, <2>2
<1>5. ASSUME NEW s \in Senders, Charge(s) PROVE Blocked(t)'
  BY <1>5 DEF Charge, NoLostWakeup
<1>6. ASSUME NEW s \in Senders, Wake(s) PROVE Blocked(t)'
  BY <1>6 DEF Wake, NoLostWakeup
<1>7. ASSUME NEW s \in Senders, SendPriority(s) PROVE Blocked(t)'
  BY <1>7 DEF SendPriority, NoLostWakeup
<1>8. ASSUME NEW s \in Senders, ChargeLane(s) PROVE Blocked(t)'
  BY <1>8 DEF ChargeLane, NoLostWakeup
<1>9. ASSUME NEW s \in Senders, DropSender(s) PROVE Blocked(t)'
  BY <1>9 DEF DropSender, NoLostWakeup
<1>10. CASE PollPriority
  BY <1>10 DEF PollPriority, NoLostWakeup
<1>11. CASE ReleasePriority
  BY <1>11 DEF ReleasePriority, NoLostWakeup
<1>12. CASE PollBulk
  BY <1>12 DEF PollBulk, NoLostWakeup
<1>13. CASE Release
  BY <1>13 DEF Release
<1>14. CASE Notify
  BY <1>14 DEF Notify
<1>15. CASE WriteFails
  BY <1>15 DEF WriteFails
<1>16. CASE DropNotify
  BY <1>16 DEF DropNotify
<1>17. CASE DropChannels
  BY <1>17 DEF DropChannels
<1>18. CASE UNCHANGED vars
  BY <1>18 DEF vars, NoLostWakeup
<1> QED
  BY <1>1, <1>2, <1>3, <1>4, <1>5, <1>6, <1>7, <1>8, <1>9, <1>10, <1>11,
     <1>12, <1>13, <1>14, <1>15, <1>16, <1>17, <1>18
     DEF Next, SendStep, ReceiverStep

(* While the writer lives, a producer parked on the gate whose wake-up has   *)
(* not fired still has no room: `send` cannot sleep through a release.       *)
THEOREM WakeupsAreNotLost == Spec => []NoLostWakeup
<1>1. Init => NoLostWakeup
  BY DEF Init, NoLostWakeup
<1> QED BY <1>1, TypeCorrect, NoLostWakeupStep, PTL DEF Spec
-----------------------------------------------------------------------------
(* Products of a counter and a constant, the only non-linear facts needed.   *)
LEMMA TimesStep ==
    ASSUME NEW c \in Int, NEW m \in Nat
    PROVE  /\ c * m \in Int
           /\ (c + 1) * m = c * m + m
           /\ (c - 1) * m = c * m - m
  OBVIOUS

(* More producers weigh at least as much as fewer.                           *)
LEMMA TimesMonotone ==
    ASSUME NEW c \in Nat, NEW d \in Nat, NEW m \in Nat, c <= d
    PROVE  c * m <= d * m
  OBVIOUS

(* Two bounded quantities add up to a bounded one.                           *)
LEMMA AddBounds ==
    ASSUME NEW a \in Int, NEW b \in Int, NEW x \in Int, NEW y \in Int,
           a <= x, b <= y
    PROVE  a + b <= x + y
  OBVIOUS

(* A charge trades one admitted producer for the bytes of its frame.         *)
LEMMA TradeBounds ==
    ASSUME NEW a \in Int, NEW b \in Int, NEW x \in Int, NEW m \in Int,
           NEW p \in Int, NEW q \in Int,
           a + p <= x, b <= a + m, q = p - m
    PROVE  b + q <= x
  OBVIOUS

(* Sets of producers are finite and no larger than Senders.                  *)
LEMMA SenderSets ==
    ASSUME NEW S \in SUBSET Senders
    PROVE  /\ IsFiniteSet(S)
           /\ Cardinality(S) \in Nat
           /\ Cardinality(Senders) \in Nat
           /\ Cardinality(S) <= Cardinality(Senders)
  BY SendersAssumption, FS_Subset, FS_CardinalityType

(* A step that leaves `inflight` no larger and the admitted producers no     *)
(* more numerous keeps the bound.                                            *)
LEMMA BoundShrinks ==
    ASSUME TypeOK, TypeOK', InflightBounded,
           inflight' <= inflight, Admitted' \subseteq Admitted
    PROVE  InflightBounded'
<1>1. Cardinality(Admitted') <= Cardinality(Admitted)
  BY FS_Subset, SenderSets DEF Admitted
<1>2. /\ Cardinality(Admitted) \in Nat
      /\ Cardinality(Admitted') \in Nat
      /\ Cardinality(Senders) \in Nat
  BY SenderSets DEF Admitted
<1>3. Cardinality(Admitted') * MaxSize <= Cardinality(Admitted) * MaxSize
  BY <1>1, <1>2, TimesMonotone, SizesAssumption
<1>4. /\ Cardinality(Admitted) * MaxSize \in Int
      /\ Cardinality(Admitted') * MaxSize \in Int
      /\ Cardinality(Senders) * MaxSize \in Int
      /\ LargerOf(Budget, MaxSize) \in Int
  BY <1>2, TimesStep, SizesAssumption, BoundsAssumption DEF LargerOf
<1> QED
  BY <1>3, <1>4 DEF InflightBounded, TypeOK

(* Room tests, charges and releases keep inflight plus the weight of the     *)
(* admitted producers under the bound.                                       *)
LEMMA InflightBoundedStep ==
    TypeOK /\ TypeOK' /\ InflightBounded /\ [Next]_vars => InflightBounded'
<1> SUFFICES ASSUME TypeOK, TypeOK', InflightBounded, [Next]_vars
             PROVE  InflightBounded'
  OBVIOUS
<1> DEFINE c == Cardinality(Admitted)
           N == Cardinality(Senders)
<1>0. /\ c \in Nat /\ N \in Nat /\ IsFiniteSet(Admitted)
      /\ MaxSize \in Nat /\ Budget \in Nat
      /\ c * MaxSize \in Int /\ N * MaxSize \in Int
      /\ LargerOf(Budget, MaxSize) \in Nat
      /\ LargerOf(Budget, MaxSize) >= Budget
      /\ LargerOf(Budget, MaxSize) >= MaxSize
  BY SenderSets, TimesStep, SizesAssumption, BoundsAssumption
     DEF Admitted, LargerOf
<1>1. ASSUME NEW s \in Senders, LoadInflight(s) PROVE InflightBounded'
  <2>1. CASE Room(s)
    <3>1. Admitted' = Admitted \cup {s} /\ s \notin Admitted
      BY <1>1, <2>1 DEF LoadInflight, Goto, Admitted, TypeOK
    <3>2. Cardinality(Admitted') = c + 1
      BY <1>0, <3>1, FS_AddElement
    <3>3. c + 1 <= N
      BY <3>2, SenderSets DEF Admitted
    <3>4. (c + 1) * MaxSize <= N * MaxSize
      BY <1>0, <3>3, TimesMonotone
    <3>5. inflight' <= LargerOf(Budget, MaxSize)
      BY <1>0, <1>1, <2>1 DEF LoadInflight, Room, TypeOK
    <3>6. (c + 1) * MaxSize \in Int
      BY <1>0, TimesStep
    <3>7. inflight' + (c + 1) * MaxSize <= LargerOf(Budget, MaxSize) + N * MaxSize
      <4>1. inflight' \in Int
        BY DEF TypeOK
      <4> HIDE DEF c, N
      <4> QED BY <1>0, <3>4, <3>5, <3>6, <4>1, AddBounds
    <3> QED
      BY <3>2, <3>7 DEF InflightBounded
  <2>2. CASE ~Room(s)
    <3>1. Admitted' \subseteq Admitted /\ inflight' <= inflight
      BY <1>1, <2>2 DEF LoadInflight, Goto, Admitted, TypeOK
    <3> QED BY <3>1, BoundShrinks
  <2> QED BY <2>1, <2>2
<1>2. ASSUME NEW s \in Senders, Charge(s) PROVE InflightBounded'
  <2>1. Admitted' = Admitted \ {s} /\ s \in Admitted
    BY <1>2 DEF Charge, Goto, Admitted, TypeOK
  <2>2. Cardinality(Admitted') = c - 1
    BY <1>0, <2>1, FS_RemoveElement
  <2>3. (c - 1) * MaxSize = c * MaxSize - MaxSize
    BY <1>0, TimesStep
  <2>4. inflight' <= inflight + MaxSize
    BY <1>0, <1>2 DEF Charge, TypeOK
  <2>5. inflight + c * MaxSize <= LargerOf(Budget, MaxSize) + N * MaxSize
    BY DEF InflightBounded
  <2>6. inflight' + (c - 1) * MaxSize <= LargerOf(Budget, MaxSize) + N * MaxSize
    <3>1. inflight \in Int /\ inflight' \in Int /\ (c - 1) * MaxSize \in Int
          /\ LargerOf(Budget, MaxSize) + N * MaxSize \in Int
      <4>1. inflight \in Int /\ inflight' \in Int
        BY DEF TypeOK
      <4> HIDE DEF c, N
      <4>2. c - 1 \in Int
        BY <1>0
      <4>3. (c - 1) * MaxSize \in Int
        BY <1>0, <4>2, TimesStep
      <4> QED BY <1>0, <4>1, <4>3
    <3> HIDE DEF c, N
    <3> QED BY <1>0, <2>3, <2>4, <2>5, <3>1, TradeBounds
  <2> QED
    BY <2>2, <2>6 DEF InflightBounded
<1>3. ASSUME NEW s \in Senders,
             \/ \E n \in Sizes : Send(s, n)
             \/ Subscribe(s) \/ TrySend(s) \/ Wake(s) \/ SendPriority(s)
             \/ ChargeLane(s) \/ DropSender(s)
      PROVE  InflightBounded'
  <2>1. inflight' <= inflight
    BY <1>3 DEF Send, Subscribe, TrySend, Wake, SendPriority, ChargeLane,
                DropSender, TypeOK
  <2>2. Admitted' \subseteq Admitted
    BY <1>3 DEF Send, Subscribe, TrySend, Wake, SendPriority, ChargeLane,
                DropSender, TypeOK, Goto, Admitted
  <2> QED BY <2>1, <2>2, BoundShrinks
<1>4. CASE ReceiverStep \/ WriteFails \/ UNCHANGED vars
  <2>1. inflight' <= inflight
    BY <1>4, SizesAssumption
       DEF ReceiverStep, PollPriority, ReleasePriority, PollBulk, Release,
           Notify, DropNotify, DropChannels, WriteFails, vars, TypeOK,
           SaturatingSub
  <2>2. Admitted' \subseteq Admitted
    BY <1>4
       DEF ReceiverStep, PollPriority, ReleasePriority, PollBulk, Release,
           Notify, DropNotify, DropChannels, WriteFails, vars, senderVars,
           Admitted
  <2> QED BY <2>1, <2>2, BoundShrinks
<1> QED
  BY <1>1, <1>2, <1>3, <1>4 DEF Next, SendStep

(* Producers admitted on one stale reading of `inflight` overshoot the       *)
(* budget by at most one largest frame each, whatever the interleaving of    *)
(* room tests, publications, charges and releases.                           *)
THEOREM OvershootIsBounded == Spec => []InflightBounded
<1>1. Init => InflightBounded
  <2> SUFFICES ASSUME Init PROVE InflightBounded
    OBVIOUS
  <2>1. Admitted = {}
    BY DEF Init, Admitted
  <2>2. Cardinality(Admitted) = 0 /\ inflight = 0
    BY <2>1, FS_EmptySet DEF Init
  <2>3. Cardinality(Senders) * MaxSize >= 0 * MaxSize
    BY SenderSets, TimesMonotone, SizesAssumption
  <2>4. LargerOf(Budget, MaxSize) \in Nat /\ Cardinality(Senders) * MaxSize \in Int
    BY SenderSets, TimesStep, SizesAssumption, BoundsAssumption DEF LargerOf
  <2> QED BY <2>2, <2>3, <2>4, SizesAssumption DEF InflightBounded
<1> QED BY <1>1, TypeCorrect, InflightBoundedStep, PTL DEF Spec

-----------------------------------------------------------------------------
(* Publications, counts and un-counts of priority packets keep the counter   *)
(* at or above what is parked.                                               *)
LEMMA PeekStep ==
    TypeOK /\ TypeOK' /\ PeekNeverMisses /\ [Next]_vars => PeekNeverMisses'
<1> SUFFICES ASSUME TypeOK, TypeOK', PeekNeverMisses, [Next]_vars
             PROVE  PeekNeverMisses'
  OBVIOUS
<1> DEFINE k == Cardinality(LaneCharging)
<1>0. k \in Nat /\ IsFiniteSet(LaneCharging)
  BY SenderSets DEF LaneCharging
<1>1. ASSUME NEW s \in Senders, SendPriority(s) PROVE PeekNeverMisses'
  <2>1. CASE lane' = lane + 1 /\ pc' = [pc EXCEPT ![s] = "lane_charge"]
    <3>1. LaneCharging' = LaneCharging \cup {s} /\ s \notin LaneCharging
      BY <1>1, <2>1 DEF SendPriority, LaneCharging, TypeOK
    <3>2. Cardinality(LaneCharging') = k + 1
      BY <1>0, <3>1, FS_AddElement
    <3> QED
      BY <1>0, <1>1, <2>1, <3>2 DEF SendPriority, PeekNeverMisses, TypeOK
  <2>2. CASE UNCHANGED lane
    <3>1. LaneCharging' = LaneCharging
      BY <1>1, <2>2 DEF SendPriority, LaneCharging, TypeOK, Goto
    <3> QED
      BY <1>1, <2>2, <3>1 DEF SendPriority, PeekNeverMisses
  <2> QED BY <1>1, <2>1, <2>2 DEF SendPriority, Goto
<1>2. ASSUME NEW s \in Senders, ChargeLane(s) PROVE PeekNeverMisses'
  <2>1. LaneCharging' = LaneCharging \ {s} /\ s \in LaneCharging
    BY <1>2 DEF ChargeLane, LaneCharging, TypeOK, Goto
  <2>2. Cardinality(LaneCharging') = k - 1
    BY <1>0, <2>1, FS_RemoveElement
  <2> QED
    BY <1>0, <1>2, <2>2 DEF ChargeLane, PeekNeverMisses, TypeOK
<1>3. ASSUME NEW s \in Senders,
             \/ \E n \in Sizes : Send(s, n)
             \/ Subscribe(s) \/ LoadInflight(s) \/ TrySend(s) \/ Charge(s)
             \/ Wake(s) \/ DropSender(s)
      PROVE  PeekNeverMisses'
  <2>1. LaneCharging' = LaneCharging
    BY <1>3 DEF Send, Subscribe, LoadInflight, TrySend, Charge, Wake,
                DropSender, TypeOK, Goto, LaneCharging
  <2>2. UNCHANGED <<lane, backlog, rpc>>
    BY <1>3 DEF Send, Subscribe, LoadInflight, TrySend, Charge, Wake, DropSender
  <2> QED BY <2>1, <2>2 DEF PeekNeverMisses
<1>4. CASE ReceiverStep \/ WriteFails \/ UNCHANGED vars
  <2>1. LaneCharging' = LaneCharging
    BY <1>4
       DEF ReceiverStep, PollPriority, ReleasePriority, PollBulk, Release,
           Notify, DropNotify, DropChannels, WriteFails, vars, senderVars,
           LaneCharging
  <2>2. Cardinality(LaneCharging') = k
    BY <2>1
  <2> HIDE DEF k
  <2>3. backlog + k >= lane + (IF rpc = "lane_release" THEN 1 ELSE 0)
    BY DEF PeekNeverMisses, k
  <2>4. backlog' + k >= lane' + (IF rpc' = "lane_release" THEN 1 ELSE 0)
    <3>1. CASE PollPriority
      <4>1. \/ lane' = lane - 1 /\ rpc' = "lane_release"
            \/ lane' = lane /\ rpc' = "bulk"
        BY <3>1 DEF PollPriority
      <4>2. rpc = "idle" /\ backlog' = backlog
        BY <3>1 DEF PollPriority
      <4>3. backlog \in Int /\ lane \in Int /\ k \in Int
        BY <1>0, BoundsAssumption DEF TypeOK
      <4>4. backlog + k >= lane
        BY <2>3, <4>2, <4>3
      <4>5. CASE lane' = lane - 1 /\ rpc' = "lane_release"
        BY <4>2, <4>3, <4>4, <4>5
      <4>6. CASE lane' = lane /\ rpc' = "bulk"
        BY <4>2, <4>3, <4>4, <4>6
      <4> QED BY <4>1, <4>5, <4>6
    <3>2. CASE ReleasePriority
      BY <1>0, <2>3, <3>2 DEF ReleasePriority, SaturatingSub, TypeOK
    <3>3. CASE DropChannels
      BY <1>0, <2>3, <3>3 DEF DropChannels, TypeOK
    <3>4. CASE PollBulk \/ Release \/ Notify \/ DropNotify \/ WriteFails
               \/ UNCHANGED vars
      <4>1. (UNCHANGED <<lane, backlog>> /\ rpc' # "lane_release") \/ UNCHANGED vars
        BY <3>4 DEF PollBulk, Release, Notify, DropNotify, WriteFails, vars
      <4>2. CASE UNCHANGED <<lane, backlog>> /\ rpc' # "lane_release"
        BY <1>0, <2>3, <4>2, BoundsAssumption DEF TypeOK
      <4>3. CASE UNCHANGED vars
        BY <2>3, <4>3 DEF vars
      <4> QED BY <4>1, <4>2, <4>3
    <3> QED BY <1>4, <3>1, <3>2, <3>3, <3>4 DEF ReceiverStep
  <2> QED BY <2>2, <2>4 DEF PeekNeverMisses
<1> QED
  BY <1>1, <1>2, <1>3, <1>4 DEF Next, SendStep

(* Once every producer has returned from send_priority, `priority_pending`   *)
(* is true whenever a packet is parked.                                      *)
THEOREM PeekIsConservative == Spec => []PeekNeverMisses
<1>1. Init => PeekNeverMisses
  <2> SUFFICES ASSUME Init PROVE PeekNeverMisses
    OBVIOUS
  <2>1. LaneCharging = {}
    BY DEF Init, LaneCharging
  <2> QED BY <2>1, FS_EmptySet DEF Init, PeekNeverMisses
<1> QED BY <1>1, TypeCorrect, PeekStep, PTL DEF Spec
-----------------------------------------------------------------------------
(* Bytes counted one by one.  The sets of bytes are finite, a new member     *)
(* adds its weight, and no member weighs more than MaxSize.                  *)
LEMMA BytesFinite ==
    ASSUME NEW S, IsFiniteSet(S), NEW w
    PROVE  /\ IsFiniteSet(Bytes(S, w))
           /\ Cardinality(Bytes(S, w)) \in Nat
           /\ Cardinality(Bytes(S, w)) <= Cardinality(S) * MaxSize
<1>1. IsFiniteSet(1 .. MaxSize) /\ Cardinality(1 .. MaxSize) = MaxSize
  BY FS_Interval, SizesAssumption
<1>2. /\ IsFiniteSet(S \X (1 .. MaxSize))
      /\ Cardinality(S \X (1 .. MaxSize)) = Cardinality(S) * MaxSize
  BY <1>1, FS_Product
<1>3. Bytes(S, w) \in SUBSET (S \X (1 .. MaxSize))
  BY DEF Bytes
<1> QED BY <1>2, <1>3, FS_Subset, FS_CardinalityType

LEMMA BytesOfOne ==
    ASSUME NEW x, NEW w, w[x] \in 0 .. MaxSize
    PROVE  /\ IsFiniteSet(Bytes({x}, w))
           /\ Cardinality(Bytes({x}, w)) = w[x]
<1>1. Bytes({x}, w) = {x} \X (1 .. w[x])
  BY SizesAssumption DEF Bytes
<1>2. IsFiniteSet(1 .. w[x]) /\ Cardinality(1 .. w[x]) = w[x]
  <2>1. 1 \in Int /\ w[x] \in Int /\ w[x] >= 0
    BY SizesAssumption
  <2>2. /\ IsFiniteSet(1 .. w[x])
        /\ Cardinality(1 .. w[x]) = IF 1 > w[x] THEN 0 ELSE w[x] - 1 + 1
    BY <2>1, FS_Interval
  <2> QED BY <2>1, <2>2
<1>3. IsFiniteSet({x}) /\ Cardinality({x}) = 1
  BY FS_Singleton
<1>4. Cardinality({x} \X (1 .. w[x])) = 1 * w[x]
  BY <1>2, <1>3, FS_Product
<1>5. 1 * w[x] = w[x]
  BY SizesAssumption
<1> QED BY <1>1, <1>2, <1>3, <1>4, <1>5, FS_Product

LEMMA BytesAdd ==
    ASSUME NEW S, IsFiniteSet(S), NEW w, NEW x, x \notin S,
           w[x] \in 0 .. MaxSize
    PROVE  Cardinality(Bytes(S \cup {x}, w)) = Cardinality(Bytes(S, w)) + w[x]
<1>1. Bytes(S \cup {x}, w) = Bytes(S, w) \cup Bytes({x}, w)
  BY DEF Bytes
<1>2. Bytes(S, w) \cap Bytes({x}, w) = {}
  BY DEF Bytes
<1>3. Cardinality({}) = 0
  BY FS_EmptySet
<1>4. /\ IsFiniteSet(Bytes(S, w)) /\ Cardinality(Bytes(S, w)) \in Nat
      /\ IsFiniteSet(Bytes({x}, w)) /\ Cardinality(Bytes({x}, w)) = w[x]
  BY BytesFinite, BytesOfOne
<1>5. Cardinality(Bytes(S, w) \cup Bytes({x}, w))
        = Cardinality(Bytes(S, w)) + Cardinality(Bytes({x}, w)) - Cardinality({})
  BY <1>2, <1>4, FS_Union
<1>6. w[x] \in Int
  BY SizesAssumption
<1>7. Cardinality(Bytes(S, w)) + w[x] - 0 = Cardinality(Bytes(S, w)) + w[x]
  BY <1>4, <1>6
<1>8. Cardinality(Bytes(S \cup {x}, w)) = Cardinality(Bytes(S, w)) + w[x] - 0
  BY <1>1, <1>3, <1>4, <1>5, Zenon
<1> QED BY <1>7, <1>8, Zenon

(* Only the weights of the members matter.                                   *)
LEMMA BytesSame ==
    ASSUME NEW S, NEW v, NEW w, \A x \in S : v[x] = w[x]
    PROVE  Bytes(S, v) = Bytes(S, w)
  BY DEF Bytes

(* Fewer members weigh no more.                                              *)
LEMMA BytesSubset ==
    ASSUME NEW S, IsFiniteSet(S), NEW T \in SUBSET S, NEW w
    PROVE  Cardinality(Bytes(T, w)) <= Cardinality(Bytes(S, w))
  BY BytesFinite, FS_Subset DEF Bytes

(* Members moved down by one place weigh what they weighed.                  *)
LEMMA BytesShift ==
    ASSUME NEW n \in Nat, NEW v, NEW w,
           \A i \in 1 .. n : v[i] = w[i + 1]
    PROVE  Cardinality(Bytes(1 .. n, v)) = Cardinality(Bytes(2 .. n + 1, w))
<1> DEFINE A == Bytes(1 .. n, v)
           B == Bytes(2 .. n + 1, w)
           f == [b \in A |-> <<b[1] + 1, b[2]>>]
<1>1. f \in [A -> B]
  <2> SUFFICES ASSUME NEW b \in A PROVE <<b[1] + 1, b[2]>> \in B
    BY Zenon
  <2>1. b[1] \in 1 .. n /\ b[2] \in 1 .. MaxSize /\ b[2] <= v[b[1]]
    BY DEF Bytes
  <2>2. b[1] + 1 \in 2 .. n + 1 /\ b[2] <= w[b[1] + 1]
    BY <2>1
  <2> QED BY <2>1, <2>2 DEF Bytes
<1>2. \A a, b \in A : f[a] = f[b] => a = b
  <2> SUFFICES ASSUME NEW a \in A, NEW b \in A, f[a] = f[b] PROVE a = b
    OBVIOUS
  <2>1. /\ a = <<a[1], a[2]>> /\ b = <<b[1], b[2]>>
        /\ a[1] \in Int /\ b[1] \in Int
    BY DEF Bytes
  <2>2. a[1] + 1 = b[1] + 1 /\ a[2] = b[2]
    BY <1>1
  <2>3. a[1] = b[1]
    BY <2>1, <2>2
  <2> QED BY <2>1, <2>2, <2>3
<1>3. \A c \in B : \E a \in A : f[a] = c
  <2> SUFFICES ASSUME NEW c \in B PROVE \E a \in A : f[a] = c
    OBVIOUS
  <2>1. /\ c = <<c[1], c[2]>> /\ c[1] \in 2 .. n + 1
        /\ c[2] \in 1 .. MaxSize /\ c[2] <= w[c[1]]
    BY DEF Bytes
  <2>2. /\ c[1] - 1 \in 1 .. n /\ (c[1] - 1) + 1 = c[1]
    BY <2>1
  <2>3. c[2] <= v[c[1] - 1]
    BY <2>1, <2>2
  <2>4. <<c[1] - 1, c[2]>> \in A
    BY <2>1, <2>2, <2>3 DEF Bytes
  <2>5. f[<<c[1] - 1, c[2]>>] = c
    BY <2>1, <2>2, <2>4
  <2> QED BY <2>4, <2>5
<1>4. f \in Bijection(A, B)
  <2> HIDE DEF A, B, f
  <2> QED BY <1>1, <1>2, <1>3, Fun_IsBij
<1>5. IsFiniteSet(A)
  BY FS_Interval, BytesFinite
<1>6. ExistsBijection(A, B)
  <2> HIDE DEF A, B, f
  <2> QED BY <1>4 DEF ExistsBijection
<1> QED BY <1>5, <1>6, FS_Bijection

(* An appended frame adds its size to the channel, a popped one takes it     *)
(* off.                                                                      *)
LEMMA QueuedTyped ==
    ASSUME NEW q \in Seq(Item)
    PROVE  /\ Len(q) \in Nat /\ DOMAIN q = 1 .. Len(q)
           /\ IsFiniteSet(DOMAIN q)
           /\ \A i \in DOMAIN q : q[i].size \in 0 .. MaxSize
<1>1. Len(q) \in Nat /\ DOMAIN q = 1 .. Len(q)
  OBVIOUS
<1>2. \A i \in DOMAIN q : q[i] \in Item
  OBVIOUS
<1> QED BY <1>1, <1>2, FS_Interval DEF Item

SizesOf(q) == [i \in DOMAIN q |-> q[i].size]

LEMMA QueuedAppend ==
    ASSUME NEW q \in Seq(Item), NEW x \in Item
    PROVE  /\ Append(q, x) \in Seq(Item)
           /\ Cardinality(Bytes(DOMAIN Append(q, x), SizesOf(Append(q, x))))
                = Cardinality(Bytes(DOMAIN q, SizesOf(q))) + x.size
<1> DEFINE r == Append(q, x)
           n == Len(q)
<1>1. /\ r \in Seq(Item) /\ n \in Nat
      /\ DOMAIN r = (1 .. n) \cup {n + 1}
      /\ DOMAIN q = 1 .. n
      /\ n + 1 \notin 1 .. n
  <2>1. r \in Seq(Item) /\ n \in Nat /\ Len(r) = n + 1
    OBVIOUS
  <2>2. DOMAIN r = 1 .. Len(r) /\ DOMAIN q = 1 .. n
    BY <2>1
  <2> HIDE DEF r, n
  <2>3. 1 .. n + 1 = (1 .. n) \cup {n + 1} /\ n + 1 \notin 1 .. n
    BY <2>1
  <2> QED BY <2>1, <2>2, <2>3
<1>2. r[n + 1] = x /\ \A i \in 1 .. n : r[i] = q[i]
  OBVIOUS
<1>3. x.size \in 0 .. MaxSize
  BY DEF Item
<1> HIDE DEF r, n
<1>4. SizesOf(r)[n + 1] = x.size
  BY <1>1, <1>2 DEF SizesOf
<1>5. \A i \in 1 .. n : SizesOf(r)[i] = SizesOf(q)[i]
  BY <1>1, <1>2 DEF SizesOf
<1>6. Bytes(1 .. n, SizesOf(r)) = Bytes(1 .. n, SizesOf(q))
  BY <1>5, BytesSame
<1>7. IsFiniteSet(1 .. n)
  BY <1>1, FS_Interval
<1>8. Cardinality(Bytes((1 .. n) \cup {n + 1}, SizesOf(r)))
        = Cardinality(Bytes(1 .. n, SizesOf(r))) + SizesOf(r)[n + 1]
  <2> DEFINE D == 1 .. n
             k == n + 1
             w == SizesOf(r)
  <2>1. IsFiniteSet(D) /\ k \notin D /\ w[k] \in 0 .. MaxSize
    BY <1>1, <1>3, <1>4, <1>7
  <2> HIDE DEF D, k, w
  <2>2. Cardinality(Bytes(D \cup {k}, w)) = Cardinality(Bytes(D, w)) + w[k]
    BY <2>1, BytesAdd
  <2> QED BY <2>2 DEF D, k, w
<1>9. Cardinality(Bytes(DOMAIN r, SizesOf(r)))
        = Cardinality(Bytes(DOMAIN q, SizesOf(q))) + x.size
  BY <1>1, <1>4, <1>6, <1>8
<1> QED BY <1>1, <1>9 DEF r

LEMMA QueuedTail ==
    ASSUME NEW q \in Seq(Item), q # <<>>
    PROVE  /\ Head(q).size \in 0 .. MaxSize
           /\ Cardinality(Bytes(DOMAIN q, SizesOf(q)))
                = Cardinality(Bytes(DOMAIN Tail(q), SizesOf(Tail(q)))) + Head(q).size
<1> DEFINE r == Tail(q)
           n == Len(q) - 1
<1>1. /\ r \in Seq(Item) /\ n \in Nat
      /\ DOMAIN r = 1 .. n
      /\ DOMAIN q = 1 .. n + 1
  <2>1. Len(q) \in Nat /\ Len(q) # 0 /\ DOMAIN q = 1 .. Len(q)
    OBVIOUS
  <2>2. r \in Seq(Item) /\ Len(r) = n /\ DOMAIN r = 1 .. Len(r)
    OBVIOUS
  <2> QED BY <2>1, <2>2
<1>2. q[1] = Head(q) /\ \A i \in 1 .. n : r[i] = q[i + 1]
  OBVIOUS
<1> HIDE DEF r, n
<1>3. Head(q).size \in 0 .. MaxSize
  BY <1>1, <1>2, QueuedTyped
<1>4. 1 \in DOMAIN q /\ SizesOf(q)[1] = Head(q).size
  BY <1>1, <1>2 DEF SizesOf
<1>5. \A i \in 1 .. n : SizesOf(r)[i] = SizesOf(q)[i + 1]
  BY <1>1, <1>2 DEF SizesOf
<1>6. Cardinality(Bytes(1 .. n, SizesOf(r))) = Cardinality(Bytes(2 .. n + 1, SizesOf(q)))
  BY <1>1, <1>5, BytesShift
<1>7. /\ 1 .. n + 1 = (2 .. n + 1) \cup {1} /\ 1 \notin 2 .. n + 1
  BY <1>1
<1>8. IsFiniteSet(2 .. n + 1)
  BY <1>1, FS_Interval
<1>9. Cardinality(Bytes((2 .. n + 1) \cup {1}, SizesOf(q)))
        = Cardinality(Bytes(2 .. n + 1, SizesOf(q))) + SizesOf(q)[1]
  <2> DEFINE D == 2 .. n + 1
             k == 1
             w == SizesOf(q)
  <2>1. IsFiniteSet(D) /\ k \notin D /\ w[k] \in 0 .. MaxSize
    BY <1>3, <1>4, <1>7, <1>8
  <2> HIDE DEF D, k, w
  <2>2. Cardinality(Bytes(D \cup {k}, w)) = Cardinality(Bytes(D, w)) + w[k]
    BY <2>1, BytesAdd
  <2> QED BY <2>2 DEF D, k, w
<1>10. Cardinality(Bytes(DOMAIN q, SizesOf(q)))
        = Cardinality(Bytes(DOMAIN r, SizesOf(r))) + Head(q).size
  BY <1>1, <1>4, <1>6, <1>7, <1>9
<1> QED BY <1>3, <1>10 DEF r

-----------------------------------------------------------------------------
(* What the writer popped and has not released yet.                          *)
Popped == IF rpc = "release" THEN held ELSE 0

Charging == {s \in Senders : pc[s] = "charge"}

(* The terms of the account are natural numbers.                             *)
LEMMA AccountTyped ==
    ASSUME TypeOK
    PROVE  /\ QueuedBytes = Cardinality(Bytes(DOMAIN queue, SizesOf(queue)))
           /\ UnchargedBytes = Cardinality(Bytes(Charging, size))
           /\ QueuedBytes \in Nat /\ UnchargedBytes \in Nat
           /\ Popped \in Nat /\ inflight \in Nat
           /\ IsFiniteSet(Charging)
           /\ \A s \in Senders : size[s] \in 0 .. MaxSize
<1>1. QueuedBytes = Cardinality(Bytes(DOMAIN queue, SizesOf(queue)))
  BY DEF QueuedBytes, SizesOf
<1>2. UnchargedBytes = Cardinality(Bytes(Charging, size))
  BY DEF UnchargedBytes, Charging
<1>3. IsFiniteSet(DOMAIN queue)
  BY QueuedTyped DEF TypeOK
<1>4. IsFiniteSet(Charging)
  BY SenderSets DEF Charging
<1>5. Popped \in Nat /\ inflight \in Nat /\ \A s \in Senders : size[s] \in 0 .. MaxSize
  BY SizesAssumption DEF Popped, TypeOK
<1>6. /\ Cardinality(Bytes(DOMAIN queue, SizesOf(queue))) \in Nat
      /\ Cardinality(Bytes(Charging, size)) \in Nat
  BY <1>3, <1>4, BytesFinite
<1> QED BY <1>1, <1>2, <1>4, <1>5, <1>6

(* A step that touches none of the terms keeps the account.                  *)
LEMMA AccountUntouched ==
    ASSUME TypeOK, TypeOK', NeverUndercounts,
           UNCHANGED <<queue, inflight>>, Popped' = Popped,
           Charging' = Charging, \A s \in Charging : size'[s] = size[s]
    PROVE  NeverUndercounts'
<1>1. QueuedBytes' = QueuedBytes
  BY DEF QueuedBytes
<1>2. Bytes(Charging, size') = Bytes(Charging, size)
  BY BytesSame
<1>3. UnchargedBytes' = UnchargedBytes
  BY <1>2 DEF UnchargedBytes, Charging
<1> QED BY <1>1, <1>3 DEF NeverUndercounts, Popped

(* Publications, charges, pops and releases keep the account from            *)
(* under-counting, in whatever order the threads take them.                  *)
LEMMA AccountStep ==
    TypeOK /\ TypeOK' /\ NeverUndercounts /\ [Next]_vars => NeverUndercounts'
<1> SUFFICES ASSUME TypeOK, TypeOK', NeverUndercounts, [Next]_vars
             PROVE  NeverUndercounts'
  OBVIOUS
<1>0. inflight + UnchargedBytes >= QueuedBytes + Popped
  BY DEF NeverUndercounts, Popped
<1>a. SUFFICES inflight' + UnchargedBytes' >= QueuedBytes' + Popped'
  BY DEF NeverUndercounts, Popped
<1>t. /\ QueuedBytes \in Nat /\ UnchargedBytes \in Nat /\ Popped \in Nat
      /\ inflight \in Nat /\ IsFiniteSet(Charging)
      /\ \A s \in Senders : size[s] \in 0 .. MaxSize
      /\ QueuedBytes' \in Nat /\ UnchargedBytes' \in Nat /\ Popped' \in Nat
      /\ inflight' \in Nat /\ IsFiniteSet(Charging')
  <2>1. (/\ QueuedBytes \in Nat /\ UnchargedBytes \in Nat /\ Popped \in Nat
         /\ inflight \in Nat /\ IsFiniteSet(Charging))'
    BY AccountTyped, PTL
  <2> QED BY <2>1, AccountTyped
<1>q. /\ QueuedBytes = Cardinality(Bytes(DOMAIN queue, SizesOf(queue)))
      /\ QueuedBytes' = Cardinality(Bytes(DOMAIN queue', SizesOf(queue')))
      /\ UnchargedBytes = Cardinality(Bytes(Charging, size))
      /\ UnchargedBytes' = Cardinality(Bytes(Charging', size'))
  BY DEF QueuedBytes, SizesOf, UnchargedBytes, Charging
<1>1. ASSUME NEW s \in Senders, TrySend(s) PROVE inflight' + UnchargedBytes' >= QueuedBytes' + Popped'
  <2>1. CASE UNCHANGED queue
    <3>1. UNCHANGED <<queue, inflight, rpc, held, size>> /\ Charging' = Charging
      BY <1>1, <2>1 DEF TrySend, Goto, Charging, TypeOK
    <3> QED BY <3>1, AccountUntouched DEF NeverUndercounts, Popped
  <2>2. CASE /\ queue' = Append(queue, [src |-> s, seq |-> sent[s], size |-> size[s]])
             /\ Goto(s, "charge")
    <3> DEFINE x == [src |-> s, seq |-> sent[s], size |-> size[s]]
    <3>1. x \in Item /\ x.size = size[s] /\ queue \in Seq(Item)
      BY DEF Item, TypeOK
    <3> HIDE DEF x
    <3>2. QueuedBytes' = QueuedBytes + size[s]
      BY <1>q, <2>2, <3>1, QueuedAppend DEF x
    <3>3. /\ Charging' = Charging \cup {s} /\ s \notin Charging
          /\ UNCHANGED <<size, inflight, rpc, held>>
      BY <1>1, <2>2 DEF TrySend, Goto, Charging, TypeOK
    <3>4. UnchargedBytes' = UnchargedBytes + size[s]
      BY <1>t, <1>q, <3>3, BytesAdd
    <3>5. inflight' = inflight /\ Popped' = Popped
      BY <3>3 DEF Popped
    <3>6. size[s] \in Int
      BY <1>t, SizesAssumption
    <3> QED BY <1>0, <1>t, <3>2, <3>4, <3>5, <3>6
  <2> QED BY <1>1, <2>1, <2>2 DEF TrySend
<1>2. ASSUME NEW s \in Senders, Charge(s) PROVE inflight' + UnchargedBytes' >= QueuedBytes' + Popped'
  <2>1. /\ Charging = Charging' \cup {s} /\ s \notin Charging'
        /\ UNCHANGED <<size, queue, rpc, held>> /\ inflight' = inflight + size[s]
    BY <1>2 DEF Charge, Goto, Charging, TypeOK
  <2>2. UnchargedBytes = UnchargedBytes' + size[s]
    BY <1>t, <1>q, <2>1, BytesAdd
  <2>3. QueuedBytes' = QueuedBytes /\ Popped' = Popped
    BY <2>1 DEF QueuedBytes, Popped
  <2>4. size[s] \in Int
    BY <1>t, SizesAssumption
  <2> QED BY <1>0, <1>t, <2>1, <2>2, <2>3, <2>4
<1>3. CASE PollBulk
  <2>0. rpc = "bulk" /\ UNCHANGED <<inflight, pc, size>>
    BY <1>3 DEF PollBulk, senderVars
  <2>1. UnchargedBytes' = UnchargedBytes /\ Popped = 0
    BY <2>0 DEF UnchargedBytes, Popped
  <2>2. CASE /\ queue # <<>> /\ queue' = Tail(queue)
             /\ held' = Head(queue).size /\ rpc' = "release"
    <3>1. queue \in Seq(Item)
      BY DEF TypeOK
    <3>2. QueuedBytes = QueuedBytes' + Head(queue).size
      BY <1>q, <2>2, <3>1, QueuedTail
    <3>3. Popped' = Head(queue).size
      BY <2>2 DEF Popped
    <3> QED BY <1>0, <1>t, <2>0, <2>1, <3>2, <3>3
  <2>3. CASE UNCHANGED <<queue, held>> /\ rpc' # "release"
    <3>1. QueuedBytes' = QueuedBytes /\ Popped' = 0
      BY <2>3 DEF QueuedBytes, Popped
    <3> QED BY <1>0, <1>t, <2>0, <2>1, <3>1
  <2> QED BY <1>3, <2>2, <2>3 DEF PollBulk
<1>4. CASE Release
  <2>1. /\ UNCHANGED <<queue, pc, size>> /\ Popped = held /\ Popped' = 0
        /\ inflight' = SaturatingSub(inflight, held)
    BY <1>4 DEF Release, senderVars, Popped
  <2>2. UnchargedBytes' = UnchargedBytes /\ QueuedBytes' = QueuedBytes
    BY <2>1 DEF UnchargedBytes, QueuedBytes
  <2>3. inflight' >= inflight - Popped
    BY <1>t, <2>1 DEF SaturatingSub
  <2> QED BY <1>0, <1>t, <2>1, <2>2, <2>3
<1>5. CASE DropChannels
  <2>1. queue' = <<>> /\ rpc' = "closed"
    BY <1>5 DEF DropChannels
  <2>2. Bytes(DOMAIN queue', SizesOf(queue')) = {}
    BY <2>1 DEF Bytes
  <2>3. QueuedBytes' = 0 /\ Popped' = 0
    BY <1>q, <2>1, <2>2, FS_EmptySet DEF Popped
  <2>4. inflight' \in Nat /\ UnchargedBytes' \in Nat
    BY <1>t
  <2>5. inflight' + UnchargedBytes' >= 0
    <3>1. \A a, b \in Nat : a + b >= 0
      OBVIOUS
    <3> QED BY <2>4, <3>1, Zenon
  <2> QED BY <2>3, <2>5
<1>6. ASSUME NEW s \in Senders,
             \/ \E n \in Sizes : Send(s, n)
             \/ Subscribe(s) \/ LoadInflight(s) \/ Wake(s) \/ SendPriority(s)
             \/ ChargeLane(s) \/ DropSender(s)
      PROVE  inflight' + UnchargedBytes' >= QueuedBytes' + Popped'
  <2>1. UNCHANGED <<queue, inflight, rpc, held>>
    BY <1>6 DEF Send, Subscribe, LoadInflight, Wake, SendPriority, ChargeLane,
                DropSender
  <2>2. Charging' = Charging
    BY <1>6 DEF Send, Subscribe, LoadInflight, Wake, SendPriority, ChargeLane,
                DropSender, TypeOK, Goto, Charging
  <2>3. \A t \in Charging : size'[t] = size[t]
    BY <1>6 DEF Send, Subscribe, LoadInflight, Wake, SendPriority, ChargeLane,
                DropSender, TypeOK, Charging
  <2>4. Popped' = Popped
    BY <2>1 DEF Popped
  <2> QED BY <2>1, <2>2, <2>3, <2>4, AccountUntouched DEF NeverUndercounts, Popped
<1>7. CASE \/ PollPriority \/ ReleasePriority \/ Notify \/ DropNotify
           \/ WriteFails \/ UNCHANGED vars
  <2>1. UNCHANGED <<queue, inflight, pc, size, held>>
    BY <1>7 DEF PollPriority, ReleasePriority, Notify, DropNotify, WriteFails,
                vars, senderVars
  <2>2. Popped' = Popped
    BY <1>7 DEF PollPriority, ReleasePriority, Notify, DropNotify, WriteFails,
                vars, Popped
  <2>3. Charging' = Charging
    BY <2>1 DEF Charging
  <2> QED BY <2>1, <2>2, <2>3, AccountUntouched DEF NeverUndercounts, Popped
<1> QED
  BY <1>1, <1>2, <1>3, <1>4, <1>5, <1>6, <1>7 DEF Next, SendStep, ReceiverStep

-----------------------------------------------------------------------------
(* What is charged and what admitted producers may still charge.  The last   *)
(* one admitted was admitted with room for its own frame, so at most the     *)
(* frames of the others come on top.                                         *)
Reserved == Cardinality(Bytes(Admitted, size))

ReserveBounded ==
    inflight + Reserved
        <= LargerOf(Budget, MaxSize) + (Cardinality(Senders) - 1) * MaxSize

LEMMA ReserveTyped ==
    ASSUME TypeOK
    PROVE  /\ IsFiniteSet(Admitted) /\ Reserved \in Nat /\ inflight \in Nat
           /\ \A s \in Senders : size[s] \in 0 .. MaxSize
<1>1. IsFiniteSet(Admitted)
  BY SenderSets DEF Admitted
<1> QED BY <1>1, BytesFinite DEF Reserved, TypeOK

LEMMA ReserveLimit ==
    /\ LargerOf(Budget, MaxSize) \in Nat
    /\ LargerOf(Budget, MaxSize) >= Budget
    /\ LargerOf(Budget, MaxSize) >= MaxSize
    /\ Cardinality(Senders) - 1 \in Nat
    /\ (Cardinality(Senders) - 1) * MaxSize \in Nat
<1>1. Cardinality(Senders) \in Nat /\ Cardinality(Senders) # 0
  BY SendersAssumption, FS_CardinalityType, FS_EmptySet
<1>2. Cardinality(Senders) - 1 \in Nat
  BY <1>1
<1>3. \A m, n \in Nat : m * n \in Nat
  OBVIOUS
<1>4. (Cardinality(Senders) - 1) * MaxSize \in Nat
  BY <1>2, <1>3, SizesAssumption
<1>5. /\ LargerOf(Budget, MaxSize) \in Nat
      /\ LargerOf(Budget, MaxSize) >= Budget
      /\ LargerOf(Budget, MaxSize) >= MaxSize
  BY SizesAssumption, BoundsAssumption DEF LargerOf
<1> QED BY <1>2, <1>4, <1>5

(* A step that charges nothing and admits nobody keeps the reserve.          *)
LEMMA ReserveShrinks ==
    ASSUME TypeOK, TypeOK', ReserveBounded, inflight' <= inflight,
           Admitted' \subseteq Admitted, \A s \in Admitted' : size'[s] = size[s]
    PROVE  ReserveBounded'
<1>1. Bytes(Admitted', size') = Bytes(Admitted', size)
  BY BytesSame
<1>2. Cardinality(Bytes(Admitted', size)) <= Cardinality(Bytes(Admitted, size))
  BY ReserveTyped, BytesSubset
<1>3. Reserved' <= Reserved
  BY <1>1, <1>2 DEF Reserved
<1>4. (inflight \in Nat /\ Reserved \in Nat)'
  BY ReserveTyped, PTL
<1>5. inflight \in Nat /\ Reserved \in Nat
  BY ReserveTyped
<1>6. LargerOf(Budget, MaxSize) + (Cardinality(Senders) - 1) * MaxSize \in Nat
  BY ReserveLimit
<1>7. \A a, b, c, d, e \in Nat : a <= c /\ b <= d /\ c + d <= e => a + b <= e
  OBVIOUS
<1>8. inflight + Reserved
        <= LargerOf(Budget, MaxSize) + (Cardinality(Senders) - 1) * MaxSize
  BY DEF ReserveBounded
<1>9. inflight' + Reserved'
        <= LargerOf(Budget, MaxSize) + (Cardinality(Senders) - 1) * MaxSize
  BY <1>3, <1>4, <1>5, <1>6, <1>7, <1>8, Zenon
<1> QED BY <1>9 DEF ReserveBounded

LEMMA ReserveStep ==
    TypeOK /\ TypeOK' /\ ReserveBounded /\ [Next]_vars => ReserveBounded'
<1> SUFFICES ASSUME TypeOK, TypeOK', ReserveBounded, [Next]_vars
             PROVE  ReserveBounded'
  OBVIOUS
<1> DEFINE L == LargerOf(Budget, MaxSize)
           R == (Cardinality(Senders) - 1) * MaxSize
<1>t. /\ inflight \in Nat /\ Reserved \in Nat /\ IsFiniteSet(Admitted)
      /\ inflight' \in Nat /\ Reserved' \in Nat /\ IsFiniteSet(Admitted')
      /\ \A s \in Senders : size[s] \in 0 .. MaxSize
  <2>1. (inflight \in Nat /\ Reserved \in Nat /\ IsFiniteSet(Admitted))'
    BY ReserveTyped, PTL
  <2> QED BY <2>1, ReserveTyped
<1>l. L \in Nat /\ L >= Budget /\ L >= MaxSize /\ R \in Nat
  BY ReserveLimit
<1>b. inflight + Reserved <= L + R
  BY DEF ReserveBounded
<1> HIDE DEF L, R
<1>a. SUFFICES inflight' + Reserved' <= L + R
  BY DEF ReserveBounded, L, R
<1>1. ASSUME NEW s \in Senders, LoadInflight(s) PROVE inflight' + Reserved' <= L + R
  <2>0. UNCHANGED <<inflight, size>>
    BY <1>1 DEF LoadInflight
  <2>1. CASE Room(s)
    <3>1. Admitted' = Admitted \cup {s} /\ s \notin Admitted
      BY <1>1, <2>1 DEF LoadInflight, Goto, Admitted, TypeOK
    <3>2. Reserved' = Reserved + size[s]
      BY <1>t, <2>0, <3>1, BytesAdd DEF Reserved
    <3>3. Admitted \in SUBSET (Senders \ {s})
      BY <3>1 DEF Admitted
    <3>4. /\ IsFiniteSet(Senders \ {s})
          /\ Cardinality(Senders \ {s}) = Cardinality(Senders) - 1
      BY SendersAssumption, FS_RemoveElement
    <3>5. Cardinality(Bytes(Senders \ {s}, size)) <= R
      BY <3>4, BytesFinite DEF R
    <3>6. Reserved <= Cardinality(Bytes(Senders \ {s}, size))
      BY <3>3, <3>4, BytesSubset DEF Reserved
    <3>7. Cardinality(Bytes(Senders \ {s}, size)) \in Nat
      BY <3>4, BytesFinite
    <3>8. Reserved <= R
      BY <1>t, <1>l, <3>5, <3>6, <3>7
    <3>9. inflight + size[s] <= L
      BY <1>t, <1>l, <2>1, SizesAssumption, BoundsAssumption DEF Room
    <3>10. size[s] \in Nat /\ inflight' = inflight
      BY <1>t, <2>0, SizesAssumption
    <3> QED BY <1>t, <1>l, <3>2, <3>8, <3>9, <3>10
  <2>2. CASE ~Room(s)
    <3>1. Admitted' \subseteq Admitted /\ inflight' <= inflight
      BY <1>1, <2>2 DEF LoadInflight, Goto, Admitted, TypeOK
    <3> QED BY <2>0, <3>1, ReserveShrinks DEF ReserveBounded, L, R
  <2> QED BY <2>1, <2>2
<1>2. ASSUME NEW s \in Senders, Charge(s) PROVE inflight' + Reserved' <= L + R
  <2>1. /\ Admitted = Admitted' \cup {s} /\ s \notin Admitted'
        /\ size' = size /\ inflight' = inflight + size[s]
    BY <1>2 DEF Charge, Goto, Admitted, TypeOK
  <2>2. Reserved = Reserved' + size[s]
    BY <1>t, <2>1, BytesAdd DEF Reserved
  <2>3. size[s] \in Nat
    BY <1>t, SizesAssumption
  <2> QED BY <1>t, <1>l, <1>b, <2>1, <2>2, <2>3
<1>3. ASSUME NEW s \in Senders,
             \/ \E n \in Sizes : Send(s, n)
             \/ Subscribe(s) \/ TrySend(s) \/ Wake(s) \/ SendPriority(s)
             \/ ChargeLane(s) \/ DropSender(s)
      PROVE  inflight' + Reserved' <= L + R
  <2>1. inflight' <= inflight
    BY <1>3 DEF Send, Subscribe, TrySend, Wake, SendPriority, ChargeLane,
                DropSender, TypeOK
  <2>2. Admitted' \subseteq Admitted
    BY <1>3 DEF Send, Subscribe, TrySend, Wake, SendPriority, ChargeLane,
                DropSender, TypeOK, Goto, Admitted
  <2>3. \A t \in Admitted' : size'[t] = size[t]
    BY <1>3 DEF Send, Subscribe, TrySend, Wake, SendPriority, ChargeLane,
                DropSender, TypeOK, Goto, Admitted
  <2> QED BY <2>1, <2>2, <2>3, ReserveShrinks DEF ReserveBounded, L, R
<1>4. CASE ReceiverStep \/ WriteFails \/ UNCHANGED vars
  <2>1. inflight' <= inflight
    BY <1>4, SizesAssumption
       DEF ReceiverStep, PollPriority, ReleasePriority, PollBulk, Release,
           Notify, DropNotify, DropChannels, WriteFails, vars, TypeOK,
           SaturatingSub
  <2>2. Admitted' \subseteq Admitted /\ size' = size
    BY <1>4
       DEF ReceiverStep, PollPriority, ReleasePriority, PollBulk, Release,
           Notify, DropNotify, DropChannels, WriteFails, vars, senderVars,
           Admitted
  <2> QED BY <2>1, <2>2, ReserveShrinks DEF ReserveBounded, L, R
<1> QED
  BY <1>1, <1>2, <1>3, <1>4 DEF Next, SendStep

(* The bytes waiting in the channel are covered by the account at every      *)
(* moment, although a frame is published before it is charged and may be     *)
(* released before it is charged; and they stay within the budget, or one    *)
(* oversize frame, plus one largest frame for every other producer.          *)
THEOREM BytesStayAccounted == Spec => []BytesAccounted
<1>1. Init => NeverUndercounts /\ ReserveBounded
  <2> SUFFICES ASSUME Init PROVE NeverUndercounts /\ ReserveBounded
    OBVIOUS
  <2>1. Charging = {} /\ Admitted = {} /\ DOMAIN queue = {}
    BY DEF Init, Charging, Admitted
  <2>2. \A w : Bytes({}, w) = {}
    BY DEF Bytes
  <2>3. QueuedBytes = 0 /\ UnchargedBytes = 0 /\ Reserved = 0
    BY <2>1, <2>2, FS_EmptySet DEF QueuedBytes, UnchargedBytes, Charging, Reserved
  <2>4. inflight = 0 /\ rpc = "idle"
    BY DEF Init
  <2>5. LargerOf(Budget, MaxSize) + (Cardinality(Senders) - 1) * MaxSize >= 0
    BY ReserveLimit
  <2> QED BY <2>3, <2>4, <2>5 DEF NeverUndercounts, ReserveBounded
<1>2. TypeOK /\ NeverUndercounts /\ ReserveBounded => BytesAccounted
  <2> SUFFICES ASSUME TypeOK, NeverUndercounts, ReserveBounded
               PROVE  QueuedBytesBounded
    BY DEF BytesAccounted
  <2>1. /\ QueuedBytes \in Nat /\ UnchargedBytes \in Nat /\ Popped \in Nat
        /\ inflight \in Nat /\ Reserved \in Nat
    BY AccountTyped, ReserveTyped
  <2>2. inflight + UnchargedBytes >= QueuedBytes + Popped
    BY DEF NeverUndercounts, Popped
  <2>3. Charging \in SUBSET Admitted
    BY DEF Charging, Admitted
  <2>4. UnchargedBytes <= Reserved
    BY <2>3, AccountTyped, ReserveTyped, BytesSubset DEF Reserved
  <2>5. QueuedBytes <= inflight + Reserved
    BY <2>1, <2>2, <2>4
  <2>6. LargerOf(Budget, MaxSize) + (Cardinality(Senders) - 1) * MaxSize \in Nat
    BY ReserveLimit
  <2> QED BY <2>1, <2>5, <2>6 DEF ReserveBounded, QueuedBytesBounded
<1> QED
  BY <1>1, <1>2, TypeCorrect, AccountStep, ReserveStep, PTL DEF Spec

-----------------------------------------------------------------------------
(* Induction and flattening                                                  *)

(* The least-number principle, for a set: every nonempty set of naturals has *)
(* a least element.                                                          *)
LEMMA LeastNumber ==
    ASSUME NEW T \in SUBSET Nat, T # {}
    PROVE  \E m \in T : \A k \in T : m <= k
<1>1. IsWellFoundedOn(OpToRel(<, Nat), Nat)
  BY NatLessThanWellFounded
<1>2. \A R : IsWellFoundedOn(R, Nat)
                => \E x \in T : \A y \in T : ~(<<y, x>> \in R)
  BY WFMin
<1>3. PICK x \in T : \A y \in T : ~(<<y, x>> \in OpToRel(<, Nat))
  BY <1>1, <1>2
<1>4. \A y \in T : ~(y < x)
  BY <1>3 DEF OpToRel
<1> QED BY <1>4

(* Induction up to n, for a set: what contains 0 and with every number its   *)
(* successor contains 0 .. n.                                                *)
LEMMA CountingUp ==
    ASSUME NEW T, NEW n \in Nat, 0 \in T,
           \A i \in 0 .. n - 1 : i \in T => i + 1 \in T
    PROVE  \A i \in 0 .. n : i \in T
<1> SUFFICES ASSUME (0 .. n) \ T # {} PROVE FALSE
  OBVIOUS
<1> DEFINE D == (0 .. n) \ T
<1>0. D \in SUBSET Nat /\ D # {}
  OBVIOUS
<1> HIDE DEF D
<1>a. PICK m \in D : \A k \in D : m <= k
  BY <1>0, LeastNumber
<1>1. m \in (0 .. n) \ T /\ \A k \in (0 .. n) \ T : m <= k
  BY <1>a DEF D
<1>2. m # 0 /\ m - 1 \in 0 .. n - 1 /\ m - 1 \in 0 .. n /\ ~(m <= m - 1)
  BY <1>1
<1>3. m - 1 \in T
  BY <1>1, <1>2
<1> QED BY <1>1, <1>2, <1>3

(* The recursive function inside FlattenSeq exists: it is the sequence of    *)
(* the partial concatenations.                                               *)
LEMMA FlattenUnfolds ==
    ASSUME NEW S, NEW ss \in Seq(Seq(S)), ss # <<>>
    PROVE  \E f \in [1 .. Len(ss) -> Seq(S)] :
              /\ f[1] = ss[1]
              /\ \A i \in 2 .. Len(ss) : f[i] = f[i - 1] \o ss[i]
              /\ FlattenSeq(ss) = f[Len(ss)]
<1> DEFINE N == Len(ss)
           W == Seq(S)
           Cat(a, b) == a \o b
           Unfolds(f, n) ==
               \A i \in 1 .. n : f[i] = IF i = 1 THEN ss[i] ELSE Cat(f[i - 1], ss[i])
<1>1. N \in Nat \ {0} /\ \A i \in 1 .. N : ss[i] \in W
  OBVIOUS
<1>2. \A a, b \in W : Cat(a, b) \in W
  OBVIOUS
<1>3. ASSUME NEW f, f = [i \in 1 .. N |-> IF i = 1 THEN ss[i] ELSE Cat(f[i - 1], ss[i])]
      PROVE  \E h : /\ h = [i \in 1 .. N |-> IF i = 1 THEN ss[i] ELSE Cat(h[i - 1], ss[i])]
                    /\ FlattenSeq(ss) = h[N]
  BY <1>1, <1>3 DEF FlattenSeq
<1> SUFFICES \E f \in [1 .. N -> W] :
                /\ f[1] = ss[1]
                /\ \A i \in 2 .. N : f[i] = Cat(f[i - 1], ss[i])
                /\ FlattenSeq(ss) = f[N]
  BY Zenon
<1> HIDE DEF N, W, Cat
<1> DEFINE T == {n \in 0 .. N : \E f \in [1 .. n -> W] : Unfolds(f, n)}
<1>4. 0 \in T
  <2> DEFINE e == [i \in 1 .. 0 |-> ss[1]]
  <2>1. e \in [1 .. 0 -> W] /\ Unfolds(e, 0)
    BY <1>1
  <2>2. 0 \in 0 .. N
    BY <1>1
  <2> HIDE DEF e, Unfolds
  <2> QED BY <2>1, <2>2
<1>5. ASSUME NEW n \in 0 .. N - 1, n \in T PROVE n + 1 \in T
  <2>0. n \in Nat /\ n + 1 \in 1 .. N /\ n + 1 \in 0 .. N
    BY <1>1
  <2>1. PICK f \in [1 .. n -> W] : Unfolds(f, n)
    BY <1>5
  <2> DEFINE v == IF n = 0 THEN ss[1] ELSE Cat(f[n], ss[n + 1])
             g == [i \in 1 .. n + 1 |-> IF i = n + 1 THEN v ELSE f[i]]
  <2>2. v \in W
    <3>1. ss[1] \in W /\ ss[n + 1] \in W
      BY <1>1, <2>0
    <3>2. n # 0 => f[n] \in W
      BY <2>0
    <3> QED BY <1>2, <3>1, <3>2
  <2>3. g \in [1 .. n + 1 -> W]
    BY <2>0, <2>2
  <2>4. \A i \in 1 .. n : g[i] = f[i]
    BY <2>0
  <2>5. g[n + 1] = v
    BY <2>0
  <2> HIDE DEF g
  <2>6. Unfolds(g, n + 1)
    <3> SUFFICES ASSUME NEW i \in 1 .. n + 1
                 PROVE g[i] = IF i = 1 THEN ss[i] ELSE Cat(g[i - 1], ss[i])
      OBVIOUS
    <3>1. CASE i = n + 1
      <4>1. n # 0 => g[n] = f[n]
        BY <2>0, <2>4
      <4> QED BY <2>0, <2>5, <3>1, <4>1
    <3>2. CASE i # n + 1
      <4>1. i \in 1 .. n /\ g[i] = f[i] /\ (i # 1 => i - 1 \in 1 .. n)
        BY <2>0, <2>4, <3>2
      <4>2. i # 1 => g[i - 1] = f[i - 1]
        BY <2>4, <4>1
      <4> QED BY <2>1, <4>1, <4>2
    <3> QED BY <3>1, <3>2
  <2> HIDE DEF Unfolds
  <2> QED BY <2>0, <2>3, <2>6
<1>6. N \in T
  <2> HIDE DEF T
  <2>1. \A i \in 0 .. N : i \in T
    BY <1>1, <1>4, <1>5, CountingUp
  <2> QED BY <1>1, <2>1
<1>7. PICK f \in [1 .. N -> W] : Unfolds(f, N)
  BY <1>6
<1>8. PICK h : /\ h = [i \in 1 .. N |-> IF i = 1 THEN ss[i] ELSE Cat(h[i - 1], ss[i])]
               /\ FlattenSeq(ss) = h[N]
  <2>1. f = [i \in 1 .. N |-> IF i = 1 THEN ss[i] ELSE Cat(f[i - 1], ss[i])]
    BY <1>7
  <2> QED BY <1>3, <2>1
<1> DEFINE H == {i \in 0 .. N : i = 0 \/ h[i] = f[i]}
<1>9. h[N] = f[N]
  <2>1. 0 \in H
    BY <1>1
  <2>2. ASSUME NEW i \in 0 .. N - 1, i \in H PROVE i + 1 \in H
    <3>1. i + 1 \in 1 .. N /\ i + 1 \in 0 .. N /\ (i + 1) - 1 = i /\ (i + 1 = 1 <=> i = 0)
      BY <1>1
    <3>2. h[i + 1] = IF i = 0 THEN ss[i + 1] ELSE Cat(h[i], ss[i + 1])
      BY <1>8, <3>1
    <3>3. f[i + 1] = IF i = 0 THEN ss[i + 1] ELSE Cat(f[i], ss[i + 1])
      BY <1>7, <3>1
    <3> QED BY <2>2, <3>1, <3>2, <3>3
  <2>3. N \in H
    <3> HIDE DEF H
    <3>1. \A i \in 0 .. N : i \in H
      BY <1>1, <2>1, <2>2, CountingUp
    <3> QED BY <1>1, <3>1
  <2> QED BY <1>1, <2>3
<1>10. f[1] = ss[1] /\ \A i \in 2 .. N : f[i] = Cat(f[i - 1], ss[i])
  BY <1>1, <1>7
<1> QED BY <1>8, <1>9, <1>10

(* Flattening no sequence gives the empty sequence.                          *)
LEMMA FlattenEmpty == FlattenSeq(<<>>) = <<>>
BY DEF FlattenSeq

(* Flattening one sequence gives that sequence.                              *)
LEMMA FlattenOne ==
    ASSUME NEW S, NEW s \in Seq(S)
    PROVE  FlattenSeq(<<s>>) = s
<1>1. <<s>> \in Seq(Seq(S)) /\ <<s>> # <<>> /\ Len(<<s>>) = 1 /\ <<s>>[1] = s
  OBVIOUS
<1>2. PICK f \in [1 .. Len(<<s>>) -> Seq(S)] :
          f[1] = <<s>>[1] /\ FlattenSeq(<<s>>) = f[Len(<<s>>)]
  BY <1>1, FlattenUnfolds, Zenon
<1> QED BY <1>1, <1>2, Zenon

(* Flattening sequences over S gives a sequence over S.                      *)
LEMMA FlattenType ==
    ASSUME NEW S, NEW ss \in Seq(Seq(S))
    PROVE  FlattenSeq(ss) \in Seq(S)
<1>1. CASE ss = <<>>
  BY <1>1, FlattenEmpty, EmptySeq, Zenon
<1>2. CASE ss # <<>>
  <2>1. PICK f \in [1 .. Len(ss) -> Seq(S)] : FlattenSeq(ss) = f[Len(ss)]
    BY <1>2, FlattenUnfolds, Zenon
  <2>2. Len(ss) \in 1 .. Len(ss)
    BY <1>2
  <2> QED BY <2>1, <2>2, Zenon
<1> QED BY <1>1, <1>2

(* Flattening distributes over concatenation: encoding some frames and then  *)
(* others gives the bytes of encoding them all.                              *)
LEMMA FlattenConcat ==
    ASSUME NEW S, NEW ss \in Seq(Seq(S)), NEW tt \in Seq(Seq(S))
    PROVE  FlattenSeq(ss \o tt) = FlattenSeq(ss) \o FlattenSeq(tt)
<1>0. FlattenSeq(ss) \in Seq(S) /\ FlattenSeq(tt) \in Seq(S)
  BY FlattenType
<1>1. CASE ss = <<>>
  <2>1. ss \o tt = tt
    BY <1>1, ConcatEmptySeq, Zenon
  <2>2. FlattenSeq(ss) \o FlattenSeq(tt) = FlattenSeq(tt)
    BY <1>0, <1>1, FlattenEmpty, ConcatEmptySeq, Zenon
  <2> QED BY <2>1, <2>2, Zenon
<1>2. CASE tt = <<>>
  <2>1. ss \o tt = ss
    BY <1>2, ConcatEmptySeq, Zenon
  <2>2. FlattenSeq(ss) \o FlattenSeq(tt) = FlattenSeq(ss)
    BY <1>0, <1>2, FlattenEmpty, ConcatEmptySeq, Zenon
  <2> QED BY <2>1, <2>2, Zenon
<1>3. CASE ss # <<>> /\ tt # <<>>
  <2> DEFINE n == Len(ss)
             m == Len(tt)
             u == ss \o tt
             W == Seq(S)
             Cat(a, b) == a \o b
  <2>1. /\ n \in Nat \ {0} /\ m \in Nat \ {0}
        /\ u \in Seq(W) /\ Len(u) = n + m /\ u # <<>>
        /\ \A i \in 1 .. n : u[i] = ss[i] /\ ss[i] \in W
        /\ \A i \in 1 .. m : u[n + i] = tt[i] /\ tt[i] \in W
    BY <1>3
  <2>2. /\ \A a, b \in W : Cat(a, b) \in W
        /\ \A a, b, c \in W : Cat(Cat(a, b), c) = Cat(a, Cat(b, c))
    OBVIOUS
  <2>3. PICK f \in [1 .. n -> W] :
              /\ f[1] = ss[1]
              /\ \A i \in 2 .. n : f[i] = Cat(f[i - 1], ss[i])
              /\ FlattenSeq(ss) = f[n]
    BY <1>3, FlattenUnfolds, Zenon
  <2>4. PICK g \in [1 .. m -> W] :
              /\ g[1] = tt[1]
              /\ \A i \in 2 .. m : g[i] = Cat(g[i - 1], tt[i])
              /\ FlattenSeq(tt) = g[m]
    BY <1>3, FlattenUnfolds, Zenon
  <2>5. \E h \in [1 .. Len(u) -> W] :
              /\ h[1] = u[1]
              /\ \A i \in 2 .. Len(u) : h[i] = Cat(h[i - 1], u[i])
              /\ FlattenSeq(u) = h[Len(u)]
    <3> HIDE DEF u
    <3> QED BY <2>1, FlattenUnfolds, Zenon
  <2>6. PICK h \in [1 .. n + m -> W] :
              /\ h[1] = u[1]
              /\ \A i \in 2 .. n + m : h[i] = Cat(h[i - 1], u[i])
              /\ FlattenSeq(u) = h[n + m]
    <3> HIDE DEF u, n, m, Cat, W
    <3> QED BY <2>1, <2>5, Zenon
  <2> SUFFICES FlattenSeq(u) = Cat(FlattenSeq(ss), FlattenSeq(tt))
    BY Zenon
  <2> HIDE DEF n, m, u, W, Cat
  <2> DEFINE H == {i \in 0 .. n : i = 0 \/ h[i] = f[i]}
             G == {i \in 0 .. m : i = 0 \/ h[n + i] = Cat(f[n], g[i])}
  <2>7. h[n] = f[n]
    <3>1. 0 \in H
      BY <2>1
    <3>2. ASSUME NEW i \in 0 .. n - 1, i \in H PROVE i + 1 \in H
      <4>0. i + 1 \in 1 .. n /\ i + 1 \in 0 .. n
        BY <2>1
      <4>1. CASE i = 0
        <5>1. i + 1 = 1 /\ 1 \in 1 .. n
          BY <2>1, <4>1
        <5>2. u[1] = ss[1]
          BY <2>1, <5>1
        <5> QED BY <2>3, <2>6, <4>0, <5>1, <5>2
      <4>2. CASE i # 0
        <5>1. i + 1 \in 2 .. n /\ i + 1 \in 2 .. n + m /\ (i + 1) - 1 = i
          BY <2>1, <4>2
        <5>2. h[i + 1] = Cat(h[i], u[i + 1]) /\ f[i + 1] = Cat(f[i], ss[i + 1])
          BY <2>3, <2>6, <5>1
        <5>3. u[i + 1] = ss[i + 1] /\ h[i] = f[i]
          BY <2>1, <3>2, <4>0, <4>2
        <5> QED BY <4>0, <5>2, <5>3
      <4> QED BY <4>1, <4>2
    <3>3. n \in H
      <4> HIDE DEF H
      <4>1. \A i \in 0 .. n : i \in H
        BY <2>1, <3>1, <3>2, CountingUp
      <4> QED BY <2>1, <4>1
    <3> QED BY <2>1, <3>3
  <2>8. h[n + m] = Cat(f[n], g[m])
    <3>0. f[n] \in W
      BY <2>1
    <3>1. 0 \in G
      BY <2>1
    <3>2. ASSUME NEW i \in 0 .. m - 1, i \in G PROVE i + 1 \in G
      <4>1. n + (i + 1) \in 2 .. n + m /\ (n + (i + 1)) - 1 = n + i /\ i + 1 \in 1 .. m
            /\ i + 1 \in 0 .. m
        BY <2>1
      <4>2. u[n + (i + 1)] = tt[i + 1] /\ tt[i + 1] \in W
        BY <2>1, <4>1
      <4>3. h[n + (i + 1)] = Cat(h[n + i], tt[i + 1])
        BY <2>6, <4>1, <4>2
      <4>4. CASE i = 0
        <5>1. n + i = n /\ i + 1 = 1
          BY <2>1, <4>4
        <5>2. g[i + 1] = tt[i + 1]
          BY <2>4, <5>1
        <5> QED BY <2>7, <4>1, <4>3, <5>1, <5>2
      <4>5. CASE i # 0
        <5>1. i + 1 \in 2 .. m /\ (i + 1) - 1 = i /\ i \in 1 .. m
          BY <2>1, <4>5
        <5>2. g[i + 1] = Cat(g[i], tt[i + 1]) /\ g[i] \in W
          BY <2>4, <5>1
        <5>3. h[n + i] = Cat(f[n], g[i])
          BY <3>2, <4>5
        <5>4. Cat(Cat(f[n], g[i]), tt[i + 1]) = Cat(f[n], Cat(g[i], tt[i + 1]))
          BY <2>2, <3>0, <4>2, <5>2
        <5> QED BY <4>1, <4>3, <5>2, <5>3, <5>4
      <4> QED BY <4>4, <4>5
    <3>3. m \in G
      <4> HIDE DEF G
      <4>1. \A i \in 0 .. m : i \in G
        BY <2>1, <3>1, <3>2, CountingUp
      <4> QED BY <2>1, <4>1
    <3> QED BY <2>1, <3>3
  <2> QED BY <2>3, <2>4, <2>6, <2>7, <2>8
<1> QED BY <1>1, <1>2, <1>3

-----------------------------------------------------------------------------
(* What the encoder and the wire hold                                        *)

Frames == [id : 1 .. MaxBulk, len : Lens, ok : BOOLEAN]

WireBytes == [lane : {"bulk", "priority"}, frame : Nat, at : Nat, last : BOOLEAN]

AllBulk(bytes) == \A i \in 1 .. Len(bytes) : bytes[i].lane = "bulk"

NoneBulk(bytes) == \A i \in 1 .. Len(bytes) : bytes[i].lane # "bulk"

\* The parts BulkBytes flattens.
Pieces(bytes) ==
    [i \in 1 .. Len(bytes) |-> IF bytes[i].lane = "bulk" THEN <<bytes[i]>> ELSE <<>>]

(* A function on 1 .. n is a sequence of length n.                           *)
LEMMA FunctionIsSeq ==
    ASSUME NEW S, NEW n \in Nat, NEW f \in [1 .. n -> S]
    PROVE  f \in Seq(S) /\ Len(f) = n
<1>1. f \in Seq(S)
  BY SeqDef
<1>2. Len(f) \in Nat /\ 1 .. Len(f) = 1 .. n
  BY <1>1, LenProperties
<1> QED BY <1>1, <1>2

(* An encoded bulk frame is a sequence of bulk bytes.                        *)
LEMMA EncodeTyped ==
    ASSUME NEW f \in Frames
    PROVE  Encode(f) \in Seq(WireBytes) /\ AllBulk(Encode(f))
<1>1. f.id \in Nat /\ f.len \in Nat
  <2>1. f.id \in 1 .. MaxBulk /\ f.len \in Lens
    BY DEF Frames
  <2>2. MaxBulk \in Nat /\ Lens \subseteq Nat
    BY WriterAssumption
  <2>3. \A x \in 1 .. MaxBulk : x \in Nat
    BY <2>2
  <2> QED BY <2>1, <2>2, <2>3, Zenon
<1>2. CASE f.ok
  <2> DEFINE e == [k \in 1 .. f.len |->
               [lane |-> "bulk", frame |-> f.id, at |-> k, last |-> k = f.len]]
  <2>1. Encode(f) = e
    BY <1>2 DEF Encode
  <2>2. \A k \in 1 .. f.len : e[k] \in WireBytes /\ e[k].lane = "bulk"
    BY <1>1 DEF WireBytes
  <2>3. e \in Seq(WireBytes) /\ Len(e) = f.len
    <3>1. e = [k \in 1 .. f.len |-> e[k]]
      OBVIOUS
    <3> HIDE DEF e
    <3>2. e \in [1 .. f.len -> WireBytes]
      BY <2>2, <3>1, Zenon
    <3> QED BY <1>1, <3>2, FunctionIsSeq, Zenon
  <2> QED BY <2>1, <2>2, <2>3 DEF AllBulk
<1>3. CASE ~f.ok
  <2>1. Encode(f) = <<>>
    BY <1>3 DEF Encode
  <2> QED BY <2>1 DEF AllBulk
<1> QED BY <1>2, <1>3

(* An encoded packet is a sequence of bytes, none of them of the bulk lane.  *)
LEMMA PacketTyped ==
    ASSUME NEW p, p.id \in Nat
    PROVE  EncodePacket(p) \in Seq(WireBytes) /\ NoneBulk(EncodePacket(p))
<1>1. PacketLen \in Nat
  BY WriterAssumption
<1> DEFINE e == EncodePacket(p)
<1>2. \A k \in 1 .. PacketLen : e[k] \in WireBytes /\ e[k].lane = "priority"
  BY <1>1 DEF WireBytes, EncodePacket
<1>3. e \in Seq(WireBytes) /\ Len(e) = PacketLen
  <2>1. e = [k \in 1 .. PacketLen |-> e[k]]
    BY DEF EncodePacket
  <2> HIDE DEF e
  <2> QED BY <1>1, <1>2, <2>1, FunctionIsSeq
<1> QED BY <1>2, <1>3 DEF NoneBulk

Maps(m, A, B) == m \in [A -> B]

\* m applied to every element.
Mapped(m, s) == [i \in 1 .. Len(s) |-> m[s[i]]]

(* Mapping gives a sequence of the same length ...                           *)
LEMMA MappedTyped ==
    ASSUME NEW A, NEW B, NEW m, Maps(m, A, B), NEW s \in Seq(A)
    PROVE  /\ Mapped(m, s) \in Seq(B) /\ Len(Mapped(m, s)) = Len(s)
           /\ \A i \in 1 .. Len(s) : Mapped(m, s)[i] = m[s[i]]
<1>1. Len(s) \in Nat /\ \A i \in 1 .. Len(s) : s[i] \in A
  OBVIOUS
<1>2. Mapped(m, s) \in [1 .. Len(s) -> B]
  BY <1>1 DEF Mapped, Maps
<1>3. Mapped(m, s) \in Seq(B) /\ Len(Mapped(m, s)) = Len(s)
  BY <1>1, <1>2, FunctionIsSeq, Zenon
<1>4. \A i \in 1 .. Len(s) : Mapped(m, s)[i] = m[s[i]]
  BY DEF Mapped
<1> QED BY <1>3, <1>4

(* ... and commutes with concatenation.                                      *)
LEMMA MappedConcat ==
    ASSUME NEW A, NEW B, NEW m, Maps(m, A, B),
           NEW s \in Seq(A), NEW t \in Seq(A)
    PROVE  Mapped(m, s \o t) = Mapped(m, s) \o Mapped(m, t)
<1> DEFINE u == s \o t
           P == Mapped(m, s)
           Q == Mapped(m, t)
           R == Mapped(m, u)
           C == P \o Q
<1>1. /\ u \in Seq(A) /\ Len(u) = Len(s) + Len(t)
      /\ Len(s) \in Nat /\ Len(t) \in Nat
      /\ \A i \in 1 .. Len(s) : u[i] = s[i]
      /\ \A i \in 1 .. Len(t) : u[Len(s) + i] = t[i]
  OBVIOUS
<1> HIDE DEF u
<1>2. /\ P \in Seq(B) /\ Len(P) = Len(s)
      /\ \A i \in 1 .. Len(s) : P[i] = m[s[i]]
  BY MappedTyped
<1>3. /\ Q \in Seq(B) /\ Len(Q) = Len(t)
      /\ \A i \in 1 .. Len(t) : Q[i] = m[t[i]]
  BY MappedTyped
<1>4. /\ R \in Seq(B) /\ Len(R) = Len(u)
      /\ \A i \in 1 .. Len(u) : R[i] = m[u[i]]
  <2>1. u \in Seq(A)
    BY <1>1
  <2> QED BY <2>1, MappedTyped
<1> HIDE DEF P, Q, R
<1>5. /\ C \in Seq(B) /\ Len(C) = Len(P) + Len(Q)
      /\ \A i \in 1 .. Len(P) + Len(Q) :
            C[i] = IF i <= Len(P) THEN P[i] ELSE Q[i - Len(P)]
  <2>1. P \in Seq(B) /\ Q \in Seq(B)
    BY <1>2, <1>3
  <2> QED BY <2>1, ConcatProperties, Zenon
<1> HIDE DEF C
<1>6. ASSUME NEW i \in 1 .. Len(R) PROVE R[i] = C[i]
  <2>0. i \in 1 .. Len(u) /\ i \in 1 .. Len(P) + Len(Q)
    BY <1>1, <1>2, <1>3, <1>4
  <2>1. R[i] = m[u[i]]
    BY <1>4, <2>0, Zenon
  <2>2. CASE i <= Len(s)
    <3>1. i \in 1 .. Len(s) /\ i <= Len(P)
      BY <1>1, <1>2, <2>2
    <3>2. u[i] = s[i] /\ P[i] = m[s[i]] /\ C[i] = P[i]
      BY <1>1, <1>2, <1>5, <2>0, <3>1, Zenon
    <3> QED BY <2>1, <3>2, Zenon
  <2>3. CASE ~(i <= Len(s))
    <3>1. /\ i - Len(s) \in 1 .. Len(t) /\ Len(s) + (i - Len(s)) = i
          /\ ~(i <= Len(P)) /\ i - Len(P) = i - Len(s)
      BY <1>1, <1>2, <2>0, <2>3
    <3>2. u[i] = t[i - Len(s)] /\ Q[i - Len(s)] = m[t[i - Len(s)]]
      BY <1>1, <1>3, <3>1
    <3>3. C[i] = Q[i - Len(s)]
      BY <1>5, <2>0, <3>1, Zenon
    <3> QED BY <2>1, <3>2, <3>3, Zenon
  <2> QED BY <2>2, <2>3
<1>7. Len(R) = Len(C)
  BY <1>1, <1>2, <1>3, <1>4, <1>5
<1>8. R = C
  <2>1. R \in Seq(B) /\ C \in Seq(B)
    BY <1>4, <1>5
  <2> QED BY <1>6, <1>7, <2>1, SeqEqual, Zenon
<1> QED BY <1>8 DEF P, Q, R, C, u

(* Cutting a byte sequence into pieces commutes with concatenation.          *)
LEMMA PiecesConcat ==
    ASSUME NEW s \in Seq(WireBytes), NEW t \in Seq(WireBytes)
    PROVE  /\ Pieces(s) \in Seq(Seq(WireBytes))
           /\ Pieces(s \o t) = Pieces(s) \o Pieces(t)
<1> DEFINE m == [b \in WireBytes |-> IF b.lane = "bulk" THEN <<b>> ELSE <<>>]
<1>1. Maps(m, WireBytes, Seq(WireBytes))
  BY DEF Maps
<1>2. \A r \in Seq(WireBytes) : Pieces(r) = Mapped(m, r)
  BY DEF Pieces, Mapped
<1>3. s \o t \in Seq(WireBytes)
  OBVIOUS
<1> HIDE DEF m
<1>4. Mapped(m, s) \in Seq(Seq(WireBytes))
  BY <1>1, MappedTyped
<1>5. Mapped(m, s \o t) = Mapped(m, s) \o Mapped(m, t)
  BY <1>1, MappedConcat
<1> QED BY <1>2, <1>3, <1>4, <1>5, Zenon

(* Encoding frames one by one commutes with concatenation.                   *)
LEMMA EncodeAllConcat ==
    ASSUME NEW s \in Seq(Frames), NEW t \in Seq(Frames)
    PROVE  /\ EncodeAll(s) \in Seq(WireBytes)
           /\ EncodeAll(s \o t) = EncodeAll(s) \o EncodeAll(t)
<1> DEFINE m == [f \in Frames |-> Encode(f)]
<1>1. Maps(m, Frames, Seq(WireBytes))
  BY EncodeTyped DEF Maps
<1>2. \A r \in Seq(Frames) : EncodeAll(r) = FlattenSeq(Mapped(m, r))
  <2> SUFFICES ASSUME NEW r \in Seq(Frames) PROVE EncodeAll(r) = FlattenSeq(Mapped(m, r))
    OBVIOUS
  <2>1. \A i \in 1 .. Len(r) : r[i] \in Frames
    OBVIOUS
  <2>2. [i \in 1 .. Len(r) |-> Encode(r[i])] = Mapped(m, r)
    BY <2>1, Zenon DEF Mapped
  <2> QED BY <2>2, Zenon DEF EncodeAll
<1>3. s \o t \in Seq(Frames)
  OBVIOUS
<1> HIDE DEF m
<1>4. /\ Mapped(m, s) \in Seq(Seq(WireBytes)) /\ Mapped(m, t) \in Seq(Seq(WireBytes))
      /\ Mapped(m, s \o t) = Mapped(m, s) \o Mapped(m, t)
  <2>1. Mapped(m, s) \in Seq(Seq(WireBytes)) /\ Mapped(m, t) \in Seq(Seq(WireBytes))
    BY <1>1, MappedTyped
  <2>2. Mapped(m, s \o t) = Mapped(m, s) \o Mapped(m, t)
    BY <1>1, MappedConcat
  <2> QED BY <2>1, <2>2
<1>5. FlattenSeq(Mapped(m, s)) \in Seq(WireBytes)
  BY <1>4, FlattenType, Zenon
<1>6. FlattenSeq(Mapped(m, s) \o Mapped(m, t))
          = FlattenSeq(Mapped(m, s)) \o FlattenSeq(Mapped(m, t))
  BY <1>4, FlattenConcat, Zenon
<1> QED BY <1>2, <1>3, <1>4, <1>5, <1>6, Zenon

(* The bytes of one frame.                                                   *)
LEMMA EncodeAllOne ==
    ASSUME NEW f \in Frames
    PROVE  EncodeAll(<<f>>) = Encode(f)
<1>1. [i \in 1 .. Len(<<f>>) |-> Encode(<<f>>[i])] = <<Encode(f)>>
  OBVIOUS
<1>2. FlattenSeq(<<Encode(f)>>) = Encode(f)
  BY EncodeTyped, FlattenOne, Zenon
<1> QED BY <1>1, <1>2, Zenon DEF EncodeAll

(* Queueing a frame appends its bytes to the stream ...                      *)
LEMMA EncodeAllAppend ==
    ASSUME NEW s \in Seq(Frames), NEW f \in Frames
    PROVE  EncodeAll(Append(s, f)) = EncodeAll(s) \o Encode(f)
<1>1. Append(s, f) = s \o <<f>> /\ <<f>> \in Seq(Frames)
  OBVIOUS
<1> QED BY <1>1, EncodeAllConcat, EncodeAllOne, Zenon

(* ... and taking one takes its bytes off the front.                         *)
LEMMA EncodeAllTail ==
    ASSUME NEW s \in Seq(Frames), s # <<>>
    PROVE  EncodeAll(s) = Encode(Head(s)) \o EncodeAll(Tail(s))
<1>1. /\ s = <<Head(s)>> \o Tail(s) /\ Head(s) \in Frames
      /\ <<Head(s)>> \in Seq(Frames) /\ Tail(s) \in Seq(Frames)
  OBVIOUS
<1>2. EncodeAll(<<Head(s)>> \o Tail(s)) = EncodeAll(<<Head(s)>>) \o EncodeAll(Tail(s))
  BY <1>1, EncodeAllConcat, Zenon
<1>3. EncodeAll(<<Head(s)>>) = Encode(Head(s))
  BY <1>1, EncodeAllOne, Zenon
<1> QED BY <1>1, <1>2, <1>3, Zenon

(* The bulk bytes of a concatenation are those of its two halves.            *)
LEMMA BulkConcat ==
    ASSUME NEW s \in Seq(WireBytes), NEW t \in Seq(WireBytes)
    PROVE  /\ BulkBytes(s) \in Seq(WireBytes)
           /\ BulkBytes(s \o t) = BulkBytes(s) \o BulkBytes(t)
<1>1. \A r : BulkBytes(r) = FlattenSeq(Pieces(r))
  BY Zenon DEF BulkBytes, Pieces
<1>2. /\ Pieces(s) \in Seq(Seq(WireBytes)) /\ Pieces(t) \in Seq(Seq(WireBytes))
      /\ Pieces(s \o t) = Pieces(s) \o Pieces(t)
  BY PiecesConcat, Zenon
<1>3. FlattenSeq(Pieces(s)) \in Seq(WireBytes)
  BY <1>2, FlattenType, Zenon
<1>4. FlattenSeq(Pieces(s) \o Pieces(t)) = FlattenSeq(Pieces(s)) \o FlattenSeq(Pieces(t))
  BY <1>2, FlattenConcat, Zenon
<1> QED BY <1>1, <1>2, <1>3, <1>4, Zenon

(* A single byte counts or does not.                                         *)
LEMMA BulkOfOne ==
    ASSUME NEW b \in WireBytes
    PROVE  BulkBytes(<<b>>) = IF b.lane = "bulk" THEN <<b>> ELSE <<>>
<1> DEFINE piece == IF b.lane = "bulk" THEN <<b>> ELSE <<>>
<1>1. piece \in Seq(WireBytes)
  OBVIOUS
<1>2. Pieces(<<b>>) = <<piece>>
  BY DEF Pieces
<1> HIDE DEF piece
<1>3. FlattenSeq(Pieces(<<b>>)) = piece
  BY <1>1, <1>2, FlattenOne, Zenon
<1>4. BulkBytes(<<b>>) = FlattenSeq(Pieces(<<b>>))
  BY Zenon DEF BulkBytes, Pieces
<1> QED BY <1>3, <1>4, Zenon DEF piece

(* A sequence grows byte by byte.                                            *)
LEMMA PrefixGrows ==
    ASSUME NEW S, NEW s \in Seq(S), NEW n \in 0 .. Len(s) - 1
    PROVE  /\ SubSeq(s, 1, n) \in Seq(S) /\ <<s[n + 1]>> \in Seq(S) /\ s[n + 1] \in S
           /\ SubSeq(s, 1, n + 1) = SubSeq(s, 1, n) \o <<s[n + 1]>>
OBVIOUS

(* All bytes of a chunk of bulk bytes count ...                              *)
LEMMA BulkOfBulk ==
    ASSUME NEW s \in Seq(WireBytes), AllBulk(s)
    PROVE  BulkBytes(s) = s
<1> DEFINE Pre(n) == SubSeq(s, 1, n)
           T == {n \in 0 .. Len(s) : BulkBytes(Pre(n)) = Pre(n)}
<1>0. Len(s) \in Nat /\ Pre(0) = <<>> /\ Pre(Len(s)) = s
  OBVIOUS
<1>1. 0 \in T
  <2>1. BulkBytes(<<>>) = <<>>
    <3>1. Pieces(<<>>) = <<>>
      BY DEF Pieces
    <3>2. BulkBytes(<<>>) = FlattenSeq(Pieces(<<>>))
      BY Zenon DEF BulkBytes, Pieces
    <3> QED BY <3>1, <3>2, FlattenEmpty, Zenon
  <2> HIDE DEF Pre
  <2> QED BY <1>0, <2>1
<1>2. ASSUME NEW n \in 0 .. Len(s) - 1, n \in T PROVE n + 1 \in T
  <2>1. /\ Pre(n) \in Seq(WireBytes) /\ <<s[n + 1]>> \in Seq(WireBytes) /\ s[n + 1] \in WireBytes
        /\ Pre(n + 1) = Pre(n) \o <<s[n + 1]>>
    BY PrefixGrows
  <2>2. n + 1 \in 0 .. Len(s) /\ n + 1 \in 1 .. Len(s)
    BY <1>0
  <2> HIDE DEF Pre
  <2>3. s[n + 1].lane = "bulk"
    BY <2>2 DEF AllBulk
  <2>4. BulkBytes(<<s[n + 1]>>) = <<s[n + 1]>>
    BY <2>1, <2>3, BulkOfOne
  <2>5. BulkBytes(Pre(n + 1)) = BulkBytes(Pre(n)) \o BulkBytes(<<s[n + 1]>>)
    BY <2>1, BulkConcat, Zenon
  <2>6. BulkBytes(Pre(n)) = Pre(n)
    BY <1>2
  <2>7. BulkBytes(Pre(n + 1)) = Pre(n + 1)
    BY <2>1, <2>4, <2>5, <2>6, Zenon
  <2> QED BY <2>2, <2>7
<1>3. Len(s) \in T
  <2> HIDE DEF T
  <2>1. \A n \in 0 .. Len(s) : n \in T
    BY <1>0, <1>1, <1>2, CountingUp
  <2> QED BY <1>0, <2>1
<1> HIDE DEF Pre
<1> QED BY <1>0, <1>3

(* ... and no byte of a packet does.                                         *)
LEMMA BulkOfPacket ==
    ASSUME NEW s \in Seq(WireBytes), NoneBulk(s)
    PROVE  BulkBytes(s) = <<>>
<1> DEFINE Pre(n) == SubSeq(s, 1, n)
           T == {n \in 0 .. Len(s) : BulkBytes(Pre(n)) = <<>>}
<1>0. Len(s) \in Nat /\ Pre(0) = <<>> /\ Pre(Len(s)) = s
  OBVIOUS
<1>1. 0 \in T
  <2>1. BulkBytes(<<>>) = <<>>
    <3>1. <<>> \in Seq(WireBytes) /\ AllBulk(<<>>)
      BY DEF AllBulk
    <3> QED BY <3>1, BulkOfBulk
  <2> HIDE DEF Pre
  <2> QED BY <1>0, <2>1
<1>2. ASSUME NEW n \in 0 .. Len(s) - 1, n \in T PROVE n + 1 \in T
  <2>1. /\ Pre(n) \in Seq(WireBytes) /\ <<s[n + 1]>> \in Seq(WireBytes) /\ s[n + 1] \in WireBytes
        /\ Pre(n + 1) = Pre(n) \o <<s[n + 1]>>
    BY PrefixGrows
  <2>2. n + 1 \in 0 .. Len(s) /\ n + 1 \in 1 .. Len(s)
    BY <1>0
  <2> HIDE DEF Pre
  <2>3. s[n + 1].lane # "bulk"
    BY <2>2 DEF NoneBulk
  <2>4. BulkBytes(<<s[n + 1]>>) = <<>>
    BY <2>1, <2>3, BulkOfOne
  <2>5. BulkBytes(Pre(n + 1)) = BulkBytes(Pre(n)) \o BulkBytes(<<s[n + 1]>>)
    BY <2>1, BulkConcat, Zenon
  <2>6. BulkBytes(Pre(n)) = <<>> /\ <<>> \o <<>> = <<>>
    BY <1>2
  <2>7. BulkBytes(Pre(n + 1)) = <<>>
    BY <2>4, <2>5, <2>6, Zenon
  <2> QED BY <2>2, <2>7
<1>3. Len(s) \in T
  <2> HIDE DEF T
  <2>1. \A n \in 0 .. Len(s) : n \in T
    BY <1>0, <1>1, <1>2, CountingUp
  <2> QED BY <1>0, <2>1
<1> HIDE DEF Pre
<1> QED BY <1>0, <1>3

-----------------------------------------------------------------------------
(* The writer                                                                *)

Packets == [id : Nat, waited : Nat]

\* TypeOK, and the shape of what TypeOK leaves open.
WriterTypes ==
    /\ phase \in Phases
    /\ queued \in 0 .. BatchFrames
    /\ failed \in BOOLEAN
    /\ packets \in 0 .. MaxPackets
    /\ bulk \in Seq(Frames)
    /\ accepted \in Seq(Frames) /\ Len(accepted) <= MaxBulk
    /\ parked \in Seq(Packets) /\ Len(parked) <= packets
    /\ \A i \in 1 .. Len(parked) : parked[i].id \in 1 .. packets
    /\ batch \in Seq(WireBytes) /\ AllBulk(batch)
    /\ wire \in Seq(WireBytes)

\* A packet parked after the lane was found empty has not waited at all, so
\* the chunk about to be written is the only one it can wait for.
FreshAtChunk == phase = "chunk" => \A i \in 1 .. Len(parked) : parked[i].waited = 0

\* A new batch is begun only when the last one is on the wire.
BatchCommitted == phase = "recv" => batch = <<>>

IInv == WriterTypes /\ PacketDelayBounded /\ FreshAtChunk /\ BatchCommitted
            /\ BulkStreamIntact

(* Parking a packet keeps the lane well-formed.                              *)
LEMMA LaneAppend ==
    ASSUME NEW l \in Seq(Packets), NEW p \in Packets
    PROVE  /\ Append(l, p) \in Seq(Packets) /\ Len(Append(l, p)) = Len(l) + 1
           /\ \A i \in 1 .. Len(l) : Append(l, p)[i] = l[i]
           /\ Append(l, p)[Len(l) + 1] = p
OBVIOUS

(* Taking a packet off the lane keeps the others.                            *)
LEMMA LaneTail ==
    ASSUME NEW l \in Seq(Packets), l # <<>>
    PROVE  /\ Tail(l) \in Seq(Packets) /\ Len(Tail(l)) = Len(l) - 1 /\ Len(l) \in Nat
           /\ \A i \in 1 .. Len(Tail(l)) : Tail(l)[i] = l[i + 1] /\ i + 1 \in 1 .. Len(l)
           /\ Head(l) \in Packets
OBVIOUS

Charged(l, n) == [i \in 1 .. Len(l) |-> [l[i] EXCEPT !.waited = @ + n]]

(* A chunk charges every waiting packet with its bytes.                      *)
LEMMA LaneCharged ==
    ASSUME NEW l \in Seq(Packets), NEW n \in Nat
    PROVE  /\ Charged(l, n) \in Seq(Packets) /\ Len(Charged(l, n)) = Len(l)
           /\ \A i \in 1 .. Len(l) : /\ Charged(l, n)[i].id = l[i].id
                                    /\ Charged(l, n)[i].waited = l[i].waited + n
<1> DEFINE k == Charged(l, n)
<1>1. Len(l) \in Nat /\ \A i \in 1 .. Len(l) : l[i] \in Packets
  OBVIOUS
<1>2. ASSUME NEW i \in 1 .. Len(l)
      PROVE  k[i] \in Packets /\ k[i].id = l[i].id /\ k[i].waited = l[i].waited + n
  <2>1. k[i] = [l[i] EXCEPT !.waited = l[i].waited + n]
    BY Zenon DEF Charged
  <2> DEFINE p == l[i]
  <2>2. p \in Packets
    BY <1>1
  <2>3. k[i] = [p EXCEPT !.waited = p.waited + n]
    BY <2>1
  <2> HIDE DEF p
  <2>4. k[i] = [id |-> p.id, waited |-> p.waited + n] /\ p.id \in Nat /\ p.waited \in Nat
    BY <2>2, <2>3 DEF Packets
  <2>5. k[i] \in Packets /\ k[i].id = p.id /\ k[i].waited = p.waited + n
    BY <2>4 DEF Packets
  <2> QED BY <2>5 DEF p
<1>3. k \in [1 .. Len(l) -> Packets]
  <2>1. k = [i \in 1 .. Len(l) |-> k[i]]
    BY Zenon DEF Charged
  <2> HIDE DEF k
  <2> QED BY <1>2, <2>1, Zenon
<1>4. k \in Seq(Packets) /\ Len(k) = Len(l)
  BY <1>1, <1>3, FunctionIsSeq, Zenon
<1> QED BY <1>2, <1>4

(* Concatenation of byte sequences is associative.                           *)
LEMMA BytesAssociate ==
    \A x, y, z \in Seq(WireBytes) : /\ (x \o y) \o z = x \o (y \o z)
                               /\ x \o y \in Seq(WireBytes)
BY ConcatAssociative

(* A sequence cut in two.                                                    *)
LEMMA CutInTwo ==
    ASSUME NEW S, NEW s \in Seq(S), NEW n \in 0 .. Len(s)
    PROVE  /\ SubSeq(s, 1, n) \in Seq(S) /\ Len(SubSeq(s, 1, n)) = n
           /\ \A i \in 1 .. n : SubSeq(s, 1, n)[i] = s[i]
           /\ SubSeq(s, n + 1, Len(s)) \in Seq(S)
           /\ Len(SubSeq(s, n + 1, Len(s))) = Len(s) - n
           /\ \A i \in 1 .. Len(s) - n : SubSeq(s, n + 1, Len(s))[i] = s[n + i]
           /\ s = SubSeq(s, 1, n) \o SubSeq(s, n + 1, Len(s))
<1>1. SubSeq(s, 1, n) \in Seq(S) /\ Len(SubSeq(s, 1, n)) = n
  OBVIOUS
<1>2. \A i \in 1 .. n : SubSeq(s, 1, n)[i] = s[i]
  OBVIOUS
<1>3. SubSeq(s, n + 1, Len(s)) \in Seq(S) /\ Len(SubSeq(s, n + 1, Len(s))) = Len(s) - n
  OBVIOUS
<1>4. \A i \in 1 .. Len(s) - n : SubSeq(s, n + 1, Len(s))[i] = s[n + i]
  OBVIOUS
<1>5. s = SubSeq(s, 1, n) \o SubSeq(s, n + 1, Len(s))
  <2>1. SubSeq(s, 1, Len(s)) = s
    BY SubSeqFull, Zenon
  <2>2. 1 \in 1 .. Len(s) + 1 /\ n \in 1 - 1 .. Len(s) /\ Len(s) \in n .. Len(s)
    OBVIOUS
  <2>3. SubSeq(s, 1, n) \o SubSeq(s, n + 1, Len(s)) = SubSeq(s, 1, Len(s))
    BY <2>2, ConcatAdjacentSubSeq, Zenon
  <2> QED BY <2>1, <2>3, Zenon
<1> QED BY <1>1, <1>2, <1>3, <1>4, <1>5

(* send_raw of the head of the lane: the other packets stay as they are, and *)
(* the bulk bytes on the wire too.                                           *)
LEMMA PacketWritten ==
    ASSUME IInv, WritePacket, UNCHANGED packets
    PROVE  /\ parked' \in Seq(Packets) /\ Len(parked') <= packets
           /\ \A i \in 1 .. Len(parked') : parked'[i].id \in 1 .. packets
           /\ \A i \in 1 .. Len(parked') : parked'[i].waited <= Chunk
           /\ wire' \in Seq(WireBytes)
           /\ BulkBytes(wire') = BulkBytes(wire)
<1>1. /\ parked \in Seq(Packets) /\ Len(parked) <= packets /\ packets \in Nat
      /\ \A i \in 1 .. Len(parked) : parked[i].id \in 1 .. packets
      /\ \A i \in 1 .. Len(parked) : parked[i].waited <= Chunk
      /\ wire \in Seq(WireBytes)
  BY WriterAssumption DEF IInv, WriterTypes, PacketDelayBounded
<1>2. parked # <<>> /\ parked' = Tail(parked) /\ wire' = wire \o EncodePacket(Head(parked))
  BY DEF WritePacket
<1>3. /\ parked' \in Seq(Packets) /\ Len(parked') = Len(parked) - 1 /\ Len(parked) \in Nat
      /\ \A i \in 1 .. Len(parked') : parked'[i] = parked[i + 1] /\ i + 1 \in 1 .. Len(parked)
      /\ Head(parked) \in Packets
  BY <1>1, <1>2, LaneTail
<1>4. Head(parked).id \in Nat
  BY <1>3 DEF Packets
<1> DEFINE e == EncodePacket(Head(parked))
<1>5. e \in Seq(WireBytes) /\ NoneBulk(e)
  BY <1>4, PacketTyped
<1> HIDE DEF e
<1>6. BulkBytes(e) = <<>>
  BY <1>5, BulkOfPacket
<1>7. BulkBytes(wire) \in Seq(WireBytes) /\ BulkBytes(wire \o e) = BulkBytes(wire) \o BulkBytes(e)
  BY <1>1, <1>5, BulkConcat
<1>8. BulkBytes(wire') = BulkBytes(wire)
  BY <1>2, <1>6, <1>7 DEF e
<1>9. wire' \in Seq(WireBytes)
  BY <1>1, <1>2, <1>5 DEF e
<1>10. Len(parked') <= packets
  BY <1>1, <1>3
<1>11. ASSUME NEW i \in 1 .. Len(parked')
       PROVE  parked'[i].id \in 1 .. packets /\ parked'[i].waited <= Chunk
  <2>1. parked'[i] = parked[i + 1] /\ i + 1 \in 1 .. Len(parked)
    BY <1>3
  <2>2. parked[i + 1].id \in 1 .. packets /\ parked[i + 1].waited <= Chunk
    BY <1>1, <2>1, Zenon
  <2> QED BY <2>1, <2>2, Zenon
<1> QED BY <1>3, <1>8, <1>9, <1>10, <1>11

(* send_raw of a chunk: it is cut off the front of the batch, and every      *)
(* packet that waits is charged with it.                                     *)
LEMMA ChunkWritten ==
    ASSUME IInv, WriteChunk
    PROVE  /\ parked' \in Seq(Packets) /\ Len(parked') = Len(parked)
           /\ \A i \in 1 .. Len(parked') : parked'[i].id = parked[i].id
           /\ \A i \in 1 .. Len(parked') : parked'[i].waited <= Chunk
           /\ batch' \in Seq(WireBytes) /\ AllBulk(batch')
           /\ wire' \in Seq(WireBytes)
           /\ phase' = "recv" => batch' = <<>>
           /\ BulkBytes(wire') \o batch' = BulkBytes(wire) \o batch
<1>1. /\ parked \in Seq(Packets) /\ wire \in Seq(WireBytes)
      /\ batch \in Seq(WireBytes) /\ AllBulk(batch) /\ Chunk \in Nat \ {0}
      /\ \A i \in 1 .. Len(parked) : parked[i].waited = 0
  BY WriterAssumption DEF IInv, WriterTypes, FreshAtChunk, WriteChunk
<1> DEFINE n == IF Len(batch) < Chunk THEN Len(batch) ELSE Chunk
           c == SubSeq(batch, 1, n)
           d == SubSeq(batch, n + 1, Len(batch))
<1>2. n \in Nat /\ n <= Chunk /\ n <= Len(batch) /\ Len(batch) \in Nat
  BY <1>1
<1>3. /\ wire' = wire \o c /\ batch' = d
      /\ parked' = Charged(parked, n)
      /\ phase' = "recv" => n = Len(batch)
  BY DEF WriteChunk, Charged
<1> HIDE DEF n
<1>4. /\ parked' \in Seq(Packets) /\ Len(parked') = Len(parked)
      /\ \A i \in 1 .. Len(parked) : parked'[i].id = parked[i].id /\ parked'[i].waited = parked[i].waited + n
  BY <1>1, <1>2, <1>3, LaneCharged
<1>5. /\ c \in Seq(WireBytes) /\ d \in Seq(WireBytes) /\ batch = c \o d
      /\ Len(c) = n /\ \A i \in 1 .. n : c[i] = batch[i]
      /\ Len(d) = Len(batch) - n /\ \A i \in 1 .. Len(batch) - n : d[i] = batch[n + i]
      /\ n = Len(batch) => d = <<>>
  <2>1. n \in 0 .. Len(batch)
    BY <1>2
  <2>2. /\ c \in Seq(WireBytes) /\ d \in Seq(WireBytes) /\ batch = c \o d
        /\ Len(c) = n /\ \A i \in 1 .. n : c[i] = batch[i]
        /\ Len(d) = Len(batch) - n /\ \A i \in 1 .. Len(batch) - n : d[i] = batch[n + i]
    BY <1>1, <2>1, CutInTwo
  <2> HIDE DEF c, d
  <2>3. n = Len(batch) => Len(d) = 0
    BY <1>2, <2>2
  <2>4. n = Len(batch) => d = <<>>
    BY <2>2, <2>3
  <2> QED BY <2>2, <2>4
<1> HIDE DEF c, d
<1>6. AllBulk(c) /\ AllBulk(d)
  <2>1. \A i \in 1 .. Len(batch) : batch[i].lane = "bulk"
    BY <1>1 DEF AllBulk
  <2>2. ASSUME NEW i \in 1 .. Len(c) PROVE c[i].lane = "bulk"
    <3>1. i \in 1 .. Len(batch) /\ i \in 1 .. n
      BY <1>2, <1>5
    <3>2. c[i] = batch[i]
      BY <1>5, <3>1, Zenon
    <3> QED BY <2>1, <3>1, <3>2, Zenon
  <2>3. ASSUME NEW i \in 1 .. Len(d) PROVE d[i].lane = "bulk"
    <3>1. n + i \in 1 .. Len(batch) /\ i \in 1 .. Len(batch) - n
      BY <1>2, <1>5
    <3>2. d[i] = batch[n + i]
      BY <1>5, <3>1, Zenon
    <3> QED BY <2>1, <3>1, <3>2, Zenon
  <2> QED BY <2>2, <2>3 DEF AllBulk
<1>7. BulkBytes(c) = c
  BY <1>5, <1>6, BulkOfBulk
<1>8. BulkBytes(wire) \in Seq(WireBytes) /\ BulkBytes(wire \o c) = BulkBytes(wire) \o BulkBytes(c)
  BY <1>1, <1>5, BulkConcat
<1>9. (BulkBytes(wire) \o c) \o d = BulkBytes(wire) \o (c \o d)
  <2>1. BulkBytes(wire) \in Seq(WireBytes) /\ c \in Seq(WireBytes) /\ d \in Seq(WireBytes)
    BY <1>5, <1>8
  <2> QED BY <2>1, BytesAssociate, Zenon
<1>10. BulkBytes(wire') \o batch' = BulkBytes(wire) \o batch
  BY <1>3, <1>5, <1>7, <1>8, <1>9
<1>11. wire' \in Seq(WireBytes)
  BY <1>1, <1>3, <1>5
<1>12. \A i \in 1 .. Len(parked') : parked'[i].waited <= Chunk
  BY <1>1, <1>2, <1>4
<1> QED BY <1>3, <1>4, <1>5, <1>6, <1>10, <1>11, <1>12

(* OutboundSender::send: the frame's bytes join the end of the stream.       *)
LEMMA FrameQueued ==
    ASSUME IInv, NEW n \in Lens, NEW ok \in BOOLEAN, QueueBulk(n, ok)
    PROVE  /\ bulk' \in Seq(Frames)
           /\ accepted' \in Seq(Frames) /\ Len(accepted') <= MaxBulk
           /\ BulkStreamIntact'
<1> DEFINE f == [id |-> Len(accepted) + 1, len |-> n, ok |-> ok]
           B == BulkBytes(wire)
           E == EncodeAll(bulk)
           A == EncodeAll(accepted)
           e == Encode(f)
<1>1. /\ bulk \in Seq(Frames) /\ accepted \in Seq(Frames) /\ wire \in Seq(WireBytes)
      /\ batch \in Seq(WireBytes) /\ Len(accepted) \in Nat /\ MaxBulk \in Nat
  BY WriterAssumption DEF IInv, WriterTypes
<1>2. /\ Len(accepted) < MaxBulk /\ phase # "done"
      /\ bulk' = Append(bulk, f) /\ accepted' = Append(accepted, f)
      /\ UNCHANGED <<phase, batch, wire>>
  BY DEF QueueBulk
<1>3. f \in Frames
  <2>1. Len(accepted) + 1 \in 1 .. MaxBulk
    BY <1>1, <1>2
  <2> QED BY <2>1 DEF Frames
<1> HIDE DEF f
<1>4. bulk' \in Seq(Frames) /\ accepted' \in Seq(Frames) /\ Len(accepted') <= MaxBulk
  BY <1>1, <1>2, <1>3
<1>5. EncodeAll(bulk') = E \o e /\ EncodeAll(accepted') = A \o e
  BY <1>1, <1>2, <1>3, EncodeAllAppend
<1>6. e \in Seq(WireBytes) /\ E \in Seq(WireBytes) /\ B \in Seq(WireBytes)
  BY <1>1, <1>3, EncodeTyped, EncodeAllConcat, BulkConcat
<1>7. (B \o batch) \o E = A
  BY <1>2 DEF IInv, BulkStreamIntact
<1>8. BulkBytes(wire') = B
  BY <1>2
<1> HIDE DEF B, E, A, e
<1>9. (B \o batch) \o (E \o e) = A \o e
  <2>1. B \o batch \in Seq(WireBytes)
    BY <1>1, <1>6, BytesAssociate, Zenon
  <2>2. ((B \o batch) \o E) \o e = (B \o batch) \o (E \o e)
    BY <1>6, <2>1, BytesAssociate, Zenon
  <2> QED BY <1>7, <2>2, Zenon
<1>10. BulkStreamIntact'
  BY <1>2, <1>5, <1>8, <1>9, Zenon DEF BulkStreamIntact
<1> QED BY <1>4, <1>10

(* The first frame of a batch, or one more: its bytes move from the front of *)
(* the channel to the end of the batch.                                      *)
LEMMA FrameTaken ==
    ASSUME IInv, bulk # <<>>, phase # "done", bulk' = Tail(bulk),
           batch' = batch \o Encode(Head(bulk)), UNCHANGED <<accepted, wire>>
    PROVE  /\ bulk' \in Seq(Frames) /\ Head(bulk) \in Frames
           /\ batch' \in Seq(WireBytes) /\ AllBulk(batch')
           /\ BulkStreamIntact'
<1> DEFINE B == BulkBytes(wire)
           E == EncodeAll(bulk')
           A == EncodeAll(accepted)
           e == Encode(Head(bulk))
<1>1. /\ bulk \in Seq(Frames) /\ wire \in Seq(WireBytes)
      /\ batch \in Seq(WireBytes) /\ AllBulk(batch)
  BY DEF IInv, WriterTypes
<1>2. bulk' \in Seq(Frames) /\ Head(bulk) \in Frames
  BY <1>1
<1>3. e \in Seq(WireBytes) /\ AllBulk(e)
  BY <1>2, EncodeTyped
<1>4. E \in Seq(WireBytes) /\ B \in Seq(WireBytes)
  BY <1>1, <1>2, EncodeAllConcat, BulkConcat
<1>5. EncodeAll(bulk) = e \o E
  BY <1>1, EncodeAllTail
<1>6. (B \o batch) \o EncodeAll(bulk) = A
  BY DEF IInv, BulkStreamIntact
<1>7. /\ BulkBytes(wire') = B /\ EncodeAll(accepted') = A /\ EncodeAll(bulk') = E
      /\ batch' = batch \o e
  OBVIOUS
<1> HIDE DEF B, E, A, e
<1>8. (B \o (batch \o e)) \o E = A
  <2>1. B \o batch \in Seq(WireBytes)
    BY <1>1, <1>4, BytesAssociate, Zenon
  <2>2. ((B \o batch) \o e) \o E = (B \o batch) \o (e \o E)
    BY <1>3, <1>4, <2>1, BytesAssociate, Zenon
  <2>3. (B \o batch) \o e = B \o (batch \o e)
    <3>1. B \in Seq(WireBytes) /\ batch \in Seq(WireBytes) /\ e \in Seq(WireBytes)
      BY <1>1, <1>3, <1>4
    <3> QED BY <3>1, BytesAssociate, Zenon
  <2> QED BY <1>5, <1>6, <2>2, <2>3, Zenon
<1>9. BulkStreamIntact'
  BY <1>7, <1>8, Zenon DEF BulkStreamIntact
<1>10. batch' \in Seq(WireBytes) /\ AllBulk(batch')
  <2> DEFINE b == batch \o e
  <2>1. /\ b \in Seq(WireBytes) /\ Len(b) = Len(batch) + Len(e)
        /\ Len(batch) \in Nat /\ Len(e) \in Nat
        /\ \A i \in 1 .. Len(b) :
              b[i] = IF i <= Len(batch) THEN batch[i] ELSE e[i - Len(batch)]
    BY <1>1, <1>3
  <2> HIDE DEF b
  <2>2. ASSUME NEW i \in 1 .. Len(b) PROVE b[i].lane = "bulk"
    <3>1. CASE i <= Len(batch)
      <4>1. i \in 1 .. Len(batch) /\ b[i] = batch[i]
        BY <2>1, <3>1
      <4> QED BY <1>1, <4>1, Zenon DEF AllBulk
    <3>2. CASE ~(i <= Len(batch))
      <4>1. i - Len(batch) \in 1 .. Len(e) /\ b[i] = e[i - Len(batch)]
        BY <2>1, <3>2
      <4> QED BY <1>3, <4>1, Zenon DEF AllBulk
    <3> QED BY <3>1, <3>2
  <2>3. batch' = b
    BY <1>7 DEF b
  <2> QED BY <2>1, <2>2, <2>3, Zenon DEF AllBulk
<1> QED BY <1>2, <1>9, <1>10

(* Every step of the producers and of drain_frames keeps the types, the      *)
(* delay bound and the byte stream.                                          *)
LEMMA WriterStepKeeps == IInv /\ [WriterNext]_writerVars => IInv'
<1> SUFFICES ASSUME IInv, [WriterNext]_writerVars PROVE IInv'
  OBVIOUS
<1>0. /\ BatchFrames \in Nat \ {0} /\ Chunk \in Nat \ {0} /\ MaxPackets \in Nat
      /\ packets \in 0 .. MaxPackets /\ queued \in 0 .. BatchFrames
      /\ phase \in Phases /\ parked \in Seq(Packets) /\ Len(parked) \in Nat
  BY WriterAssumption DEF IInv, WriterTypes
<1>1. ASSUME NEW n \in Lens, NEW ok \in BOOLEAN, QueueBulk(n, ok) PROVE IInv'
  <2>1. UNCHANGED <<parked, packets, phase, batch, queued, failed, wire>>
    BY <1>1 DEF QueueBulk
  <2>2. /\ bulk' \in Seq(Frames)
        /\ accepted' \in Seq(Frames) /\ Len(accepted') <= MaxBulk
        /\ BulkStreamIntact'
    BY <1>1, FrameQueued
  <2>3. WriterTypes'
    BY <2>1, <2>2 DEF IInv, WriterTypes, AllBulk
  <2>4. PacketDelayBounded' /\ FreshAtChunk' /\ BatchCommitted'
    BY <2>1 DEF IInv, PacketDelayBounded, FreshAtChunk, BatchCommitted
  <2> QED BY <2>2, <2>3, <2>4 DEF IInv
<1>2. CASE ParkPacket
  <2> DEFINE p == [id |-> packets + 1, waited |-> 0]
  <2>1. /\ packets' = packets + 1 /\ packets < MaxPackets /\ parked' = Append(parked, p)
        /\ UNCHANGED <<bulk, accepted, phase, batch, queued, failed, wire>>
    BY <1>2 DEF ParkPacket
  <2>2. p \in Packets /\ p.id = packets + 1 /\ p.waited = 0
    BY <1>0 DEF Packets
  <2> HIDE DEF p
  <2>3. /\ parked' \in Seq(Packets) /\ Len(parked') = Len(parked) + 1
        /\ \A i \in 1 .. Len(parked) : parked'[i] = parked[i]
        /\ parked'[Len(parked) + 1] = p
    BY <1>0, <2>1, <2>2, LaneAppend
  <2>4. ASSUME NEW i \in 1 .. Len(parked')
        PROVE  /\ parked'[i].id \in 1 .. packets' /\ parked'[i].waited <= Chunk
               /\ phase = "chunk" => parked'[i].waited = 0
    <3>1. CASE i \in 1 .. Len(parked)
      <4>1. parked'[i] = parked[i]
        BY <2>3, <3>1
      <4>2. parked[i].id \in 1 .. packets /\ parked[i].waited <= Chunk
        BY <3>1 DEF IInv, WriterTypes, PacketDelayBounded
      <4>3. phase = "chunk" => parked[i].waited = 0
        BY <3>1 DEF IInv, FreshAtChunk
      <4>4. \A x \in 1 .. packets : x \in 1 .. packets'
        BY <1>0, <2>1
      <4> QED BY <4>1, <4>2, <4>3, <4>4, Zenon
    <3>2. CASE i \notin 1 .. Len(parked)
      <4>1. i = Len(parked) + 1
        BY <1>0, <2>3, <3>2
      <4>2. parked'[i] = p
        BY <2>3, <4>1
      <4>3. packets + 1 \in 1 .. packets' /\ 0 <= Chunk
        BY <1>0, <2>1
      <4> QED BY <2>2, <4>2, <4>3, Zenon
    <3> QED BY <3>1, <3>2
  <2>5. packets' \in 0 .. MaxPackets /\ Len(parked') <= packets'
    <3>1. Len(parked) <= packets
      BY DEF IInv, WriterTypes
    <3> QED BY <1>0, <2>1, <2>3, <3>1
  <2>6. WriterTypes'
    BY <2>1, <2>3, <2>4, <2>5 DEF IInv, WriterTypes, AllBulk
  <2>7. PacketDelayBounded' /\ FreshAtChunk'
    BY <2>1, <2>4 DEF PacketDelayBounded, FreshAtChunk
  <2>8. BatchCommitted' /\ BulkStreamIntact'
    BY <2>1, Zenon DEF IInv, BatchCommitted, BulkStreamIntact
  <2> QED BY <2>6, <2>7, <2>8 DEF IInv
<1>3. CASE RecvPriority \/ CommitPriority
  <2>1. /\ WritePacket /\ phase # "chunk"
        /\ UNCHANGED <<bulk, accepted, packets, phase, batch, queued, failed>>
    BY <1>3 DEF RecvPriority, CommitPriority
  <2>2. /\ parked' \in Seq(Packets) /\ Len(parked') <= packets
        /\ \A i \in 1 .. Len(parked') : parked'[i].id \in 1 .. packets
        /\ \A i \in 1 .. Len(parked') : parked'[i].waited <= Chunk
        /\ wire' \in Seq(WireBytes)
        /\ BulkBytes(wire') = BulkBytes(wire)
    BY <2>1, PacketWritten
  <2>3. WriterTypes'
    BY <2>1, <2>2 DEF IInv, WriterTypes, AllBulk
  <2>4. PacketDelayBounded' /\ FreshAtChunk'
    BY <2>1, <2>2 DEF PacketDelayBounded, FreshAtChunk
  <2>5. BatchCommitted' /\ BulkStreamIntact'
    BY <2>1, <2>2, Zenon DEF IInv, BatchCommitted, BulkStreamIntact
  <2> QED BY <2>3, <2>4, <2>5 DEF IInv
<1>4. CASE RecvBulk \/ Coalesce
  <2>1. /\ bulk # <<>> /\ phase # "done" /\ phase' = "coalesce" /\ bulk' = Tail(bulk)
        /\ failed' = ~Head(bulk).ok /\ queued' \in 0 .. BatchFrames
        /\ UNCHANGED <<parked, accepted, packets, wire>>
    BY <1>0, <1>4 DEF RecvBulk, Coalesce, BatchOpen
  <2>2. batch' = batch \o Encode(Head(bulk))
    <3>1. CASE RecvBulk
      <4>1. batch = <<>> /\ batch' = Encode(Head(bulk)) /\ bulk \in Seq(Frames)
        BY <3>1 DEF RecvBulk, IInv, BatchCommitted, WriterTypes
      <4>2. Head(bulk) \in Frames
        BY <2>1, <4>1
      <4>3. Encode(Head(bulk)) \in Seq(WireBytes)
        BY <4>2, EncodeTyped
      <4> QED BY <4>1, <4>3
    <3>2. CASE Coalesce
      BY <3>2 DEF Coalesce
    <3> QED BY <1>4, <3>1, <3>2
  <2>3. /\ bulk' \in Seq(Frames) /\ Head(bulk) \in Frames
        /\ batch' \in Seq(WireBytes) /\ AllBulk(batch')
        /\ BulkStreamIntact'
    BY <2>1, <2>2, FrameTaken
  <2>4. failed' \in BOOLEAN
    BY <2>1
  <2>5. AllBulk(batch)'
    BY <2>3 DEF AllBulk
  <2>6. WriterTypes'
    BY <2>1, <2>3, <2>4, <2>5 DEF IInv, WriterTypes, Phases
  <2>7. PacketDelayBounded' /\ FreshAtChunk' /\ BatchCommitted'
    BY <2>1 DEF IInv, PacketDelayBounded, FreshAtChunk, BatchCommitted
  <2> QED BY <2>3, <2>6, <2>7 DEF IInv
<1>5. CASE Freeze \/ LaneDrained \/ SocketFails \/ Finish
  <2>1. /\ UNCHANGED <<bulk, parked, accepted, packets, batch, queued, failed, wire>>
        /\ phase # "done" /\ phase' \in {"commit", "chunk", "done"}
        /\ phase' = "chunk" => parked = <<>>
    BY <1>5 DEF Freeze, LaneDrained, SocketFails, Finish
  <2>2. WriterTypes'
    BY <2>1 DEF IInv, WriterTypes, AllBulk, Phases
  <2>3. PacketDelayBounded' /\ FreshAtChunk' /\ BatchCommitted'
    BY <2>1 DEF IInv, PacketDelayBounded, FreshAtChunk, BatchCommitted
  <2>4. BulkStreamIntact'
    BY <2>1, Zenon DEF IInv, BulkStreamIntact
  <2> QED BY <2>2, <2>3, <2>4 DEF IInv
<1>6. CASE WriteChunk
  <2>1. /\ UNCHANGED <<bulk, accepted, packets, queued, failed>>
        /\ phase = "chunk" /\ phase' \in {"recv", "commit"}
    BY <1>6 DEF WriteChunk
  <2>2. /\ parked' \in Seq(Packets) /\ Len(parked') = Len(parked)
        /\ \A i \in 1 .. Len(parked') : parked'[i].id = parked[i].id
        /\ \A i \in 1 .. Len(parked') : parked'[i].waited <= Chunk
        /\ batch' \in Seq(WireBytes) /\ AllBulk(batch')
        /\ wire' \in Seq(WireBytes)
        /\ phase' = "recv" => batch' = <<>>
        /\ BulkBytes(wire') \o batch' = BulkBytes(wire) \o batch
    BY <1>6, ChunkWritten
  <2>3. AllBulk(batch)'
    BY <2>2 DEF AllBulk
  <2>4. WriterTypes'
    BY <2>1, <2>2, <2>3 DEF IInv, WriterTypes, Phases
  <2>5. PacketDelayBounded' /\ FreshAtChunk' /\ BatchCommitted'
    BY <2>1, <2>2 DEF PacketDelayBounded, FreshAtChunk, BatchCommitted
  <2>6. BulkStreamIntact'
    <3>1. (BulkBytes(wire) \o batch) \o EncodeAll(bulk) = EncodeAll(accepted)
      BY <2>1 DEF IInv, BulkStreamIntact
    <3> QED BY <2>1, <2>2, <3>1, Zenon DEF BulkStreamIntact
  <2> QED BY <2>4, <2>5, <2>6 DEF IInv
<1>7. CASE UNCHANGED writerVars
  <2>1. UNCHANGED <<bulk, parked, accepted, packets, phase, batch, queued, failed, wire>>
    BY <1>7 DEF writerVars
  <2>2. WriterTypes'
    BY <2>1 DEF IInv, WriterTypes, AllBulk
  <2>3. PacketDelayBounded' /\ FreshAtChunk' /\ BatchCommitted'
    BY <2>1 DEF IInv, PacketDelayBounded, FreshAtChunk, BatchCommitted
  <2>4. BulkStreamIntact'
    BY <2>1, Zenon DEF IInv, BulkStreamIntact
  <2> QED BY <2>2, <2>3, <2>4 DEF IInv
<1> QED
  BY <1>1, <1>2, <1>3, <1>4, <1>5, <1>6, <1>7 DEF WriterNext, WriterStep

(* The strengthened invariant holds in every reachable state.                *)
LEMMA WriterInvariant == WriterSpec => []IInv
<1>1. WriterInit => IInv
  <2> SUFFICES ASSUME WriterInit PROVE IInv
    OBVIOUS
  <2>1. <<>> \in Seq(Frames) /\ <<>> \in Seq(Packets) /\ <<>> \in Seq(WireBytes)
        /\ Len(<<>>) = 0 /\ AllBulk(<<>>) /\ NoneBulk(<<>>)
    BY DEF AllBulk, NoneBulk
  <2>2. WriterTypes
    <3>1. /\ bulk \in Seq(Frames) /\ accepted \in Seq(Frames) /\ parked \in Seq(Packets)
          /\ batch \in Seq(WireBytes) /\ wire \in Seq(WireBytes) /\ AllBulk(batch)
      BY <2>1, Zenon DEF WriterInit
    <3>2. Len(parked) = 0 /\ Len(accepted) = 0
      BY <2>1 DEF WriterInit
    <3>3. failed \in BOOLEAN
      BY DEF WriterInit
    <3>4. phase \in Phases /\ queued \in 0 .. BatchFrames /\ packets \in 0 .. MaxPackets
          /\ MaxBulk \in Nat /\ packets = 0
      BY WriterAssumption DEF WriterInit, Phases
    <3> QED BY <3>1, <3>2, <3>3, <3>4 DEF WriterTypes
  <2>3. PacketDelayBounded /\ FreshAtChunk /\ BatchCommitted
    BY DEF WriterInit, PacketDelayBounded, FreshAtChunk, BatchCommitted
  <2>4. BulkStreamIntact
    <3>1. BulkBytes(<<>>) = <<>>
      BY <2>1, BulkOfPacket
    <3>2. EncodeAll(<<>>) \in Seq(WireBytes)
      BY <2>1, EncodeAllConcat
    <3>3. (<<>> \o <<>>) \o EncodeAll(<<>>) = EncodeAll(<<>>)
      BY <3>2
    <3> QED BY <3>1, <3>3, Zenon DEF WriterInit, BulkStreamIntact
  <2> QED BY <2>2, <2>3, <2>4 DEF IInv
<1> QED BY <1>1, WriterStepKeeps, PTL DEF WriterSpec

(* Whatever is coalesced, chunked and interleaved: a parked packet waits for *)
(* one chunk of bulk bytes at most, and no bulk byte is lost, repeated or    *)
(* reordered between the queue and the socket.                               *)
THEOREM WriterKeepsOrder == WriterSpec => []OrderKept
<1>1. IInv => OrderKept
  <2> SUFFICES ASSUME IInv PROVE OrderKept
    OBVIOUS
  <2>1. bulk \in Seq([id : 1 .. MaxBulk, len : Lens, ok : BOOLEAN])
    BY Zenon DEF IInv, WriterTypes, Frames
  <2>2. WriterTypeOK
    BY <2>1 DEF IInv, WriterTypes, WriterTypeOK
  <2> QED BY <2>2 DEF IInv, OrderKept
<1> QED BY <1>1, WriterInvariant, PTL
=============================================================================
