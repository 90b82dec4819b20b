-------------------------- MODULE UplinkFlowProofs --------------------------
(* The gauge of the uplink, for every pair of thresholds, every channel      *)
(* capacity and every number of payloads and lost flow frames.               *)
EXTENDS UplinkFlow, TLAPS

\* The part of the state the gauge's correctness rests on.
GaugeTypes ==
    /\ wire \in Nat
    /\ rpc \in {"idle", "latch", "advertise", "enqueue"}
    /\ chan \in Nat
    /\ ppc \in {"idle", "write", "check", "frame", "report"}
    /\ left \in Nat
    /\ pending \in Nat
    /\ latched \in BOOLEAN

\* Charges only raise the gauge, so it is never below the value the pump read.
ReadingIsLow == ppc = "check" => pending >= left

IInv == GaugeTypes /\ GaugeIsExact /\ ReadingIsLow /\ LatchedHasBacklog

(* Every step of the client, the relay task and the pump keeps the gauge     *)
(* exact and the latch above a backlog.                                      *)
LEMMA GaugeStep == IInv /\ [Next]_vars => IInv'
<1> SUFFICES ASSUME IInv, [Next]_vars PROVE IInv'
  OBVIOUS
<1> USE FlowAssumption
        DEF IInv, GaugeTypes, GaugeIsExact, ReadingIsLow, LatchedHasBacklog,
            clientVars, meterVars, relayVars, pumpVars, peerVars
<1>1. CASE ClientSend
  BY <1>1 DEF ClientSend
<1>2. CASE ClientReceive
  BY <1>2 DEF ClientReceive
<1>3. CASE RelayCharge
  BY <1>3 DEF RelayCharge
<1>4. CASE RelayLatch
  <2>1. pending > 0
    BY <1>4 DEF RelayLatch
  <2>2. latched' \in BOOLEAN /\ rpc' \in {"advertise", "enqueue"}
    BY <1>4 DEF RelayLatch
  <2>3. UNCHANGED <<wire, chan, ppc, left, pending>> /\ rpc = "latch"
    BY <1>4 DEF RelayLatch
  <2> QED BY <2>1, <2>2, <2>3
<1>5. CASE RelayAdvertise
  BY <1>5 DEF RelayAdvertise
<1>6. CASE RelayEnqueue
  BY <1>6 DEF RelayEnqueue
<1>7. CASE RelayEvent
  BY <1>7 DEF RelayEvent
<1>8. CASE RelayTick
  BY <1>8 DEF RelayTick
<1>9. ASSUME NEW p \in BOOLEAN, PeerFlow(p) PROVE IInv'
  BY <1>9 DEF PeerFlow
<1>10. CASE PumpReceive
  BY <1>10 DEF PumpReceive
<1>11. CASE PumpDischarge
  BY <1>11 DEF PumpDischarge, Discharged
<1>12. CASE PumpUnlatch
  BY <1>12 DEF PumpUnlatch
<1>13. CASE PumpSendsResume
  BY <1>13 DEF PumpSendsResume
<1>14. CASE PumpReports
  BY <1>14 DEF PumpReports
<1>15. CASE UNCHANGED vars
  BY <1>15 DEF vars
<1> QED
  BY <1>1, <1>2, <1>3, <1>4, <1>5, <1>6, <1>7, <1>8, <1>9, <1>10, <1>11,
     <1>12, <1>13, <1>14, <1>15
     DEF Next, RelayStep, PumpStep

(* The strengthened invariant holds in every reachable state.                *)
LEMMA GaugeInvariant == Spec => []IInv
<1>1. Init => IInv
  <2> SUFFICES ASSUME Init PROVE IInv
    OBVIOUS
  <2>1. GaugeTypes
    BY DEF Init, GaugeTypes
  <2>2. GaugeIsExact
    BY DEF Init, GaugeIsExact
  <2>3. ReadingIsLow
    BY DEF Init, ReadingIsLow
  <2>4. LatchedHasBacklog
    BY DEF Init, LatchedHasBacklog
  <2> QED BY <2>1, <2>2, <2>3, <2>4 DEF IInv
<1> QED BY <1>1, GaugeStep, PTL DEF Spec

(* Charging before enqueueing keeps the gauge exact under every interleaving *)
(* of the relay task and the pump.                                           *)
THEOREM GaugeExact == Spec => []GaugeIsExact
<1>1. IInv => GaugeIsExact
  BY DEF IInv
<1> QED BY <1>1, GaugeInvariant, PTL

(* A latched gauge always has a discharge ahead of it, so the Resume edge    *)
(* that ends the pause will be seen.                                         *)
THEOREM LatchNeverOutlivesBacklog == Spec => []LatchedHasBacklog
<1>1. IInv => LatchedHasBacklog
  BY DEF IInv
<1> QED BY <1>1, GaugeInvariant, PTL

(* Whatever is advertised or repeated, the Advertiser's state keeps its      *)
(* shape and the repetition budget of a Resume stays within Retransmits.     *)
LEMMA AdvertiserTyped ==
    ASSUME NEW a \in AdvertiserState, NEW action \in Actions
    PROVE  /\ Record(a, action) \in AdvertiserState
           /\ AfterDue(a) \in AdvertiserState
           /\ DueFrame(a) # "None" => DueFrame(a) \in Actions
<1> USE RetransmitsAssumption
<1>1. /\ a.paused \in BOOLEAN /\ a.resuming \in 0 .. Retransmits
      /\ a = [paused |-> a.paused, resuming |-> a.resuming]
  BY DEF AdvertiserState
<1>2. Record(a, action) \in AdvertiserState
  BY DEF Record, AdvertiserState
<1>3. AfterDue(a) \in AdvertiserState
  <2>1. CASE a.resuming > 0
    <3>1. AfterDue(a) = [paused |-> a.paused, resuming |-> a.resuming - 1]
      BY <1>1, <2>1 DEF AfterDue
    <3>2. a.resuming - 1 \in 0 .. Retransmits
      BY <1>1, <2>1
    <3> QED BY <1>1, <3>1, <3>2 DEF AdvertiserState
  <2>2. CASE ~(a.resuming > 0)
    BY <2>2 DEF AfterDue
  <2> QED BY <2>1, <2>2
<1>4. DueFrame(a) # "None" => DueFrame(a) \in Actions
  BY DEF DueFrame, Actions
<1> QED BY <1>2, <1>3, <1>4

\* The yield rule is inductive together with the egress gate's definition.
YieldInv ==
    /\ adv \in AdvertiserState
    /\ peerPaused \in BOOLEAN
    /\ egress = EgressDesired(peerPaused, adv.paused)

(* No step of the relay, the pump or the peer ever leaves both legs of the   *)
(* channel gated by the relay.                                               *)
THEOREM YieldRule == Spec => []NeverBothLegs
<1> USE RetransmitsAssumption
<1>1. Init => YieldInv
  <2> SUFFICES ASSUME Init PROVE YieldInv
    OBVIOUS
  <2>1. adv \in AdvertiserState /\ adv.paused = FALSE
    BY DEF Init, Silent, AdvertiserState
  <2>2. peerPaused \in BOOLEAN
    BY DEF Init
  <2>3. egress = EgressDesired(peerPaused, adv.paused)
    BY <2>1, Zenon DEF Init, EgressDesired
  <2> QED BY <2>1, <2>2, <2>3 DEF YieldInv
<1>2. YieldInv /\ [Next]_vars => YieldInv'
  <2> SUFFICES ASSUME YieldInv, [Next]_vars PROVE YieldInv'
    OBVIOUS
  <2>1. CASE RelayAdvertise \/ RelayEvent
    <3>1. adv' \in AdvertiserState
      BY <2>1, AdvertiserTyped DEF RelayAdvertise, RelayEvent, AdvertiseEdge, YieldInv, Actions
    <3> QED
      BY <2>1, <3>1 DEF RelayAdvertise, RelayEvent, AdvertiseEdge, SyncEgress, YieldInv
  <2>2. CASE RelayTick
    <3>1. adv' \in AdvertiserState
      BY <2>2, AdvertiserTyped DEF RelayTick, YieldInv, Actions
    <3> QED
      BY <2>2, <3>1 DEF RelayTick, SyncEgress, YieldInv
  <2>3. ASSUME NEW p \in BOOLEAN, PeerFlow(p) PROVE YieldInv'
    BY <2>3 DEF PeerFlow, YieldInv
  <2>4. CASE \/ ClientSend \/ ClientReceive \/ RelayCharge \/ RelayLatch
             \/ RelayEnqueue \/ PumpStep \/ UNCHANGED vars
    BY <2>4
       DEF ClientSend, ClientReceive, RelayCharge, RelayLatch, RelayEnqueue,
           PumpStep, PumpReceive, PumpDischarge, PumpUnlatch, PumpSendsResume,
           PumpReports, vars, peerVars, YieldInv
  <2> QED BY <2>1, <2>2, <2>3, <2>4 DEF Next, RelayStep
<1>3. YieldInv => NeverBothLegs
  BY DEF YieldInv, EgressDesired, NeverBothLegs, AdvertiserState
<1> QED BY <1>1, <1>2, <1>3, PTL DEF Spec

(* A flow frame is parked on the lane or counted as lost; either way lane    *)
(* and count keep their types and the count its bound.                       *)
LEMMA SendTyped ==
    ASSUME TypeOK, NEW action \in Actions, SendFlowFrame(action)
    PROVE  lane' \in Seq(Actions) /\ drops' \in 0 .. MaxDrops
<1>1. lane \in Seq(Actions) /\ drops \in 0 .. MaxDrops /\ MaxDrops \in Nat
  BY FlowAssumption DEF TypeOK
<1>2. Append(lane, action) \in Seq(Actions)
  BY <1>1
<1>3. drops < MaxDrops => drops + 1 \in 0 .. MaxDrops
  BY <1>1
<1> QED BY <1>1, <1>2, <1>3 DEF SendFlowFrame

(* advertise_edge keeps the Advertiser, the lane and the gate well-typed.    *)
LEMMA AdvertiseTyped ==
    ASSUME TypeOK, NEW action \in Actions, AdvertiseEdge(action)
    PROVE  /\ adv' \in AdvertiserState
           /\ lane' \in Seq(Actions) /\ drops' \in 0 .. MaxDrops
           /\ peerPaused' = peerPaused => egress' \in BOOLEAN
<1>1. adv' \in AdvertiserState
  BY AdvertiserTyped DEF AdvertiseEdge, TypeOK
<1>2. lane' \in Seq(Actions) /\ drops' \in 0 .. MaxDrops
  <2>1. CASE RecordEmits(adv, action)
    BY <2>1, SendTyped DEF AdvertiseEdge
  <2>2. CASE ~RecordEmits(adv, action)
    BY <2>2 DEF AdvertiseEdge, TypeOK
  <2> QED BY <2>1, <2>2
<1>3. peerPaused' = peerPaused => egress' \in BOOLEAN
  BY <1>1 DEF AdvertiseEdge, SyncEgress, EgressDesired, TypeOK
<1> QED BY <1>1, <1>2, <1>3

(* The ticker's re_advertise: the frames it owes are flow frames, and those  *)
(* that find no room are counted.                                            *)
LEMMA TickTyped ==
    ASSUME TypeOK, RelayTick
    PROVE  /\ adv' \in AdvertiserState
           /\ lane' \in Seq(Actions) /\ drops' \in 0 .. MaxDrops
           /\ egress' \in BOOLEAN
<1> DEFINE stale == adv.paused /\ ~latched
           base == IF stale THEN Record(adv, "Resume") ELSE adv
           owed == (IF stale THEN <<"Resume">> ELSE <<>>)
                     \o (IF DueFrame(base) = "None" THEN <<>> ELSE <<DueFrame(base)>>)
<1>1. base \in AdvertiserState
  BY AdvertiserTyped DEF TypeOK, Actions
<1>2. owed \in Seq(Actions)
  <2>1. DueFrame(base) # "None" => DueFrame(base) \in Actions
    BY <1>1, AdvertiserTyped DEF Actions
  <2>2. \A action \in Actions : <<action>> \in Seq(Actions) /\ <<>> \in Seq(Actions)
    OBVIOUS
  <2>3. "Resume" \in Actions
    BY DEF Actions
  <2>4. (IF stale THEN <<"Resume">> ELSE <<>>) \in Seq(Actions)
    BY <2>2, <2>3
  <2>5. (IF DueFrame(base) = "None" THEN <<>> ELSE <<DueFrame(base)>>) \in Seq(Actions)
    BY <2>1, <2>2, <2>3
  <2> QED BY <2>4, <2>5
<1>3. /\ adv' = AfterDue(base)
      /\ \E kept \in 0 .. Len(owed) :
            /\ drops + Len(owed) - kept <= MaxDrops
            /\ drops' = drops + Len(owed) - kept
            /\ lane' = lane \o SubSeq(owed, 1, kept)
  BY DEF RelayTick
<1> HIDE DEF stale, base, owed
<1>4. adv' \in AdvertiserState
  BY <1>1, <1>3, AdvertiserTyped DEF Actions
<1>5. lane' \in Seq(Actions) /\ drops' \in 0 .. MaxDrops
  <2>1. PICK kept \in 0 .. Len(owed) :
            /\ drops + Len(owed) - kept <= MaxDrops
            /\ drops' = drops + Len(owed) - kept
            /\ lane' = lane \o SubSeq(owed, 1, kept)
    BY <1>3
  <2>2. SubSeq(owed, 1, kept) \in Seq(Actions)
    BY <1>2
  <2>3. lane' \in Seq(Actions)
    BY <2>1, <2>2 DEF TypeOK
  <2>4. drops' \in 0 .. MaxDrops
    BY <1>2, <2>1, FlowAssumption DEF TypeOK
  <2> QED BY <2>3, <2>4
<1>6. egress' \in BOOLEAN
  BY <1>4 DEF RelayTick, SyncEgress, EgressDesired, TypeOK
<1> QED BY <1>4, <1>5, <1>6

(* Type correctness of the uplink: the channel between relay task and pump   *)
(* never holds more than CHANNEL_BUFFER payloads, the report channel never   *)
(* more than its capacity, and what is advertised is always a flow frame.    *)
THEOREM UplinkTyped == Spec => []TypeOK
<1> USE FlowAssumption, RetransmitsAssumption
<1>1. Init => TypeOK
  <2> SUFFICES ASSUME Init PROVE TypeOK
    OBVIOUS
  <2>1. adv \in AdvertiserState
    BY DEF Init, Silent, AdvertiserState
  <2>2. gate \in BOOLEAN /\ latched \in BOOLEAN /\ peerPaused \in BOOLEAN
        /\ egress \in BOOLEAN
    BY DEF Init
  <2>3. lane \in Seq(Actions)
    BY DEF Init
  <2> QED BY <2>1, <2>2, <2>3 DEF Init, TypeOK
<1>2. TypeOK /\ [Next]_vars => TypeOK'
  <2> SUFFICES ASSUME TypeOK, [Next]_vars PROVE TypeOK'
    OBVIOUS
  <2> USE DEF TypeOK, clientVars, meterVars, relayVars, pumpVars, peerVars
  <2>1. CASE ClientSend
    BY <2>1 DEF ClientSend
  <2>2. CASE ClientReceive
    BY <2>2 DEF ClientReceive
  <2>3. CASE RelayCharge
    BY <2>3 DEF RelayCharge
  <2>4. CASE RelayLatch
    BY <2>4 DEF RelayLatch
  <2>5. CASE RelayAdvertise
    <3>1. AdvertiseEdge("Pause") /\ "Pause" \in Actions
      BY <2>5 DEF RelayAdvertise, Actions
    <3> QED BY <2>5, <3>1, AdvertiseTyped DEF RelayAdvertise
  <2>6. CASE RelayEnqueue
    BY <2>6 DEF RelayEnqueue
  <2>7. CASE RelayEvent
    <3>1. AdvertiseEdge("Resume") /\ "Resume" \in Actions
      BY <2>7 DEF RelayEvent, Actions
    <3> QED BY <2>7, <3>1, AdvertiseTyped DEF RelayEvent
  <2>8. CASE RelayTick
    BY <2>8, TickTyped DEF RelayTick
  <2>9. ASSUME NEW p \in BOOLEAN, PeerFlow(p) PROVE TypeOK'
    BY <2>9 DEF PeerFlow, EgressDesired
  <2>10. CASE PumpReceive
    BY <2>10 DEF PumpReceive
  <2>11. CASE PumpDischarge
    BY <2>11 DEF PumpDischarge, Discharged
  <2>12. CASE PumpUnlatch
    BY <2>12 DEF PumpUnlatch
  <2>13. CASE PumpSendsResume
    BY <2>13, SendTyped DEF PumpSendsResume, Actions
  <2>14. CASE PumpReports
    BY <2>14 DEF PumpReports
  <2>15. CASE UNCHANGED vars
    BY <2>15 DEF vars
  <2> QED
    BY <2>1, <2>2, <2>3, <2>4, <2>5, <2>6, <2>7, <2>8, <2>9, <2>10, <2>11,
       <2>12, <2>13, <2>14, <2>15 DEF Next, RelayStep, PumpStep
<1> QED BY <1>1, <1>2, PTL DEF Spec
=============================================================================
