------------------------- MODULE DownlinkFlowProofs -------------------------
(* The client's downlink gauge, for every pair of thresholds, every channel  *)
(* capacity and every number of payloads.                                    *)
EXTENDS DownlinkFlow, TLAPS

\* The part of the state the gauge's correctness rests on.
GaugeTypes ==
    /\ cpc \in {"idle", "enqueue", "charge", "latch", "advertise"}
    /\ ppc \in {"idle", "write", "check", "report"}
    /\ chan \in Nat
    /\ pending \in Nat

IInv == GaugeTypes /\ GaugeCovers

(* Every step of the relay, the serve loop and the pump keeps the gauge at   *)
(* or above the backlog; the delicate one is a discharge that overtakes the  *)
(* charge of its own payload and saturates.                                  *)
LEMMA GaugeStep == IInv /\ [Next]_vars => IInv'
<1> SUFFICES ASSUME IInv, [Next]_vars PROVE IInv'
  OBVIOUS
<1> USE FlowAssumption
        DEF IInv, GaugeTypes, GaugeCovers, appVars, serveVars, pumpVars,
            meterVars, relayVars
<1>1. CASE AppSend
  BY <1>1 DEF AppSend
<1>2. CASE RelayReceive
  BY <1>2 DEF RelayReceive
<1>3. ASSUME NEW hold \in BOOLEAN, UplinkEdge(hold) PROVE IInv'
  BY <1>3 DEF UplinkEdge
<1>4. CASE ServeTake
  BY <1>4 DEF ServeTake
<1>5. CASE ServeEnqueue
  BY <1>5 DEF ServeEnqueue
<1>6. CASE ServeCharge
  BY <1>6 DEF ServeCharge
<1>7. CASE ServeLatch
  <2>1. cpc = "latch" /\ cpc' \in {"idle", "advertise"}
    BY <1>7 DEF ServeLatch
  <2>2. UNCHANGED <<chan, ppc, pending>>
    BY <1>7 DEF ServeLatch
  <2> QED BY <2>1, <2>2
<1>8. CASE ServeAdvertise
  BY <1>8 DEF ServeAdvertise
<1>9. CASE ServeEdge
  BY <1>9 DEF ServeEdge
<1>10. CASE ServeTick
  BY <1>10 DEF ServeTick
<1>11. CASE PumpReceive
  BY <1>11 DEF PumpReceive
<1>12. CASE PumpDischarge
  <2>1. CASE pending = 0
    BY <1>12, <2>1 DEF PumpDischarge, Discharged
  <2>2. CASE pending # 0
    BY <1>12, <2>2 DEF PumpDischarge, Discharged
  <2> QED BY <2>1, <2>2
<1>13. CASE PumpUnlatch
  <2>1. ppc = "check" /\ ppc' \in {"idle", "report"}
    BY <1>13 DEF PumpUnlatch
  <2>2. UNCHANGED <<chan, cpc, pending>>
    BY <1>13 DEF PumpUnlatch
  <2> QED BY <2>1, <2>2
<1>14. CASE PumpReports
  BY <1>14 DEF PumpReports
<1>15. CASE UNCHANGED vars
  BY <1>15 DEF vars
<1> QED
  BY <1>1, <1>2, <1>3, <1>4, <1>5, <1>6, <1>7, <1>8, <1>9, <1>10, <1>11, <1>12,
     <1>13, <1>14, <1>15 DEF Next, ServeStep, PumpStep

(* A congested client never looks idle: send_data_to_local charges after it  *)
(* enqueues, and still the gauge covers the whole backlog.                   *)
THEOREM BacklogIsCovered == Spec => []GaugeCovers
<1>1. Init => IInv
  BY DEF Init, IInv, GaugeTypes, GaugeCovers
<1>2. IInv /\ [Next]_vars => IInv'
  BY GaugeStep
<1>3. IInv => GaugeCovers
  BY DEF IInv
<1> QED BY <1>1, <1>2, <1>3, PTL DEF Spec

(* Whatever is advertised or repeated, the Advertiser's state keeps its      *)
(* shape and the repetition budget of a Resume stays within Retransmits.     *)
LEMMA AdvertiserTyped ==
    ASSUME NEW a \in AdvertiserState, NEW action \in Actions
    PROVE  /\ Record(a, action) \in AdvertiserState
           /\ AfterDue(a) \in AdvertiserState
           /\ DueFrame(a) # "None" => DueFrame(a) \in Actions
<1> USE RetransmitsAssumption
<1>1. /\ a.paused \in BOOLEAN /\ a.resuming \in 0 .. Retransmits
      /\ a = [paused |-> a.paused, resuming |-> a.resuming]
  BY DEF AdvertiserState
<1>2. Record(a, action) \in AdvertiserState
  BY DEF Record, AdvertiserState
<1>3. AfterDue(a) \in AdvertiserState
  <2>1. CASE a.resuming > 0
    <3>1. AfterDue(a) = [paused |-> a.paused, resuming |-> a.resuming - 1]
      BY <1>1, <2>1 DEF AfterDue
    <3>2. a.resuming - 1 \in 0 .. Retransmits
      BY <1>1, <2>1
    <3> QED BY <1>1, <3>1, <3>2 DEF AdvertiserState
  <2>2. CASE ~(a.resuming > 0)
    BY <2>2 DEF AfterDue
  <2> QED BY <2>1, <2>2
<1>4. DueFrame(a) # "None" => DueFrame(a) \in Actions
  BY DEF DueFrame, Actions
<1> QED BY <1>2, <1>3, <1>4

(* A flow frame is parked on the lane or counted as lost; either way lane    *)
(* and count keep their types and the count its bound.                       *)
LEMMA SendTyped ==
    ASSUME TypeOK, NEW action \in Actions, SendFlowFrame(action)
    PROVE  lane' \in Seq(Actions) /\ drops' \in 0 .. MaxDrops
<1>1. lane \in Seq(Actions) /\ drops \in 0 .. MaxDrops /\ MaxDrops \in Nat
  BY FlowAssumption DEF TypeOK
<1>2. Append(lane, action) \in Seq(Actions)
  BY <1>1
<1>3. drops < MaxDrops => drops + 1 \in 0 .. MaxDrops
  BY <1>1
<1> QED BY <1>1, <1>2, <1>3 DEF SendFlowFrame

(* advertise_edge of the client keeps the Advertiser and the lane well-typed. *)
LEMMA AdvertiseTyped ==
    ASSUME TypeOK, NEW action \in Actions, AdvertiseEdge(action)
    PROVE  /\ adv' \in AdvertiserState
           /\ lane' \in Seq(Actions) /\ drops' \in 0 .. MaxDrops
<1>1. adv' \in AdvertiserState
  BY AdvertiserTyped DEF AdvertiseEdge, TypeOK
<1>2. lane' \in Seq(Actions) /\ drops' \in 0 .. MaxDrops
  <2>1. CASE RecordEmits(adv, action)
    BY <2>1, SendTyped DEF AdvertiseEdge
  <2>2. CASE ~RecordEmits(adv, action)
    BY <2>2 DEF AdvertiseEdge, TypeOK
  <2> QED BY <2>1, <2>2
<1> QED BY <1>1, <1>2

(* The ticker's re_advertise: the frames it owes are flow frames, and those  *)
(* that find no room are counted.                                            *)
LEMMA TickTyped ==
    ASSUME TypeOK, ServeTick
    PROVE  /\ adv' \in AdvertiserState
           /\ lane' \in Seq(Actions) /\ drops' \in 0 .. MaxDrops
<1> DEFINE stale == adv.paused /\ ~latched
           base == IF stale THEN Record(adv, "Resume") ELSE adv
           owed == (IF stale THEN <<"Resume">> ELSE <<>>)
                     \o (IF DueFrame(base) = "None" THEN <<>> ELSE <<DueFrame(base)>>)
<1>1. base \in AdvertiserState
  BY AdvertiserTyped DEF TypeOK, Actions
<1>2. owed \in Seq(Actions)
  <2>1. DueFrame(base) # "None" => DueFrame(base) \in Actions
    BY <1>1, AdvertiserTyped DEF Actions
  <2>2. \A action \in Actions : <<action>> \in Seq(Actions) /\ <<>> \in Seq(Actions)
    OBVIOUS
  <2>3. "Resume" \in Actions
    BY DEF Actions
  <2>4. (IF stale THEN <<"Resume">> ELSE <<>>) \in Seq(Actions)
    BY <2>2, <2>3
  <2>5. (IF DueFrame(base) = "None" THEN <<>> ELSE <<DueFrame(base)>>) \in Seq(Actions)
    BY <2>1, <2>2, <2>3
  <2> QED BY <2>4, <2>5
<1>3. /\ adv' = AfterDue(base)
      /\ \E kept \in 0 .. Len(owed) :
            /\ drops + Len(owed) - kept <= MaxDrops
            /\ drops' = drops + Len(owed) - kept
            /\ lane' = lane \o SubSeq(owed, 1, kept)
  BY DEF ServeTick
<1> HIDE DEF stale, base, owed
<1>4. adv' \in AdvertiserState
  BY <1>1, <1>3, AdvertiserTyped DEF Actions
<1>5. lane' \in Seq(Actions) /\ drops' \in 0 .. MaxDrops
  <2>1. PICK kept \in 0 .. Len(owed) :
            /\ drops + Len(owed) - kept <= MaxDrops
            /\ drops' = drops + Len(owed) - kept
            /\ lane' = lane \o SubSeq(owed, 1, kept)
    BY <1>3
  <2>2. SubSeq(owed, 1, kept) \in Seq(Actions)
    BY <1>2
  <2>3. lane' \in Seq(Actions)
    BY <2>1, <2>2 DEF TypeOK
  <2>4. drops' \in 0 .. MaxDrops
    BY <1>2, <2>1, FlowAssumption DEF TypeOK
  <2> QED BY <2>3, <2>4
<1> QED BY <1>4, <1>5

\* LegsApart is inductive together with what the gate is derived from and a
\* bound on the payloads in flight.
LegsInv ==
    /\ TypeOK
    /\ wire <= sent
    /\ egress = EgressDesired(peerPaused, holdsUplink)

(* Every step of the relay, the serve loop and the pump re-derives the gate  *)
(* from both advertisements whenever it changes one of them.                 *)
LEMMA LegsStep == LegsInv /\ [Next]_vars => LegsInv'
<1> SUFFICES ASSUME LegsInv, [Next]_vars PROVE LegsInv'
  OBVIOUS
<1> USE FlowAssumption, RetransmitsAssumption
        DEF LegsInv, TypeOK, appVars, serveVars, pumpVars, meterVars, relayVars
<1>1. CASE AppSend
  BY <1>1 DEF AppSend
<1>2. CASE RelayReceive
  <2>1. lane' \in Seq(Actions)
    BY <1>2 DEF RelayReceive
  <2>2. peerPaused' \in BOOLEAN /\ egress' \in BOOLEAN
    BY <1>2 DEF RelayReceive, EgressDesired
  <2>3. egress' = EgressDesired(peerPaused', holdsUplink')
    BY <1>2, Zenon DEF RelayReceive
  <2> QED BY <1>2, <2>1, <2>2, <2>3 DEF RelayReceive
<1>3. ASSUME NEW hold \in BOOLEAN, UplinkEdge(hold) PROVE LegsInv'
  <2>1. egress' \in BOOLEAN /\ holdsUplink' \in BOOLEAN
    BY <1>3 DEF UplinkEdge, EgressDesired
  <2>2. egress' = EgressDesired(peerPaused', holdsUplink')
    BY <1>3, Zenon DEF UplinkEdge
  <2> QED BY <1>3, <2>1, <2>2 DEF UplinkEdge
<1>4. CASE ServeTake
  BY <1>4 DEF ServeTake
<1>5. CASE ServeEnqueue
  BY <1>5 DEF ServeEnqueue
<1>6. CASE ServeCharge
  BY <1>6 DEF ServeCharge
<1>7. CASE ServeLatch
  BY <1>7 DEF ServeLatch
<1>8. CASE ServeAdvertise
  <2>1. AdvertiseEdge("Pause") /\ "Pause" \in Actions
    BY <1>8 DEF ServeAdvertise, Actions
  <2> QED BY <1>8, <2>1, AdvertiseTyped DEF ServeAdvertise
<1>9. CASE ServeEdge
  <2>1. AdvertiseEdge("Resume") /\ "Resume" \in Actions
    BY <1>9 DEF ServeEdge, Actions
  <2> QED BY <1>9, <2>1, AdvertiseTyped DEF ServeEdge
<1>10. CASE ServeTick
  BY <1>10, TickTyped DEF ServeTick
<1>11. CASE PumpReceive
  BY <1>11 DEF PumpReceive
<1>12. CASE PumpDischarge
  BY <1>12 DEF PumpDischarge, Discharged
<1>13. CASE PumpUnlatch
  BY <1>13 DEF PumpUnlatch
<1>14. CASE PumpReports
  BY <1>14 DEF PumpReports
<1>15. CASE UNCHANGED vars
  BY <1>15 DEF vars
<1> QED
  BY <1>1, <1>2, <1>3, <1>4, <1>5, <1>6, <1>7, <1>8, <1>9, <1>10, <1>11, <1>12,
     <1>13, <1>14, <1>15 DEF Next, ServeStep, PumpStep

(* The relay never gates the application's side of a channel whose uplink it *)
(* holds paused, whatever flow frames are lost, repeated or late, and every  *)
(* buffer between application and X server stays within its capacity.        *)
THEOREM LegsStayApart == Spec => []LegsApart
<1>1. Init => LegsInv
  <2> SUFFICES ASSUME Init PROVE LegsInv
    OBVIOUS
  <2> USE FlowAssumption, RetransmitsAssumption
  <2>1. adv \in AdvertiserState
    BY DEF Init, Silent, AdvertiserState
  <2>2. latched \in BOOLEAN /\ peerPaused \in BOOLEAN
        /\ holdsUplink \in BOOLEAN /\ egress \in BOOLEAN
    BY DEF Init
  <2>3. lane \in Seq(Actions)
    BY DEF Init
  <2>4. egress = EgressDesired(peerPaused, holdsUplink)
    BY Zenon DEF Init, EgressDesired
  <2>5. TypeOK
    BY <2>1, <2>2, <2>3 DEF Init, TypeOK
  <2>6. wire <= sent
    BY DEF Init
  <2> QED BY <2>4, <2>5, <2>6 DEF LegsInv
<1>2. LegsInv => LegsApart
  BY DEF LegsInv, LegsApart, NeverBothLegs, EgressDesired, TypeOK
<1> QED BY <1>1, <1>2, LegsStep, PTL DEF Spec
=============================================================================
