-------------------------- MODULE FlowPrimitives --------------------------
(***************************************************************************)
(* The flow-control primitives of rx11-core (flow.rs) for one channel: the *)
(* Advertiser's bookkeeping and the gauge's arithmetic, with the limits    *)
(* they are built with.  Both ends of a channel use them (modules          *)
(* UplinkFlow and DownlinkFlow).                                           *)
(***************************************************************************)
EXTENDS Integers

CONSTANTS
    Retransmits,    \* FlowDefaults::RESUME_RETRANSMITS
    High, Low,      \* flow_pause_bytes and flow_resume_bytes, in payloads
    ChanCapacity,   \* CHANNEL_BUFFER of the channel to the pump that writes
    LaneCapacity,   \* bound: flow frames in transit to the other end
    ReportCapacity, \* bound: the pump's reports its task has not taken
    MaxDrops,       \* bound: flow frames lost on a full priority lane
    MaxPayloads     \* bound: payloads sent

ASSUME RetransmitsAssumption == Retransmits \in Nat \ {0}

\* FlowMeter::new clamps low to high and high to at least 1.
ASSUME FlowAssumption ==
    /\ High \in Nat \ {0}
    /\ Low \in 0 .. High
    /\ {ChanCapacity, LaneCapacity, ReportCapacity} \subseteq Nat \ {0}
    /\ {MaxDrops, MaxPayloads} \subseteq Nat

Actions == {"Pause", "Resume"}

\* What an Advertiser remembers of one channel: membership in `paused` and
\* the budget in `resuming` (0: absent).
AdvertiserState == [paused : BOOLEAN, resuming : 0 .. Retransmits]

Silent == [paused |-> FALSE, resuming |-> 0]

\* Mutant: every Resume adds to the repetition budget.
RecordAccumulating(a, action) ==
    IF action = "Pause"
      THEN [paused |-> TRUE, resuming |-> 0]
      ELSE [paused |-> FALSE, resuming |-> a.resuming + Retransmits]

\* Advertiser::record: the new state ...
Record(a, action) ==
    IF action = "Pause"
      THEN [paused |-> TRUE, resuming |-> 0]
      ELSE [paused |-> FALSE, resuming |-> IF a.paused THEN Retransmits ELSE 0]

\* ... and whether a frame goes out now.
RecordEmits(a, action) == a.paused = (action = "Resume")

\* Advertiser::due: the frame owed on this tick ("None" when silent) ...
DueFrame(a) ==
    IF a.paused THEN "Pause" ELSE IF a.resuming > 0 THEN "Resume" ELSE "None"

\* ... and the state after it was taken.
AfterDue(a) ==
    IF a.resuming > 0 THEN [a EXCEPT !.resuming = @ - 1] ELSE a

\* Mutant: a wrapping subtraction.
DischargedWrapping(pending, n) == pending - n

\* FlowMeter::discharge subtracts saturating.
Discharged(pending, n) == IF pending >= n THEN pending - n ELSE 0

\* Mutant: the peer's pause is obeyed unconditionally.
EgressEager(peerPaused, wePauseUp) == peerPaused

\* egress_desired, the yield rule.
EgressDesired(peerPaused, wePauseUp) == peerPaused /\ ~wePauseUp
=============================================================================
