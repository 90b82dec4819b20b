--------------------------- MODULE DownlinkFlow ---------------------------
(***************************************************************************)
(* Flow control of one X11 channel in the application -> client direction. *)
(* The client's serve loop enqueues a payload for the local X server and   *)
(* charges the gauge AFTERWARDS (proxy.rs, send_data_to_local), while the  *)
(* local pump discharges it after its write; the relay enforces the pause  *)
(* on the application-reading pump, subject to the yield rule.             *)
(***************************************************************************)
EXTENDS FlowPrimitives, Sequences

VARIABLES
    sent,       \* application: payloads read from it so far
    wire,       \* payloads on their way to the client
    cpc,        \* serve loop: where it stands in send_data_to_local
    after,      \* serve loop: the gauge value its charge produced
    chan,       \* payloads in the serve loop -> pump channel
    ppc,        \* local pump: where it stands in its downlink leg
    left,       \* local pump: the gauge value its discharge produced
    pending,    \* FlowMeter.pending
    latched,    \* FlowMeter.latched
    adv,        \* serve loop: its Advertiser, for this channel
    lane,       \* flow frames on their way to the relay
    edges,      \* resume edges the pump reported to the serve loop
    drops,      \* flow frames lost so far
    peerPaused, \* relay: the client advertises this channel as paused
    holdsUplink,\* relay: it advertises the channel's uplink as paused
    egress      \* relay: the application-reading pump's gate is paused

appVars == <<sent, wire>>
serveVars == <<cpc, after>>
pumpVars == <<ppc, left>>
meterVars == <<pending, latched>>
relayVars == <<peerPaused, holdsUplink, egress>>
vars == <<appVars, serveVars, chan, pumpVars, meterVars, adv, lane, edges,
          drops, relayVars>>

TypeOK ==
    /\ sent \in 0 .. MaxPayloads
    /\ wire \in 0 .. MaxPayloads
    /\ cpc \in {"idle", "enqueue", "charge", "latch", "advertise"}
    /\ after \in Nat
    /\ chan \in 0 .. ChanCapacity
    /\ ppc \in {"idle", "write", "check", "report"}
    /\ left \in Nat
    /\ pending \in Nat
    /\ latched \in BOOLEAN
    /\ adv \in AdvertiserState
    /\ lane \in Seq(Actions)
    /\ edges \in 0 .. ReportCapacity
    /\ drops \in 0 .. MaxDrops
    /\ peerPaused \in BOOLEAN
    /\ holdsUplink \in BOOLEAN
    /\ egress \in BOOLEAN

Init ==
    /\ sent = 0
    /\ wire = 0
    /\ cpc = "idle"
    /\ after = 0
    /\ chan = 0
    /\ ppc = "idle"
    /\ left = 0
    /\ pending = 0
    /\ latched = FALSE
    /\ adv = Silent
    /\ lane = <<>>
    /\ edges = 0
    /\ drops = 0
    /\ peerPaused = FALSE
    /\ holdsUplink = FALSE
    /\ egress = FALSE

\* send_flow_frame: the priority lane takes the frame or drops it.
SendFlowFrame(action) ==
    \/ /\ Len(lane) < LaneCapacity
       /\ lane' = Append(lane, action)
       /\ UNCHANGED drops
    \/ /\ drops < MaxDrops
       /\ drops' = drops + 1
       /\ UNCHANGED lane

\* advertise_edge of the client
AdvertiseEdge(action) ==
    /\ adv' = Record(adv, action)
    /\ IF RecordEmits(adv, action)
         THEN SendFlowFrame(action)
         ELSE UNCHANGED <<lane, drops>>

-----------------------------------------------------------------------------
(* The relay                                                               *)

\* socket_to_relay: past `egress.wait_open()` the application is read and the
\* payload travels through the relay task to the client.
AppSend ==
    /\ ~egress
    /\ sent < MaxPayloads
    /\ sent' = sent + 1
    /\ wire' = wire + 1
    /\ UNCHANGED <<serveVars, chan, pumpVars, meterVars, adv, lane, edges,
                   drops, relayVars>>

\* handle_inbound_frame, FlowControl: set_peer_pause and sync_egress.
RelayReceive ==
    /\ lane # <<>>
    /\ peerPaused' = (Head(lane) = "Pause")
    /\ egress' = EgressDesired(Head(lane) = "Pause", holdsUplink)
    /\ lane' = Tail(lane)
    /\ UNCHANGED <<appVars, serveVars, chan, pumpVars, meterVars, adv, edges,
                   drops, holdsUplink>>

\* The uplink's gauge crosses a threshold: advertise_edge re-derives the gate.
UplinkEdge(hold) ==
    /\ holdsUplink # hold
    /\ holdsUplink' = hold
    /\ egress' = EgressDesired(peerPaused, hold)
    /\ UNCHANGED <<appVars, serveVars, chan, pumpVars, meterVars, adv, lane,
                   edges, drops, peerPaused>>

-----------------------------------------------------------------------------
(* The client's serve loop                                                 *)

\* dispatch_frame hands a payload to send_data_to_local ...
ServeTake ==
    /\ cpc = "idle"
    /\ wire > 0
    /\ wire' = wire - 1
    /\ cpc' = "enqueue"
    /\ UNCHANGED <<sent, after, chan, pumpVars, meterVars, adv, lane, edges,
                   drops, relayVars>>

\* ... which waits for room in the pump's channel: the whole serve loop waits ...
ServeEnqueue ==
    /\ cpc = "enqueue"
    /\ chan < ChanCapacity
    /\ chan' = chan + 1
    /\ cpc' = "charge"
    /\ UNCHANGED <<appVars, after, pumpVars, meterVars, adv, lane, edges, drops,
                   relayVars>>

\* Mutant: a paused channel is no longer charged.
ServeChargeUnlessLatched ==
    /\ cpc = "charge"
    /\ pending' = IF latched THEN pending ELSE pending + 1
    /\ after' = pending'
    /\ cpc' = "latch"
    /\ UNCHANGED <<appVars, chan, pumpVars, latched, adv, lane, edges, drops,
                   relayVars>>

\* ... then FlowMeter::charge adds it to the gauge ...
ServeCharge ==
    /\ cpc = "charge"
    /\ pending' = pending + 1
    /\ after' = pending + 1
    /\ cpc' = "latch"
    /\ UNCHANGED <<appVars, chan, pumpVars, latched, adv, lane, edges, drops,
                   relayVars>>

\* ... and latches at or above `high` ...
ServeLatch ==
    /\ cpc = "latch"
    /\ IF after >= High /\ ~latched
         THEN latched' = TRUE /\ cpc' = "advertise"
         ELSE latched' = latched /\ cpc' = "idle"
    /\ UNCHANGED <<appVars, after, chan, pumpVars, pending, adv, lane, edges,
                   drops, relayVars>>

\* ... and the Pause edge is advertised.
ServeAdvertise ==
    /\ cpc = "advertise"
    /\ AdvertiseEdge("Pause")
    /\ cpc' = "idle"
    /\ UNCHANGED <<appVars, after, chan, pumpVars, meterVars, edges, relayVars>>

\* The serve loop takes a reported resume edge.
ServeEdge ==
    /\ cpc = "idle"
    /\ edges > 0
    /\ edges' = edges - 1
    /\ AdvertiseEdge("Resume")
    /\ UNCHANGED <<appVars, serveVars, chan, pumpVars, meterVars, relayVars>>

\* re_advertise: a held pause whose gauge has unlatched is resumed, then every
\* frame that is due goes out.  The lane drains between two ticks.
ServeTick ==
    /\ cpc = "idle"
    /\ Len(lane) + 2 <= LaneCapacity
    /\ LET stale == adv.paused /\ ~latched
           base == IF stale THEN Record(adv, "Resume") ELSE adv
           owed == (IF stale THEN <<"Resume">> ELSE <<>>)
                     \o (IF DueFrame(base) = "None" THEN <<>> ELSE <<DueFrame(base)>>)
       IN  /\ owed # <<>>
           /\ adv' = AfterDue(base)
           /\ \E kept \in 0 .. Len(owed) :
                 /\ drops + Len(owed) - kept <= MaxDrops
                 /\ drops' = drops + Len(owed) - kept
                 /\ lane' = lane \o SubSeq(owed, 1, kept)
    /\ UNCHANGED <<appVars, serveVars, chan, pumpVars, meterVars, edges, relayVars>>

-----------------------------------------------------------------------------
(* The local pump's downlink leg                                           *)

PumpReceive ==
    /\ ppc = "idle"
    /\ chan > 0
    /\ chan' = chan - 1
    /\ ppc' = "write"
    /\ UNCHANGED <<appVars, serveVars, left, meterVars, adv, lane, edges, drops,
                   relayVars>>

\* The write completes; FlowMeter::discharge subtracts, saturating ...
PumpDischarge ==
    /\ ppc = "write"
    /\ pending' = Discharged(pending, 1)
    /\ left' = Discharged(pending, 1)
    /\ ppc' = "check"
    /\ UNCHANGED <<appVars, serveVars, chan, latched, adv, lane, edges, drops,
                   relayVars>>

\* ... and unlatches when the value it computed is at or below `low`.
PumpUnlatch ==
    /\ ppc = "check"
    /\ IF latched /\ left <= Low
         THEN latched' = FALSE /\ ppc' = "report"
         ELSE latched' = latched /\ ppc' = "idle"
    /\ UNCHANGED <<appVars, serveVars, chan, left, pending, adv, lane, edges,
                   drops, relayVars>>

\* Mutant: the pump waits until the serve loop takes its report.
PumpReportsWaiting ==
    /\ ppc = "report"
    /\ edges < ReportCapacity
    /\ edges' = edges + 1
    /\ ppc' = "idle"
    /\ UNCHANGED <<appVars, serveVars, chan, left, meterVars, adv, lane, drops,
                   relayVars>>

\* The edge is reported with a try_send that may fail.
PumpReports ==
    /\ ppc = "report"
    /\ edges' \in {edges, edges + 1}
    /\ edges' <= ReportCapacity
    /\ ppc' = "idle"
    /\ UNCHANGED <<appVars, serveVars, chan, left, meterVars, adv, lane, drops,
                   relayVars>>

-----------------------------------------------------------------------------
ServeStep ==
    ServeTake \/ ServeEnqueue \/ ServeCharge \/ ServeLatch \/ ServeAdvertise

PumpStep == PumpReceive \/ PumpDischarge \/ PumpUnlatch \/ PumpReports

Next ==
    \/ AppSend \/ RelayReceive
    \/ \E hold \in BOOLEAN : UplinkEdge(hold)
    \/ ServeStep \/ ServeEdge \/ ServeTick
    \/ PumpStep

\* The relay and the serve loop serve all their sources, the ticker keeps
\* firing, and the local X server keeps reading.  The application need not
\* write, and the uplink need not be congested.
Fairness ==
    /\ WF_vars(RelayReceive)
    /\ WF_vars(ServeStep)
    /\ SF_vars(ServeEdge)
    /\ SF_vars(ServeTick)
    /\ WF_vars(PumpStep)

Spec == Init /\ [][Next]_vars /\ Fairness

-----------------------------------------------------------------------------
(* Properties                                                              *)

(* Although the charge trails the enqueue and the discharge saturates, the   *)
(* gauge never under-counts what the local X server still has to take: a     *)
(* congested client cannot look idle.                                        *)
GaugeCovers ==
    pending + (IF cpc = "charge" THEN 1 ELSE 0)
        >= chan + (IF ppc = "write" THEN 1 ELSE 0)

(* The yield rule at the relay's gate, seen from the downlink: while the     *)
(* relay holds the uplink of a channel paused it enforces no pause on the    *)
(* application's side, whatever the client reported (flow.rs EgressGate).    *)
NeverBothLegs == ~(egress /\ holdsUplink)

(* Payloads already read from the application reach the local X server.      *)
EverythingDelivered ==
    (wire + chan > 0 \/ cpc = "enqueue")
        ~> (wire + chan = 0 /\ cpc # "enqueue" /\ ppc # "write")

(* The types of both ends, and the yield rule at the relay's gate.           *)
LegsApart == TypeOK /\ NeverBothLegs
=============================================================================
