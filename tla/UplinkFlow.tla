---------------------------- MODULE UplinkFlow ----------------------------
(***************************************************************************)
(* Flow control of one X11 channel in the client -> application direction. *)
(* The relay task charges the channel's gauge before it enqueues a payload *)
(* (relay/connection.rs, deliver_charged); the application-write pump      *)
(* discharges it after the write (x11_listener.rs, relay_to_socket).  They *)
(* run on different threads, so every access to the gauge is a step.       *)
(* Pause and Resume travel to the client on the priority lane, which drops *)
(* when full; the client's gate obeys the last frame it received.          *)
(***************************************************************************)
EXTENDS FlowPrimitives, Sequences

VARIABLES
    gate,       \* client: the uplink EgressGate is paused
    sent,       \* client: payloads sent so far
    wire,       \* payloads on their way to the relay
    rpc,        \* relay task: where it stands in deliver_charged
    after,      \* relay task: the gauge value its charge produced
    chan,       \* payloads in the relay -> pump channel
    ppc,        \* pump: where it stands in relay_to_socket
    left,       \* pump: the gauge value its discharge produced
    pending,    \* FlowMeter.pending
    latched,    \* FlowMeter.latched
    adv,        \* relay task: its Advertiser, for this channel
    lane,       \* flow frames on their way to the client
    events,     \* Congested(Resume) reports waiting for the relay task
    drops,      \* flow frames lost so far
    peerPaused, \* relay task: the client advertises a downlink pause
    egress      \* the application-reading pump's EgressGate is paused

clientVars == <<gate, sent>>
meterVars == <<pending, latched>>
relayVars == <<rpc, after>>
pumpVars == <<ppc, left>>
peerVars == <<peerPaused, egress>>
vars == <<clientVars, wire, relayVars, chan, pumpVars, meterVars, adv, lane,
          events, drops, peerVars>>

TypeOK ==
    /\ gate \in BOOLEAN
    /\ sent \in 0 .. MaxPayloads
    /\ wire \in Nat
    /\ rpc \in {"idle", "latch", "advertise", "enqueue"}
    /\ after \in Nat
    /\ chan \in 0 .. ChanCapacity
    /\ ppc \in {"idle", "write", "check", "frame", "report"}
    /\ left \in Nat
    /\ pending \in Nat
    /\ latched \in BOOLEAN
    /\ adv \in AdvertiserState
    /\ lane \in Seq(Actions)
    /\ events \in 0 .. ReportCapacity
    /\ drops \in 0 .. MaxDrops
    /\ peerPaused \in BOOLEAN
    /\ egress \in BOOLEAN

Init ==
    /\ gate = FALSE
    /\ sent = 0
    /\ wire = 0
    /\ rpc = "idle"
    /\ after = 0
    /\ chan = 0
    /\ ppc = "idle"
    /\ left = 0
    /\ pending = 0
    /\ latched = FALSE
    /\ adv = Silent
    /\ lane = <<>>
    /\ events = 0
    /\ drops = 0
    /\ peerPaused = FALSE
    /\ egress = FALSE

\* OutboundSender::send_priority of a flow frame: parked, or dropped because
\* the lane is full (of audio packets, say).
SendFlowFrame(action) ==
    \/ /\ Len(lane) < LaneCapacity
       /\ lane' = Append(lane, action)
       /\ UNCHANGED drops
    \/ /\ drops < MaxDrops
       /\ drops' = drops + 1
       /\ UNCHANGED lane

\* sync_egress, after `adv` has been brought up to date.
SyncEgress == egress' = EgressDesired(peerPaused, adv'.paused)

\* advertise_edge
AdvertiseEdge(action) ==
    /\ adv' = Record(adv, action)
    /\ IF RecordEmits(adv, action)
         THEN SendFlowFrame(action)
         ELSE UNCHANGED <<lane, drops>>
    /\ SyncEgress

-----------------------------------------------------------------------------
(* The client                                                              *)

\* The local pump passes `wait_open`, reads the X server and sends.
ClientSend ==
    /\ ~gate
    /\ sent < MaxPayloads
    /\ sent' = sent + 1
    /\ wire' = wire + 1
    /\ UNCHANGED <<gate, relayVars, chan, pumpVars, meterVars, adv, lane,
                   events, drops, peerVars>>

\* The serve loop applies a FlowControl frame to the channel's gate.
ClientReceive ==
    /\ lane # <<>>
    /\ gate' = (Head(lane) = "Pause")
    /\ lane' = Tail(lane)
    /\ UNCHANGED <<sent, wire, relayVars, chan, pumpVars, meterVars, adv,
                   events, drops, peerVars>>

-----------------------------------------------------------------------------
(* The relay task                                                          *)

\* Mutant: a paused channel is no longer charged.
RelayChargeUnlessLatched ==
    /\ rpc = "idle"
    /\ wire > 0
    /\ wire' = wire - 1
    /\ pending' = IF latched THEN pending ELSE pending + 1
    /\ after' = pending'
    /\ rpc' = "latch"
    /\ UNCHANGED <<clientVars, chan, pumpVars, latched, adv, lane, events,
                   drops, peerVars>>

\* deliver_charged: the fetch_add of FlowMeter::charge ...
RelayCharge ==
    /\ rpc = "idle"
    /\ wire > 0
    /\ wire' = wire - 1
    /\ pending' = pending + 1
    /\ after' = pending + 1
    /\ rpc' = "latch"
    /\ UNCHANGED <<clientVars, chan, pumpVars, latched, adv, lane, events,
                   drops, peerVars>>

\* ... the compare-exchange of `latch`, taken only at or above `high` ...
RelayLatch ==
    /\ rpc = "latch"
    /\ IF after >= High /\ ~latched
         THEN latched' = TRUE /\ rpc' = "advertise"
         ELSE latched' = latched /\ rpc' = "enqueue"
    /\ UNCHANGED <<clientVars, wire, after, chan, pumpVars, pending, adv, lane,
                   events, drops, peerVars>>

\* ... the Pause edge, announced before the task may park on a full channel ...
RelayAdvertise ==
    /\ rpc = "advertise"
    /\ AdvertiseEdge("Pause")
    /\ rpc' = "enqueue"
    /\ UNCHANGED <<clientVars, wire, after, chan, pumpVars, meterVars, events,
                   peerPaused>>

\* ... and the enqueue, which waits for room.
RelayEnqueue ==
    /\ rpc = "enqueue"
    /\ chan < ChanCapacity
    /\ chan' = chan + 1
    /\ rpc' = "idle"
    /\ UNCHANGED <<clientVars, wire, after, pumpVars, meterVars, adv, lane,
                   events, drops, peerVars>>

\* handle_x11_event, Congested: the pump reported a resume edge.
RelayEvent ==
    /\ rpc = "idle"
    /\ events > 0
    /\ events' = events - 1
    /\ AdvertiseEdge("Resume")
    /\ UNCHANGED <<clientVars, wire, relayVars, chan, pumpVars, meterVars,
                   peerPaused>>

\* Mutant: the tick repeats what is advertised and does not look at the gauge.
RelayTickBlind ==
    /\ rpc = "idle"
    /\ Len(lane) < LaneCapacity
    /\ DueFrame(adv) # "None"
    /\ adv' = AfterDue(adv)
    /\ SendFlowFrame(DueFrame(adv))
    /\ SyncEgress
    /\ UNCHANGED <<clientVars, wire, relayVars, chan, pumpVars, meterVars,
                   events, peerPaused>>

\* re_advertise: a held pause whose gauge has unlatched is resumed first, then
\* every frame that is due goes out.  The lane drains between two ticks.
RelayTick ==
    /\ rpc = "idle"
    /\ Len(lane) + 2 <= LaneCapacity
    /\ LET stale == adv.paused /\ ~latched
           base == IF stale THEN Record(adv, "Resume") ELSE adv
           owed == (IF stale THEN <<"Resume">> ELSE <<>>)
                     \o (IF DueFrame(base) = "None" THEN <<>> ELSE <<DueFrame(base)>>)
       IN  /\ owed # <<>>
           /\ adv' = AfterDue(base)
           /\ \E kept \in 0 .. Len(owed) :
                 /\ drops + Len(owed) - kept <= MaxDrops
                 /\ drops' = drops + Len(owed) - kept
                 /\ lane' = lane \o SubSeq(owed, 1, kept)
    /\ SyncEgress
    /\ UNCHANGED <<clientVars, wire, relayVars, chan, pumpVars, meterVars,
                   events, peerPaused>>

\* set_peer_pause: the client pauses or resumes the other direction.
PeerFlow(paused) ==
    /\ rpc = "idle"
    /\ peerPaused # paused
    /\ peerPaused' = paused
    /\ egress' = EgressDesired(paused, adv.paused)
    /\ UNCHANGED <<clientVars, wire, relayVars, chan, pumpVars, meterVars, adv,
                   lane, events, drops>>

-----------------------------------------------------------------------------
(* The application-write pump                                              *)

PumpReceive ==
    /\ ppc = "idle"
    /\ chan > 0
    /\ chan' = chan - 1
    /\ ppc' = "write"
    /\ UNCHANGED <<clientVars, wire, relayVars, left, meterVars, adv, lane,
                   events, drops, peerVars>>

\* The write completes; FlowMeter::discharge subtracts ...
PumpDischarge ==
    /\ ppc = "write"
    /\ pending' = Discharged(pending, 1)
    /\ left' = Discharged(pending, 1)
    /\ ppc' = "check"
    /\ UNCHANGED <<clientVars, wire, relayVars, chan, latched, adv, lane,
                   events, drops, peerVars>>

\* Mutant: exactly at `low`, which a race can step over.
PumpUnlatchAt ==
    /\ ppc = "check"
    /\ IF latched /\ left = Low
         THEN latched' = FALSE /\ ppc' = "frame"
         ELSE latched' = latched /\ ppc' = "idle"
    /\ UNCHANGED <<clientVars, wire, relayVars, chan, left, pending, adv, lane,
                   events, drops, peerVars>>

\* ... and unlatches when the value IT computed is at or below `low`.
PumpUnlatch ==
    /\ ppc = "check"
    /\ IF latched /\ left <= Low
         THEN latched' = FALSE /\ ppc' = "frame"
         ELSE latched' = latched /\ ppc' = "idle"
    /\ UNCHANGED <<clientVars, wire, relayVars, chan, left, pending, adv, lane,
                   events, drops, peerVars>>

\* The resume edge goes straight onto the priority lane ...
PumpSendsResume ==
    /\ ppc = "frame"
    /\ SendFlowFrame("Resume")
    /\ ppc' = "report"
    /\ UNCHANGED <<clientVars, wire, relayVars, chan, left, meterVars, adv,
                   events, peerVars>>

\* Mutant: the pump waits until the relay task takes its report.
PumpReportsWaiting ==
    /\ ppc = "report"
    /\ events < ReportCapacity
    /\ events' = events + 1
    /\ ppc' = "idle"
    /\ UNCHANGED <<clientVars, wire, relayVars, chan, left, meterVars, adv,
                   lane, drops, peerVars>>

\* ... and is reported to the relay task with a try_send that may fail.
PumpReports ==
    /\ ppc = "report"
    /\ events' \in {events, events + 1}
    /\ events' <= ReportCapacity
    /\ ppc' = "idle"
    /\ UNCHANGED <<clientVars, wire, relayVars, chan, left, meterVars, adv,
                   lane, drops, peerVars>>

-----------------------------------------------------------------------------
RelayStep ==
    RelayCharge \/ RelayLatch \/ RelayAdvertise \/ RelayEnqueue

PumpStep ==
    PumpReceive \/ PumpDischarge \/ PumpUnlatch \/ PumpSendsResume \/ PumpReports

Next ==
    \/ ClientSend \/ ClientReceive
    \/ RelayStep \/ RelayEvent \/ RelayTick
    \/ \E paused \in BOOLEAN : PeerFlow(paused)
    \/ PumpStep

\* The client reads its socket, the relay task serves its sources (tokio's
\* select is fair between them), the ticker keeps firing, and the application
\* keeps reading its X11 socket.  The client need not send.
Fairness ==
    /\ WF_vars(ClientReceive)
    /\ WF_vars(RelayStep)
    /\ SF_vars(RelayEvent)
    /\ SF_vars(RelayTick)
    /\ WF_vars(PumpStep)

Spec == Init /\ [][Next]_vars /\ Fairness

-----------------------------------------------------------------------------
(* Properties                                                              *)

(* The relay charges BEFORE it enqueues, so the gauge is exact: it counts    *)
(* the payload in the relay's hands, those in the channel and the one being  *)
(* written, and the saturating subtraction never saturates.                  *)
GaugeIsExact ==
    pending = (IF rpc = "idle" THEN 0 ELSE 1) + chan
                + (IF ppc = "write" THEN 1 ELSE 0)

(* A latched gauge still has a discharge ahead of it: the latch that asked   *)
(* the client to stop is never left over from a backlog already drained,     *)
(* although latch and unlatch race with the counter they look at.            *)
LatchedHasBacklog == latched => pending > 0 \/ (ppc = "check" /\ left <= Low)

(* The yield rule: the relay never enforces the client's downlink pause on a *)
(* channel whose uplink it advertises as paused (both legs gated at once is  *)
(* the stop-and-wait deadlock).                                              *)
NeverBothLegs == ~(egress /\ adv.paused)

(* flow.rs:24-28 "a lost Resume would strand a paused channel forever, so    *)
(* the advertiser re-states the current action": while the application keeps *)
(* reading, the client's gate opens again, whatever reports of the pump were *)
(* lost.  Lost flow frames strand it in one case only, and one is enough     *)
(* when Low > 0: a second report of the pump finds the pause retracted and   *)
(* cancels the repetition of the lost Resume (flow.rs:246-251), and the      *)
(* relay is silent from then on.                                             *)
GateReopens == gate ~> (~gate \/ [](drops > 0 /\ adv = Silent))

(* Everything the client sent reaches the application.                       *)
BacklogDrains == (wire + pending > 0) ~> (wire + pending = 0)

(* Neither side waits for the other for ever: a shut gate opens again and    *)
(* what was sent arrives, although the relay task blocks on the channel that *)
(* the pump drains and the pump reports to the relay task.                   *)
UplinkLives == GateReopens /\ BacklogDrains
===========================================================================
