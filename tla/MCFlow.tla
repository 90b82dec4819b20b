------------------------------- MODULE MCFlow --------------------------------
(***************************************************************************)
(* One run for both legs of a channel's flow control: the uplink and, in     *)
(* variables of its own, the downlink.  The leg is chosen at the start and   *)
(* the other stands still, so that their states add up instead of            *)
(* multiplying.                                                              *)
(***************************************************************************)
EXTENDS UplinkFlow

VARIABLES leg, dSent, dWire, dCpc, dAfter, dChan, dPpc, dLeft, dPending, dLatched,
          dAdv, dLane, dEdges, dDrops, dPeerPaused, dHoldsUplink, dEgress

\* One payload and one lost flow frame less.
Down == INSTANCE DownlinkFlow WITH
    MaxDrops <- 1, MaxPayloads <- 4,
    sent <- dSent, wire <- dWire, cpc <- dCpc, after <- dAfter, chan <- dChan, ppc <- dPpc,
    left <- dLeft, pending <- dPending, latched <- dLatched, adv <- dAdv, lane <- dLane,
    edges <- dEdges, drops <- dDrops, peerPaused <- dPeerPaused,
    holdsUplink <- dHoldsUplink, egress <- dEgress

downVars == <<dSent, dWire, dCpc, dAfter, dChan, dPpc, dLeft, dPending, dLatched,
              dAdv, dLane, dEdges, dDrops, dPeerPaused, dHoldsUplink, dEgress>>
flowVars == <<leg, vars, downVars>>

FlowInit == leg \in {"up", "down"} /\ Init /\ Down!Init

\* A step of one leg or of the other.
Either(up, down) ==
    \/ leg = "up" /\ up /\ UNCHANGED <<leg, downVars>>
    \/ leg = "down" /\ down /\ UNCHANGED <<leg, vars>>

FlowNext == Either(Next, Down!Next)

\* Each leg has the fairness of its own specification; as the leg never
\* changes, the obligations of the two are stated in pairs.
FlowSpec ==
    /\ FlowInit /\ [][FlowNext]_flowVars
    /\ WF_flowVars(Either(ClientReceive, Down!RelayReceive))
    /\ WF_flowVars(Either(RelayStep, Down!ServeStep))
    /\ SF_flowVars(Either(RelayEvent, Down!ServeEdge))
    /\ SF_flowVars(Either(RelayTick, Down!ServeTick))
    /\ WF_flowVars(Either(PumpStep, Down!PumpStep))

-----------------------------------------------------------------------------
(* The properties of the downlink.                                           *)

(* The client's gauge never under-counts, although it is charged after the   *)
(* enqueue (proxy.rs:410).                                                   *)
GaugeCovers == Down!GaugeCovers

(* The downlink's types and the yield rule at the relay's gate               *)
(* (relay/connection.rs:280).                                                *)
LegsApart == Down!LegsApart

(* Every payload read from the application reaches the local X server,       *)
(* although the serve loop parks on the pump's channel (serve/mod.rs:290).   *)
EverythingDelivered == Down!EverythingDelivered
=============================================================================
