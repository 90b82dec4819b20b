----------------------------- MODULE MCTransport -----------------------------
(***************************************************************************)
(* One run for the two models of a transport's way out: the queue its frames *)
(* wait in and the writer that coalesces them.  The part is chosen at the    *)
(* start and the other stands still, so that their states add up instead of  *)
(* multiplying.                                                              *)
(***************************************************************************)
EXTENDS OutboundQueue, FrameWriter

VARIABLE part

transportVars == <<part, vars, writerVars>>

TransportInit == part \in {"queue", "writer"} /\ Init /\ WriterInit

TransportNext ==
    \/ part = "queue" /\ Next /\ UNCHANGED <<part, writerVars>>
    \/ part = "writer" /\ WriterNext /\ UNCHANGED <<part, vars>>

\* Each part has the fairness of its own specification.
TransportSpec ==
    /\ TransportInit /\ [][TransportNext]_transportVars
    /\ \A s \in Senders : WF_vars(part = "queue" /\ SendStep(s))
    /\ WF_vars(part = "queue" /\ ReceiverStep)
    /\ WF_writerVars(part = "writer" /\ WriterStep)
=============================================================================
