--------------------------- MODULE PayloadStream ---------------------------
(***************************************************************************)
(* What the data plane promises for one direction of a relay session: each *)
(* channel is a first-in first-out stream of payloads.  A payload comes out*)
(* exactly as it went in, in order; it may be lost only on a channel that a*)
(* transport fault or the channel's own closing has hurt before.  The      *)
(* promise can be voided: by what, is for the specification that implements*)
(* this one to say.  The step that voids it still hands nothing out.       *)
(***************************************************************************)
EXTENDS Sequences

CONSTANTS Channels, Values, Nothing

VARIABLES
    pending,    \* per channel: payloads taken in and not yet delivered
    out,        \* per channel: the payload delivered last
    hurt,       \* per channel: a fault has happened on it
    void        \* the promise no longer holds

StreamInit ==
    /\ pending = [c \in Channels |-> <<>>]
    /\ out = [c \in Channels |-> Nothing]
    /\ hurt = [c \in Channels |-> FALSE]
    /\ void = FALSE

Send(c, p) ==
    /\ pending' = [pending EXCEPT ![c] = Append(@, p)]
    /\ UNCHANGED <<out, hurt>>

Deliver(c) ==
    /\ pending[c] # <<>>
    /\ out' = [out EXCEPT ![c] = Head(pending[c])]
    /\ pending' = [pending EXCEPT ![c] = Tail(@)]
    /\ UNCHANGED hurt

\* The fault itself, with or without the loss of the payload it strikes.
Fault(c) ==
    /\ hurt' = [hurt EXCEPT ![c] = TRUE]
    /\ \/ UNCHANGED pending
       \/ pending[c] # <<>> /\ pending' = [pending EXCEPT ![c] = Tail(@)]
    /\ UNCHANGED out

Lose(c) ==
    /\ hurt[c]
    /\ pending[c] # <<>>
    /\ pending' = [pending EXCEPT ![c] = Tail(@)]
    /\ UNCHANGED <<out, hurt>>

Moves ==
    \E c \in Channels :
        \/ \E p \in Values : Send(c, p)
        \/ Deliver(c) \/ Fault(c) \/ Lose(c)

Kept == ~void /\ UNCHANGED void /\ Moves

Spoil == void' = TRUE /\ (~void => UNCHANGED out)

StreamNext == Kept \/ Spoil

StreamSpec == StreamInit /\ [][StreamNext]_<<pending, out, hurt, void>>
=============================================================================
