---------------------------- MODULE GatewayFirewall ----------------------------
(***************************************************************************)
(* The middlewares and the handler keep the promise of Firewall.  A        *)
(* request is forwarded when performProxy starts, and answered when the    *)
(* chain has been left.                                                    *)
(***************************************************************************)
EXTENDS Gateway

StageOf(r) ==
    CASE pc[r] = "idle" -> "idle"
      [] pc[r] = "done" -> "answered"
      [] OTHER -> IF sent[r] = 0 THEN "received" ELSE "forwarded"

\* Response and log count when nothing can change them any more.
AnswerOf(r) ==
    IF pc[r] = "done" THEN [resp |-> resp[r], log |-> log[r]]
    ELSE [resp |-> NoResponse, log |-> {}]

Seen == INSTANCE Firewall WITH
            stage <- [r \in Requests |-> StageOf(r)],
            answer <- [r \in Requests |-> AnswerOf(r)]

\* Every step of the chain is a step of the black box or is not seen: in particular
\* no order of middlewares, deferred calls and panics lets a client see a response
\* that another part of the chain would have replaced.
ImplementsFirewall == Seen!FSpec
=============================================================================
