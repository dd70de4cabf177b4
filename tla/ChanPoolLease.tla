---------------------------- MODULE ChanPoolLease ----------------------------
(***************************************************************************)
(* chainpool.go keeps the promise of LeasePool.  A call is pending from    *)
(* GetCall to the step that decides it; the pool is shut at CloseSwap.     *)
(***************************************************************************)
EXTENDS ChanPool

Undecided == {"check", "load", "select"}

CallOf(w) == IF pc[w] \notin Undecided THEN "none" ELSE IF late[w] THEN "late" ELSE "early"

Calls == [w \in Workers |-> CallOf(w)]

Open == field = "chan"

Lease == INSTANCE LeasePool WITH open <- Open, parked <- Parked, lease <- held, call <- Calls

\* Every step of the pool is a step of LeasePool or leaves its state alone: the
\* unlocked reads of Get and the close outside the lock are not observable.
ImplementsLeasePool == Lease!LSpec
=============================================================================
