------------------------------ MODULE LeasePool ------------------------------
(***************************************************************************)
(* What a pool of clients promises, with no channel and no mutex: a client *)
(* is leased to one worker at a time; a returned client may be parked for  *)
(* the next worker while the pool is open, within the capacity, and never  *)
(* afterwards; a call that starts after the pool was shut is refused, and  *)
(* no call is refused before.                                              *)
(***************************************************************************)
EXTENDS Naturals, FiniteSets

CONSTANTS Workers, Clients, NilClient, InitialCap, MaxCap

VARIABLES
    open,     \* whether the pool was not yet shut
    parked,   \* the clients at rest
    lease,    \* the client each worker has, or NilClient
    call      \* "none", or when the pending call of a worker began:
              \* "early" for while the pool was open, "late" for after

lvars == <<open, parked, lease, call>>

Free == Clients \ (parked \cup {lease[w] : w \in Workers})

LInit ==
    /\ open = TRUE
    /\ parked \in {S \in SUBSET Clients : Cardinality(S) = InitialCap}
    /\ lease = [w \in Workers |-> NilClient]
    /\ call = [w \in Workers |-> "none"]

Call(w) ==
    /\ call[w] = "none" /\ lease[w] = NilClient
    /\ call' = [call EXCEPT ![w] = IF open THEN "early" ELSE "late"]
    /\ UNCHANGED <<open, parked, lease>>

\* An early call gets a parked client or a new one.
Grant(w) ==
    /\ call[w] = "early"
    /\ \E c \in parked \cup Free :
          /\ lease' = [lease EXCEPT ![w] = c]
          /\ parked' = parked \ {c}
    /\ call' = [call EXCEPT ![w] = "none"]
    /\ UNCHANGED open

\* A call is refused only after the pool was shut.
Refuse(w) ==
    /\ call[w] # "none" /\ ~open
    /\ call' = [call EXCEPT ![w] = "none"]
    /\ UNCHANGED <<open, parked, lease>>

GiveBack(w) ==
    /\ lease[w] # NilClient
    /\ lease' = [lease EXCEPT ![w] = NilClient]
    /\ \/ parked' = parked
       \/ /\ open
          /\ Cardinality(parked) < MaxCap
          /\ parked' = parked \cup {lease[w]}
    /\ UNCHANGED <<open, call>>

Shut ==
    /\ open
    /\ open' = FALSE
    /\ UNCHANGED <<parked, lease, call>>

LNext == \/ Shut
         \/ \E w \in Workers : Call(w) \/ Grant(w) \/ Refuse(w) \/ GiveBack(w)

LSpec == LInit /\ [][LNext]_lvars
=============================================================================
