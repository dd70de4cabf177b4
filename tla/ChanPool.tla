------------------------------ MODULE ChanPool ------------------------------
(***************************************************************************)
(* The pool of upstream HTTP clients of the API Firewall                   *)
(* (internal/platform/proxy/chainpool.go), one action per access to shared *)
(* memory.                                                                 *)
(*                                                                         *)
(* Get reads the field reverseProxyChan twice without the mutex, Put reads *)
(* it once under RLock, Close clears it under Lock and closes the channel  *)
(* after Unlock.  Both reads of Get are data races with the write of       *)
(* Close: a build that merges them shows only the behaviours in which      *)
(* GetLoad follows GetCheck with nothing in between, which are among       *)
(* those below.                                                            *)
(*                                                                         *)
(* Workers are the goroutines that hold a client while they serve one      *)
(* request (openapiWafHandler, and the readiness probe); Closers are the   *)
(* callers of Close.                                                       *)
(***************************************************************************)
EXTENDS Naturals, FiniteSets, Sequences

CONSTANTS
    Workers,      \* goroutines that call Get and Put
    Closers,      \* goroutines that call Close
    Clients,      \* identities of HTTP clients; a dropped client's may be reused
    NilClient,    \* Go's nil
    InitialCap,   \* clients made by NewChanPool
    MaxCap        \* capacity of the channel

\* The checks of NewChanPool on its arguments.
ASSUME CapacityAssumption ==
    /\ InitialCap \in Nat
    /\ MaxCap \in Nat \ {0}
    /\ InitialCap <= MaxCap

ASSUME NilAssumption == NilClient \notin Clients

\* The factory never runs out of clients: one for every slot and every worker.
ASSUME EnoughClients ==
    /\ IsFiniteSet(Clients)
    /\ Cardinality(Clients) >= MaxCap + Cardinality(Workers)

VARIABLES
    field,    \* p.reverseProxyChan: "chan" or "nil"
    buf,      \* the clients buffered in the channel
    closed,   \* whether close() was called on the channel
    pc,       \* where each worker is
    chan,     \* the channel operand a worker loaded for its select
    held,     \* the client a worker holds
    late,     \* history: the worker's Get was called when field was nil
    cpc       \* where each closer is

vars == <<field, buf, closed, pc, chan, held, late, cpc>>

Parked == {buf[i] : i \in DOMAIN buf}
Leased == {held[w] : w \in Workers} \ {NilClient}

\* The clients that exist: parked in the channel or in a worker's hands.
Live == Parked \cup Leased

\* The RWMutex.  A reader is inside Put; Lock announces its writer, which keeps
\* new readers out, then waits for the readers that are inside to leave.
Readers == {w \in Workers : pc[w] \in {"put_check", "put_send"}}
Pending == {c \in Closers : cpc[c] \in {"enter", "swap"}}

Init ==
    /\ field = "chan"
    /\ buf \in {s \in [1..InitialCap -> Clients] :
                   \A i, j \in 1..InitialCap : s[i] = s[j] => i = j}
    /\ closed = FALSE
    /\ pc = [w \in Workers |-> "idle"]
    /\ chan = [w \in Workers |-> "nil"]
    /\ held = [w \in Workers |-> NilClient]
    /\ late = [w \in Workers |-> FALSE]
    /\ cpc = [c \in Closers |-> "idle"]

-----------------------------------------------------------------------------
(* Get *)

\* A handler calls Get.
GetCall(w) ==
    /\ pc[w] = "idle"
    /\ pc' = [pc EXCEPT ![w] = "check"]
    /\ late' = [late EXCEPT ![w] = field = "nil"]
    /\ UNCHANGED <<field, buf, closed, chan, held, cpc>>

\* Mutant: Get without its check of the field.
GetCheck_Skipped(w) ==
    /\ pc[w] = "check"
    /\ pc' = [pc EXCEPT ![w] = "load"]
    /\ UNCHANGED <<field, buf, closed, chan, held, late, cpc>>

\* if p.reverseProxyChan == nil { return nil, errClosed }
GetCheck(w) ==
    /\ pc[w] = "check"
    /\ pc' = [pc EXCEPT ![w] = IF field = "nil" THEN "failed" ELSE "load"]
    /\ UNCHANGED <<field, buf, closed, chan, held, late, cpc>>

\* The select evaluates its channel operand: the second read of the field.
GetLoad(w) ==
    /\ pc[w] = "load"
    /\ chan' = [chan EXCEPT ![w] = field]
    /\ pc' = [pc EXCEPT ![w] = "select"]
    /\ UNCHANGED <<field, buf, closed, held, late, cpc>>

\* case proxy := <-chan with a buffered client, of an open or a closed channel.
GetReceive(w) ==
    /\ pc[w] = "select" /\ chan[w] = "chan" /\ buf # <<>>
    /\ held' = [held EXCEPT ![w] = Head(buf)]
    /\ buf' = Tail(buf)
    /\ pc' = [pc EXCEPT ![w] = "using"]
    /\ UNCHANGED <<field, closed, chan, late, cpc>>

\* Mutant: an empty channel is taken for a closed one.
GetDrained_Open(w) ==
    /\ pc[w] = "select" /\ chan[w] = "chan" /\ buf = <<>>
    /\ pc' = [pc EXCEPT ![w] = "failed"]
    /\ UNCHANGED <<field, buf, closed, chan, held, late, cpc>>

\* A closed and drained channel yields nil: return nil, errClosed.
GetDrained(w) ==
    /\ pc[w] = "select" /\ chan[w] = "chan" /\ buf = <<>> /\ closed
    /\ pc' = [pc EXCEPT ![w] = "failed"]
    /\ UNCHANGED <<field, buf, closed, chan, held, late, cpc>>

\* default: the channel is empty, or the operand was nil; a client is made.
GetFactory(w) ==
    /\ pc[w] = "select"
    /\ chan[w] = "nil" \/ (buf = <<>> /\ ~closed)
    /\ \E c \in Clients \ Live : held' = [held EXCEPT ![w] = c]
    /\ pc' = [pc EXCEPT ![w] = "using"]
    /\ UNCHANGED <<field, buf, closed, chan, late, cpc>>

\* Mutant: the handler tries again instead of answering.
GetFailed_Retried(w) ==
    /\ pc[w] = "failed"
    /\ pc' = [pc EXCEPT ![w] = "check"]
    /\ chan' = [chan EXCEPT ![w] = "nil"]
    /\ UNCHANGED <<field, buf, closed, held, late, cpc>>

\* errClosed: the handler answers 503 and returns without a client.
GetFailed(w) ==
    /\ pc[w] = "failed"
    /\ pc' = [pc EXCEPT ![w] = "idle"]
    /\ chan' = [chan EXCEPT ![w] = "nil"]
    /\ late' = [late EXCEPT ![w] = FALSE]
    /\ UNCHANGED <<field, buf, closed, held, cpc>>

-----------------------------------------------------------------------------
(* Put *)

\* The handler is done with the client and its deferred Put starts.
PutCall(w) ==
    /\ pc[w] = "using"
    /\ pc' = [pc EXCEPT ![w] = "put_lock"]
    /\ UNCHANGED <<field, buf, closed, chan, held, late, cpc>>

\* Mutants: Put without RLock; a lock that lets readers pass a waiting writer.
PutRLock_Missing(w) ==
    /\ pc[w] = "put_lock"
    /\ pc' = [pc EXCEPT ![w] = "put_check"]
    /\ UNCHANGED <<field, buf, closed, chan, held, late, cpc>>

PutRLock_PassesWriter(w) ==
    /\ pc[w] = "put_lock"
    /\ \A c \in Closers : cpc[c] # "swap"
    /\ pc' = [pc EXCEPT ![w] = "put_check"]
    /\ UNCHANGED <<field, buf, closed, chan, held, late, cpc>>

\* p.mutex.RLock()
PutRLock(w) ==
    /\ pc[w] = "put_lock"
    /\ Pending = {}
    /\ pc' = [pc EXCEPT ![w] = "put_check"]
    /\ UNCHANGED <<field, buf, closed, chan, held, late, cpc>>

\* Mutant: the handler goes on with the client it gave back, and puts it again.
Returned_StillUsed(w) ==
    /\ pc' = [pc EXCEPT ![w] = "using"]
    /\ UNCHANGED <<held, chan, late>>

\* The return of Put, by any of its paths: RUnlock, and the lease is over.
Returned(w) ==
    /\ pc' = [pc EXCEPT ![w] = "idle"]
    /\ held' = [held EXCEPT ![w] = NilClient]
    /\ chan' = [chan EXCEPT ![w] = "nil"]
    /\ late' = [late EXCEPT ![w] = FALSE]

\* if p.reverseProxyChan == nil { return nil }
PutDropped(w) ==
    /\ pc[w] = "put_check" /\ field = "nil"
    /\ Returned(w)
    /\ UNCHANGED <<field, buf, closed, cpc>>

PutCheck(w) ==
    /\ pc[w] = "put_check" /\ field # "nil"
    /\ pc' = [pc EXCEPT ![w] = "put_send"]
    /\ UNCHANGED <<field, buf, closed, chan, held, late, cpc>>

\* case p.reverseProxyChan <- proxy, or default when the channel is full; a send on
\* a closed channel panics.
PutSend(w) ==
    /\ pc[w] = "put_send"
    /\ IF closed
       THEN /\ pc' = [pc EXCEPT ![w] = "panicked"]
            /\ UNCHANGED <<buf, chan, held, late>>
       ELSE /\ buf' = IF Len(buf) < MaxCap THEN Append(buf, held[w]) ELSE buf
            /\ Returned(w)
    /\ UNCHANGED <<field, closed, cpc>>

-----------------------------------------------------------------------------
(* Close *)

\* p.mutex.Lock(), first half: one writer at a time is announced.
CloseLock(c) ==
    /\ cpc[c] = "idle"
    /\ Pending = {}
    /\ cpc' = [cpc EXCEPT ![c] = "enter"]
    /\ UNCHANGED <<field, buf, closed, pc, chan, held, late>>

\* p.mutex.Lock(), second half: the readers have left.
CloseEnter(c) ==
    /\ cpc[c] = "enter"
    /\ Readers = {}
    /\ cpc' = [cpc EXCEPT ![c] = "swap"]
    /\ UNCHANGED <<field, buf, closed, pc, chan, held, late>>

\* Copy the field, clear it, Unlock; a copy that is nil returns at once.
CloseSwap(c) ==
    /\ cpc[c] = "swap"
    /\ field' = "nil"
    /\ cpc' = [cpc EXCEPT ![c] = IF field = "nil" THEN "done" ELSE "close"]
    /\ UNCHANGED <<buf, closed, pc, chan, held, late>>

\* close(reverseProxyChan), which panics when the channel is closed already.
CloseChan(c) ==
    /\ cpc[c] = "close"
    /\ closed' = TRUE
    /\ cpc' = [cpc EXCEPT ![c] = IF closed THEN "panicked" ELSE "done"]
    /\ UNCHANGED <<field, buf, pc, chan, held, late>>

-----------------------------------------------------------------------------

Get(w) == \/ GetCheck(w) \/ GetLoad(w)
          \/ GetReceive(w) \/ GetDrained(w) \/ GetFactory(w)
          \/ GetFailed(w)

Put(w) == \/ PutCall(w) \/ PutRLock(w)
          \/ PutDropped(w) \/ PutCheck(w) \/ PutSend(w)

Close(c) == CloseEnter(c) \/ CloseSwap(c) \/ CloseChan(c)

Next ==
    \/ \E w \in Workers : GetCall(w) \/ Get(w) \/ Put(w)
    \/ \E c \in Closers : CloseLock(c) \/ Close(c)

Spec == Init /\ [][Next]_vars

\* Goroutines are scheduled, and a handler that holds a client ends: the
\* client's dial, read and write all have timeouts.  Nothing makes a request
\* arrive; a closer that started is not abandoned.
Fairness ==
    /\ \A w \in Workers : WF_vars(Get(w) \/ Put(w))
    /\ \A c \in Closers : WF_vars(Close(c))

FairSpec == Spec /\ Fairness

-----------------------------------------------------------------------------
(* Properties *)

TypeOK ==
    /\ field \in {"chan", "nil"}
    /\ buf \in Seq(Clients)
    /\ Len(buf) <= MaxCap
    /\ closed \in BOOLEAN
    /\ pc \in [Workers -> {"idle", "check", "load", "select", "failed", "using",
                           "put_lock", "put_check", "put_send", "panicked"}]
    /\ chan \in [Workers -> {"chan", "nil"}]
    /\ held \in [Workers -> Clients \cup {NilClient}]
    /\ late \in [Workers -> BOOLEAN]
    /\ cpc \in [Closers -> {"idle", "enter", "swap", "close", "done", "panicked"}]

\* Neither Put's send nor Close's close() ever meets a closed channel, although
\* close() runs after Unlock: no goroutine of the pool panics.
NoPanic ==
    /\ \A w \in Workers : pc[w] # "panicked"
    /\ \A c \in Closers : cpc[c] # "panicked"

\* A client serves one request at a time: no two workers hold the same one, none
\* is held and parked at once, and none is parked twice.
ExclusiveLease ==
    /\ \A v, w \in Workers : held[v] = held[w] /\ held[v] # NilClient => v = w
    /\ \A w \in Workers : held[w] # NilClient => held[w] \notin Parked
    /\ \A i, j \in DOMAIN buf : buf[i] = buf[j] => i = j

\* A Get that is called once Close has cleared the field is refused: only a Get
\* that overlaps Close may still hand out a client.
LateGetRefused == \A w \in Workers : late[w] => held[w] = NilClient

\* Once the field is cleared nothing is parked any more: the channel only drains.
NoParkAfterClose == [][field = "nil" => Len(buf') <= Len(buf)]_vars

\* A Close that has announced itself ends, whatever the traffic of Puts is: the
\* pending writer keeps new readers out.
CloseEnds == \A c \in Closers : cpc[c] = "enter" ~> cpc[c] = "done"

\* Every Get is answered and every client that was handed out is given back.
RequestEnds == \A w \in Workers : pc[w] = "check" ~> pc[w] = "idle"

\* The inductive invariant behind NoPanic, ExclusiveLease and LateGetRefused.
\* The mutex: one writer, and no reader inside with it.
LockInv ==
    /\ \A c, d \in Pending : c = d
    /\ \A c \in Closers : cpc[c] = "swap" => Readers = {}

\* The channel is closed after the field is cleared, by the one closer that
\* cleared it, and the field cannot be cleared under a reader about to send.
ChanInv ==
    /\ closed => field = "nil"
    /\ \A w \in Workers : pc[w] = "put_send" => field = "chan"
    /\ \A c \in Closers : cpc[c] = "close" => field = "nil" /\ ~closed
    /\ \A c, d \in Closers : cpc[c] = "close" /\ cpc[d] = "close" => c = d

\* A worker holds a client exactly between the end of Get and the end of Put.
HoldInv ==
    \A w \in Workers :
        held[w] # NilClient <=> pc[w] \in {"using", "put_lock", "put_check", "put_send"}

LateInv == \A w \in Workers : late[w] => field = "nil" /\ pc[w] \in {"check", "failed"}

IndInv == TypeOK /\ LockInv /\ ChanInv /\ HoldInv /\ LateInv /\ NoPanic /\ ExclusiveLease

=============================================================================
