---------------------------- MODULE LifecycleProofs ----------------------------
(***************************************************************************)
(* The safety of the process's life, for any number of connections and     *)
(* probes and every configuration.                                         *)
(*                                                                         *)
(* None of the properties is inductive.  That the pool outlives the        *)
(* handlers needs that a connection is open after Shutdown began only      *)
(* while main drains (Draining); that nil means a closed pool needs that   *)
(* nil is in serverErrors only when main has left its select for good      *)
(* (Reports); that a late probe is not ready needs the pool it found       *)
(* (Probing).                                                              *)
(***************************************************************************)
EXTENDS Lifecycle, TLAPS

\* What the listeners report: nil only when Shutdown closed the listener.
Reports ==
    /\ \A l \in Listeners : lst[l] = "returned" => ret[l] # "none"
    /\ \A l \in Listeners : ret[l] = "nil" => stopping
    /\ errors = "nil" => stopping

\* Shutdown is over only when no connection is left.
Draining ==
    /\ stopping => main \in {"drain", "close", "return", "exited"}
    /\ stopping /\ main # "drain" => \A c \in Conns : conn[c] = "none"
    /\ main = "drain" => stopping
    /\ pool = "closed" => main \in {"return", "exited"}

\* run returns nil without a pool, or after it closed it.
Returns ==
    /\ main = "config" => pool = "none"
    /\ main \in {"return", "exited"} /\ exit = "nil" => pool # "open"

\* Nothing after the first stage runs with a configuration that is not valid.
Configured == main \in {"level", "spec", "backend", "pool"} => Valid(cfg)

\* A late probe found the pool closed, which stays closed.
Probing ==
    \A p \in late : pool = "closed" /\ probe[p] \in {"asked", "refused", "not_ready"}

IInv == TypeOK /\ Reports /\ Draining /\ Returns /\ Configured /\ Probing

\* Everything holds when the process is started.
LEMMA InitIInv == Init => IInv
<1> SUFFICES ASSUME Init PROVE IInv OBVIOUS
<1>1. TypeOK
  <2>1. stopping \in BOOLEAN BY DEF Init
  <2>2. /\ lst \in [Listeners -> {"none", "start", "serving", "returned", "sent"}]
        /\ ret \in [Listeners -> {"none", "nil", "error"}]
        /\ conn \in [Conns -> {"none", "open", "handling", "leased", "refused"}]
        /\ probe \in [Probes -> {"idle", "asked", "leased", "refused", "ready", "not_ready"}]
    BY DEF Init
  <2>3. /\ main \in Stages /\ exit = "none" /\ shutdown \in 0..1 /\ errors = "empty"
        /\ pool = "none" /\ cfg \in Configs /\ late \subseteq Probes
    BY DEF Init, Stages
  <2> QED BY <2>1, <2>2, <2>3 DEF TypeOK
<1>2. Reports /\ Draining /\ Returns /\ Configured /\ Probing
  BY DEF Init, Reports, Draining, Returns, Configured, Probing
<1> QED BY <1>1, <1>2 DEF IInv

\* The steps of run before it listens.
LEMMA StartupKeepsIInv ==
    ASSUME IInv, Configure \/ ShowUsage \/ SetLevel \/ Prepare \/ StageFails \/ CreatePool \/ Start
    PROVE  IInv'
<1> USE DEF IInv, TypeOK, Reports, Draining, Returns, Configured, Probing, Stages,
            ServersAndPool, aside, GoOn, GiveUp
<1>1. CASE Configure BY <1>1 DEF Configure
<1>2. CASE ShowUsage BY <1>2 DEF ShowUsage
<1>3. CASE SetLevel BY <1>3 DEF SetLevel
<1>4. CASE Prepare
  <2>1. /\ main \in {"spec", "backend", "denylist"}
        /\ main' \in {"backend", "pool", "address"}
        /\ main = "denylist" => main' = "address"
    BY <1>4 DEF Prepare, After
  <2> QED BY <1>4, <2>1 DEF Prepare
<1>5. CASE StageFails BY <1>5 DEF StageFails
<1>6. CASE CreatePool BY <1>6 DEF CreatePool
<1>7. CASE Start BY <1>7 DEF Start, Listeners
<1> QED BY <1>1, <1>2, <1>3, <1>4, <1>5, <1>6, <1>7

\* The goroutines of the listeners.
LEMMA ListenersKeepIInv ==
    ASSUME IInv,
           ListenerStops \/ \E l \in Listeners : Listen(l) \/ ListenerFails(l) \/ ReportError(l)
    PROVE  IInv'
<1> USE DEF IInv, TypeOK, Reports, Draining, Returns, Configured, Probing, aside
<1>1. CASE ListenerStops BY <1>1 DEF ListenerStops, Listeners
<1>2. ASSUME NEW l \in Listeners, Listen(l) PROVE IInv'
  BY <1>2 DEF Listen
<1>3. ASSUME NEW l \in Listeners, ListenerFails(l) PROVE IInv'
  BY <1>3 DEF ListenerFails
<1>4. ASSUME NEW l \in Listeners, ReportError(l) PROVE IInv'
  BY <1>4 DEF ReportError
<1> QED BY <1>1, <1>2, <1>3, <1>4

\* The connections and the probes.
LEMMA ConnectionsKeepIInv ==
    ASSUME IInv, \E c \in Conns : Accept(c) \/ Begin(c) \/ Handle(c) \/ Disconnect(c)
    PROVE  IInv'
<1> USE DEF IInv, TypeOK, Reports, Draining, Returns, Configured, Probing, aside, Running
<1>1. ASSUME NEW c \in Conns, Accept(c) PROVE IInv'
  BY <1>1 DEF Accept
<1>2. ASSUME NEW c \in Conns, Begin(c) PROVE IInv'
  BY <1>2 DEF Begin
<1>3. ASSUME NEW c \in Conns, Lease(c) PROVE IInv'
  BY <1>3 DEF Lease
<1>4. ASSUME NEW c \in Conns, Finish(c) PROVE IInv'
  BY <1>4 DEF Finish
<1>5. ASSUME NEW c \in Conns, Disconnect(c) PROVE IInv'
  BY <1>5 DEF Disconnect
<1> QED BY <1>1, <1>2, <1>3, <1>4, <1>5 DEF Handle

LEMMA ProbesKeepIInv ==
    ASSUME IInv, \E p \in Probes : ProbeCall(p) \/ ProbeGet(p) \/ ProbeAnswer(p) \/ ProbeEnd(p)
    PROVE  IInv'
<1> USE DEF IInv, TypeOK, Reports, Draining, Returns, Configured, Probing
<1>1. ASSUME NEW p \in Probes, ProbeCall(p) PROVE IInv'
  BY <1>1 DEF ProbeCall
<1>2. ASSUME NEW p \in Probes, ProbeGet(p) PROVE IInv'
  BY <1>2 DEF ProbeGet
<1>3. ASSUME NEW p \in Probes, ProbeAnswer(p) PROVE IInv'
  BY <1>3 DEF ProbeAnswer
<1>4. ASSUME NEW p \in Probes, ProbeEnd(p) PROVE IInv'
  BY <1>4 DEF ProbeEnd
<1> QED BY <1>1, <1>2, <1>3, <1>4

\* The signal, and main from its select to its end.
LEMMA ShutdownKeepsIInv ==
    ASSUME IInv, \/ Signal \/ ServerError \/ TakeSignal \/ ShutdownApi \/ ShutdownFails
                 \/ Drained \/ ClosePool \/ Exit
    PROVE  IInv'
<1> USE DEF IInv, TypeOK, Reports, Draining, Returns, Configured, Probing, aside
<1>1. CASE Signal BY <1>1 DEF Signal
<1>2. CASE ServerError BY <1>2 DEF ServerError
<1>3. CASE TakeSignal BY <1>3 DEF TakeSignal
<1>4. CASE ShutdownApi BY <1>4 DEF ShutdownApi
<1>5. CASE ShutdownFails BY <1>5 DEF ShutdownFails
<1>6. CASE Drained BY <1>6 DEF Drained
<1>7. CASE ClosePool BY <1>7 DEF ClosePool
<1>8. CASE Exit BY <1>8 DEF Exit
<1> QED BY <1>1, <1>2, <1>3, <1>4, <1>5, <1>6, <1>7, <1>8

\* The conjunction is an invariant of the process.
THEOREM Inductive == Spec => []IInv
<1>1. ASSUME IInv, [Next]_vars PROVE IInv'
  <2>1. CASE Next
    BY <1>1, <2>1, StartupKeepsIInv, ListenersKeepIInv, ConnectionsKeepIInv, ProbesKeepIInv,
       ShutdownKeepsIInv DEF Next, Main
  <2>2. CASE UNCHANGED vars
    BY <1>1, <2>2 DEF vars, aside, IInv, TypeOK, Reports, Draining, Returns, Configured, Probing
  <2> QED BY <1>1, <2>1, <2>2
<1> QED BY InitIInv, <1>1, PTL DEF Spec

\* The types of the process's state: a listener that has returned has something to
\* report, so the channel holds nothing but nil or an error.
THEOREM TypeCorrect == Spec => []TypeOK
BY Inductive, PTL DEF IInv

\* No handler of a graceful shutdown finds the pool closed, and none is cut off.
THEOREM PoolOutlivesEveryHandler == Spec => []PoolOutlivesHandlers
<1>1. IInv => PoolOutlivesHandlers BY DEF IInv, Draining, PoolOutlivesHandlers
<1> QED BY Inductive, <1>1, PTL

\* run returns nil only with its pool closed: the nil of a listener that Shutdown
\* closed never reaches the select.
THEOREM NilMeansClosed == Spec => []CleanExit
<1>1. IInv => CleanExit BY DEF IInv, Returns, CleanExit
<1> QED BY Inductive, <1>1, PTL

\* A number of clients that the validation accepts is one that NewChanPool accepts,
\* also around 100, where its first argument jumps.
LEMMA ValidFits == \A c \in Configs : Valid(c) => PoolFits(c.capacity)
BY ConfigAssumption DEF Valid, PoolFits, InitialCap

LEMMA ValidIsKnown == \A c \in Configs : Valid(c) => ToLower(c.level) \in KnownLevels
BY DEF Valid, Levels, KnownLevels, ToLower

\* No configuration that was validated is refused by the later stages.
THEOREM NoValidatedIsRefused == Spec => []ValidatedIsNotRefused
<1>1. IInv => ValidatedIsNotRefused
  BY ValidFits, ValidIsKnown DEF IInv, TypeOK, Configured, ValidatedIsNotRefused
<1> QED BY Inductive, <1>1, PTL

\* Readiness is not reported by a probe that came after the pool was closed.
THEOREM LateIsNotReady == Spec => []LateProbeIsNotReady
<1>1. IInv => LateProbeIsNotReady
  BY DEF IInv, Probing, LateProbeIsNotReady
<1> QED BY Inductive, <1>1, PTL

===============================================================================
