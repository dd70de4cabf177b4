------------------------------ MODULE Lifecycle ------------------------------
(***************************************************************************)
(* The process (cmd/api-firewall/main.go): the steps of run before it      *)
(* listens, main in its select, the two goroutines that run the API and    *)
(* the health server, the channels shutdown and serverErrors between them, *)
(* the connections of the API server, the probes of the health server      *)
(* (handlers/check.go) and the pool of clients that main closes last.      *)
(*                                                                         *)
(* fasthttp.Server is external.  Its contract, as main uses it:            *)
(* ListenAndServe returns an error when it cannot listen or accept, and    *)
(* nil when Shutdown closes its listener; Shutdown waits until no          *)
(* connection is open, or returns at once when the server has no listener  *)
(* yet; a connection is served until its client, or the read timeout, or   *)
(* the end of a request during Shutdown closes it.                         *)
(***************************************************************************)
EXTENDS Integers, Sequences, FiniteSets

CONSTANTS
    Conns,      \* connection slots of the API server
    Probes,     \* connections of the health server
    Configs     \* what the process may be started with

\* asks: it is asked for its usage or version only; level: the log level, of which
\* the validation and the switch in run know the same four; statuses: the block
\* status, followed by the exclude list of the shadow API check.
ASSUME ConfigAssumption ==
    Configs \subseteq [asks : BOOLEAN, capacity : Int, level : STRING, statuses : Seq(Int)]

Listeners == {"api", "health"}
Stages == {"config", "level", "spec", "backend", "pool", "denylist", "address"}

VARIABLES
    main,       \* where main is: a stage of its start, "select", "shutdown",
                \* "drain", "close", "return" or "exited"
    exit,       \* what run returns: "none", "nil" or "error"
    cfg,        \* the configuration
    shutdown,   \* the channel shutdown, of capacity 1: the signals in it
    errors,     \* the channel serverErrors, of capacity 1: "empty", or its value
    lst,        \* each listener's goroutine: "none", "start", "serving", "returned", "sent"
    ret,        \* what its ListenAndServe returned: "none", "nil" or "error"
    stopping,   \* the API server is in Shutdown, with a listener to close
    conn,       \* each connection: "none", "open", "handling", "leased", "refused"
    pool,       \* the pool: "none", "open" or "closed"
    probe,      \* each probe: "idle", "asked", "leased", "refused", "ready", "not_ready"
    late        \* history: the probes that came after the pool was closed

\* What only startup and the probes change.
aside == <<cfg, probe, late>>

vars == <<main, exit, shutdown, errors, lst, ret, stopping, conn, pool, aside>>

Running == main # "exited"

Init ==
    /\ main = "config" /\ exit = "none"
    /\ cfg \in Configs
    /\ shutdown = 0 /\ errors = "empty"
    /\ lst = [l \in Listeners |-> "none"]
    /\ ret = [l \in Listeners |-> "none"]
    /\ stopping = FALSE
    /\ conn = [c \in Conns |-> "none"]
    /\ pool = "none"
    /\ probe = [p \in Probes |-> "idle"] /\ late = {}

-----------------------------------------------------------------------------
(* run, before it listens *)

ServersAndPool == <<shutdown, errors, lst, ret, stopping, conn, pool, aside>>

GoOn(stage) == main' = stage /\ UNCHANGED exit
GiveUp == main' = "return" /\ exit' = "error"

Levels == {"DEBUG", "INFO", "ERROR", "WARNING"}

AllHttpStatuses ==
    (100..103) \cup (200..208) \cup {226} \cup (300..305) \cup {307, 308}
    \cup (400..418) \cup (421..426) \cup {428, 429, 431, 451}
    \cup (500..508) \cup {510, 511}

\* The tags of the fields: gt=0, oneof, HttpStatusCodes.
Valid(c) ==
    /\ c.capacity > 0
    /\ c.level \in Levels
    /\ \A i \in DOMAIN c.statuses : c.statuses[i] \in AllHttpStatuses

\* The usage or the version is printed instead, or what there is cannot be parsed.
Configure ==
    /\ main = "config" /\ ~cfg.asks
    /\ IF Valid(cfg) THEN GoOn("level") ELSE GiveUp
    /\ UNCHANGED ServersAndPool

ShowUsage ==
    /\ main = "config" /\ cfg.asks
    /\ main' = "return" /\ exit' = "nil"
    /\ UNCHANGED ServersAndPool

ToLower(l) ==
    LET lower == [DEBUG |-> "debug", INFO |-> "info", ERROR |-> "error", WARNING |-> "warning"]
    IN  IF l \in DOMAIN lower THEN lower[l] ELSE l

KnownLevels == {"debug", "error", "warning", "info"}

SetLevel ==
    /\ main = "level"
    /\ IF ToLower(cfg.level) \in KnownLevels THEN GoOn("spec") ELSE GiveUp
    /\ UNCHANGED ServersAndPool

\* The API specification and the routes, the backend's URL, the denylist and the
\* address to listen on, in their order around the pool.
After == [spec |-> "backend", backend |-> "pool", denylist |-> "address"]

Prepare ==
    /\ main \in DOMAIN After
    /\ GoOn(After[main]) /\ UNCHANGED ServersAndPool

\* A stage fails for what it finds outside: an argument, a file, a URL, a
\* certificate.
StageFails ==
    /\ main \in Stages \ {"level"}
    /\ GiveUp /\ UNCHANGED ServersAndPool

\* Mutant: the test is off by one at 100 clients.
InitialCap_OffByOne(capacity) == IF capacity < 99 THEN 1 ELSE 100

InitialCap(capacity) == IF capacity < 100 THEN 1 ELSE 100

\* The test of NewChanPool.
PoolFits(capacity) == capacity > 0 /\ InitialCap(capacity) \in 0..capacity

CreatePool ==
    /\ main = "pool"
    /\ IF PoolFits(cfg.capacity) THEN GoOn("denylist") /\ pool' = "open"
                                 ELSE GiveUp /\ UNCHANGED pool
    /\ UNCHANGED <<shutdown, errors, lst, ret, stopping, conn, aside>>

\* The goroutines are started, and main waits in its select.
Start ==
    /\ main = "address"
    /\ GoOn("select")
    /\ lst' = [l \in Listeners |-> "start"]
    /\ UNCHANGED <<shutdown, errors, ret, stopping, conn, pool, aside>>

-----------------------------------------------------------------------------
(* The goroutines of the listeners *)

Listen(l) ==
    /\ Running /\ lst[l] = "start"
    /\ lst' = [lst EXCEPT ![l] = "serving"]
    /\ UNCHANGED <<main, exit, shutdown, errors, ret, stopping, conn, pool, aside>>

\* The address is in use, or accepting fails.
ListenerFails(l) ==
    /\ Running /\ lst[l] \in {"start", "serving"}
    /\ l = "api" => ~stopping
    /\ lst' = [lst EXCEPT ![l] = "returned"]
    /\ ret' = [ret EXCEPT ![l] = "error"]
    /\ UNCHANGED <<main, exit, shutdown, errors, stopping, conn, pool, aside>>

\* The listener was closed by Shutdown.
ListenerStops ==
    /\ Running /\ stopping /\ lst["api"] = "serving"
    /\ lst' = [lst EXCEPT !["api"] = "returned"]
    /\ ret' = [ret EXCEPT !["api"] = "nil"]
    /\ UNCHANGED <<main, exit, shutdown, errors, stopping, conn, pool, aside>>

\* Mutant: a send that is dropped when nobody receives, on a channel without buffer.
ReportError_Dropped(l) ==
    /\ Running /\ lst[l] = "returned"
    /\ lst' = [lst EXCEPT ![l] = "sent"]
    /\ UNCHANGED <<main, exit, shutdown, errors, ret, stopping, conn, pool, aside>>

\* serverErrors <- ..., which blocks while the slot is taken.
ReportError(l) ==
    /\ Running /\ lst[l] = "returned" /\ errors = "empty"
    /\ errors' = ret[l]
    /\ lst' = [lst EXCEPT ![l] = "sent"]
    /\ UNCHANGED <<main, exit, shutdown, ret, stopping, conn, pool, aside>>

-----------------------------------------------------------------------------
(* The connections of the API server *)

Accept(c) ==
    /\ Running /\ lst["api"] = "serving" /\ ~stopping /\ conn[c] = "none"
    /\ conn' = [conn EXCEPT ![c] = "open"]
    /\ UNCHANGED <<main, exit, shutdown, errors, lst, ret, stopping, pool, aside>>

\* A request arrives on an open connection; also while the server shuts down.
Begin(c) ==
    /\ Running /\ conn[c] = "open"
    /\ conn' = [conn EXCEPT ![c] = "handling"]
    /\ UNCHANGED <<main, exit, shutdown, errors, lst, ret, stopping, pool, aside>>

\* The handler asks the pool for a client.
Lease(c) ==
    /\ Running /\ conn[c] = "handling"
    /\ conn' = [conn EXCEPT ![c] = IF pool = "open" THEN "leased" ELSE "refused"]
    /\ UNCHANGED <<main, exit, shutdown, errors, lst, ret, stopping, pool, aside>>

\* The response is written; the connection is kept alive unless the server stops.
Finish(c) ==
    /\ Running /\ conn[c] \in {"leased", "refused"}
    /\ conn' = [conn EXCEPT ![c] = IF stopping THEN "none" ELSE "open"]
    /\ UNCHANGED <<main, exit, shutdown, errors, lst, ret, stopping, pool, aside>>

\* The client closes the connection, or the read timeout does.
Disconnect(c) ==
    /\ Running /\ conn[c] = "open"
    /\ conn' = [conn EXCEPT ![c] = "none"]
    /\ UNCHANGED <<main, exit, shutdown, errors, lst, ret, stopping, pool, aside>>

-----------------------------------------------------------------------------
(* The probes of the health server *)

\* Readiness is called, or ends: the health server is never shut down.
ProbeCall(p) ==
    /\ Running /\ lst["health"] = "serving" /\ probe[p] = "idle"
    /\ probe' = [probe EXCEPT ![p] = "asked"]
    /\ late' = IF pool = "closed" THEN late \cup {p} ELSE late
    /\ UNCHANGED <<main, exit, cfg, shutdown, errors, lst, ret, stopping, conn, pool>>

ProbeEnd(p) ==
    /\ Running /\ probe[p] \in {"ready", "not_ready"}
    /\ probe' = [probe EXCEPT ![p] = "idle"]
    /\ late' = late \ {p}
    /\ UNCHANGED <<main, exit, cfg, shutdown, errors, lst, ret, stopping, conn, pool>>

ProbeGet(p) ==
    /\ Running /\ probe[p] = "asked"
    /\ probe' = [probe EXCEPT ![p] = IF pool = "open" THEN "leased" ELSE "refused"]
    /\ UNCHANGED <<main, exit, cfg, shutdown, errors, lst, ret, stopping, conn, pool, late>>

\* Mutant: only an error of Put counts.
ProbeAnswer_ByPut(p) ==
    /\ Running /\ probe[p] \in {"leased", "refused"}
    /\ probe' = [probe EXCEPT ![p] = "ready"]
    /\ UNCHANGED <<main, exit, cfg, shutdown, errors, lst, ret, stopping, conn, pool, late>>

\* A client that was got is put back, which cannot fail, also when the pool was
\* closed meanwhile.
ProbeAnswer(p) ==
    /\ Running /\ probe[p] \in {"leased", "refused"}
    /\ probe' = [probe EXCEPT ![p] = IF @ = "leased" THEN "ready" ELSE "not_ready"]
    /\ UNCHANGED <<main, exit, cfg, shutdown, errors, lst, ret, stopping, conn, pool, late>>

-----------------------------------------------------------------------------
(* main *)

\* The OS delivers SIGTERM or SIGINT; signal.Notify drops it when the channel is
\* full, and is called only before the servers start.
Signal ==
    /\ Running /\ main \notin Stages /\ shutdown = 0
    /\ shutdown' = 1
    /\ UNCHANGED <<main, exit, errors, lst, ret, stopping, conn, pool, aside>>

\* case err := <-serverErrors: run returns errors.Wrap(err), which is nil for nil.
ServerError ==
    /\ main = "select" /\ errors # "empty"
    /\ errors' = "empty"
    /\ exit' = errors
    /\ main' = "return"
    /\ UNCHANGED <<shutdown, lst, ret, stopping, conn, pool, aside>>

\* case sig := <-shutdown
TakeSignal ==
    /\ main = "select" /\ shutdown = 1
    /\ shutdown' = 0
    /\ main' = "shutdown"
    /\ UNCHANGED <<exit, errors, lst, ret, stopping, conn, pool, aside>>

\* api.Shutdown() closes the listener, or finds that there is none yet.
ShutdownApi ==
    /\ main = "shutdown"
    /\ IF lst["api"] = "start" \/ (ret["api"] = "error" /\ \A c \in Conns : conn[c] = "none")
       THEN main' = "close" /\ UNCHANGED stopping
       ELSE main' = "drain" /\ stopping' = TRUE
    /\ UNCHANGED <<exit, shutdown, errors, lst, ret, conn, pool, aside>>

\* Mutant: main goes back to its select when Shutdown fails.
ShutdownFails_Reselects ==
    /\ main = "shutdown" /\ lst["api"] # "start"
    /\ main' = "select"
    /\ UNCHANGED <<exit, shutdown, errors, lst, ret, stopping, conn, pool, aside>>

\* Closing the listener fails: run returns the error and leaves the pool open.
ShutdownFails ==
    /\ main = "shutdown" /\ lst["api"] # "start"
    /\ exit' = "error"
    /\ main' = "return"
    /\ UNCHANGED <<shutdown, errors, lst, ret, stopping, conn, pool, aside>>

\* Mutant: Shutdown waits for the requests that hold a client, and only for them.
Drained_Early ==
    /\ main = "drain" /\ \A c \in Conns : conn[c] # "leased"
    /\ main' = "close"
    /\ UNCHANGED <<exit, shutdown, errors, lst, ret, stopping, conn, pool, aside>>

\* Mutant: main goes back to its select after Shutdown.
Drained_Reselects ==
    /\ main = "drain" /\ \A c \in Conns : conn[c] = "none"
    /\ main' = "select"
    /\ UNCHANGED <<exit, shutdown, errors, lst, ret, stopping, conn, pool, aside>>

\* ... and returns when no connection is open.
Drained ==
    /\ main = "drain" /\ \A c \in Conns : conn[c] = "none"
    /\ main' = "close"
    /\ UNCHANGED <<exit, shutdown, errors, lst, ret, stopping, conn, pool, aside>>

\* pool.Close(); return nil
ClosePool ==
    /\ main = "close"
    /\ pool' = "closed"
    /\ exit' = "nil"
    /\ main' = "return"
    /\ UNCHANGED <<shutdown, errors, lst, ret, stopping, conn, aside>>

\* run has returned: the process ends with every goroutine in it.
Exit ==
    /\ main = "return"
    /\ main' = "exited"
    /\ UNCHANGED <<exit, shutdown, errors, lst, ret, stopping, conn, pool, aside>>

-----------------------------------------------------------------------------

Main == \/ Configure \/ ShowUsage \/ SetLevel \/ Prepare \/ StageFails
        \/ CreatePool \/ Start
        \/ ServerError \/ TakeSignal
        \/ ShutdownApi \/ ShutdownFails \/ Drained
        \/ ClosePool \/ Exit

Handle(c) == Lease(c) \/ Finish(c)

Next ==
    \/ \E l \in Listeners : Listen(l) \/ ListenerFails(l) \/ ReportError(l)
    \/ ListenerStops
    \/ \E c \in Conns : Accept(c) \/ Begin(c) \/ Handle(c) \/ Disconnect(c)
    \/ \E p \in Probes : ProbeCall(p) \/ ProbeGet(p) \/ ProbeAnswer(p) \/ ProbeEnd(p)
    \/ Signal
    \/ Main

Spec == Init /\ [][Next]_vars

\* Goroutines are scheduled; a handler ends (its client's timeouts), and the
\* read timeout closes a connection on which nothing arrives.  Nothing makes a
\* listener fail, a connection come or a signal arrive.
Fairness ==
    /\ WF_vars(Main)
    /\ WF_vars(ListenerStops)
    /\ \A l \in Listeners : WF_vars(ReportError(l))
    /\ \A c \in Conns : WF_vars(Handle(c)) /\ WF_vars(Disconnect(c))

FairSpec == Spec /\ Fairness

-----------------------------------------------------------------------------
(* Properties *)

TypeOK ==
    /\ main \in Stages \cup {"select", "shutdown", "drain", "close", "return", "exited"}
    /\ exit \in {"none", "nil", "error"}
    /\ shutdown \in 0..1
    /\ errors \in {"empty", "nil", "error"}
    /\ lst \in [Listeners -> {"none", "start", "serving", "returned", "sent"}]
    /\ ret \in [Listeners -> {"none", "nil", "error"}]
    /\ stopping \in BOOLEAN
    /\ conn \in [Conns -> {"none", "open", "handling", "leased", "refused"}]
    /\ pool \in {"none", "open", "closed"}
    /\ cfg \in Configs
    /\ probe \in [Probes -> {"idle", "asked", "leased", "refused", "ready", "not_ready"}]
    /\ late \subseteq Probes

\* When a signal finds the server listening, the pool is closed, and the process ends,
\* only after every request was answered: a graceful shutdown refuses no handler its
\* client and cuts off no request, whichever of the errors of listeners and Shutdown
\* it meets.
PoolOutlivesHandlers ==
    stopping /\ (pool = "closed" \/ main = "exited") => \A c \in Conns : conn[c] = "none"

\* run returns nil only with the pool closed, or before there is one: main never
\* takes the nil that its own Shutdown makes a listener return for a server error.
CleanExit == main = "exited" /\ exit = "nil" => pool # "open"

\* A configuration that passed the validation of its fields is not refused by the
\* tests that come later: the switch of the log level and the test of NewChanPool,
\* whose first argument run computes from the second, know no other values.
ValidatedIsNotRefused ==
    /\ main = "level" => ToLower(cfg.level) \in KnownLevels
    /\ main = "pool" => PoolFits(cfg.capacity)

\* Readiness says ready only when it was called before the pool was closed, also
\* when Close comes between its Get and its Put.
LateProbeIsNotReady == \A p \in Probes : probe[p] = "ready" => p \notin late

\* A signal ends the process, whatever connections are open.
SignalEnds == shutdown = 1 ~> main = "exited"

\* The failure of either listener ends the process.
FailureEnds == \A l \in Listeners : ret[l] = "error" ~> main = "exited"

=============================================================================
