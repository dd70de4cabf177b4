------------------------------- MODULE Gateway -------------------------------
(***************************************************************************)
(* One request through the API Firewall: the router's default behaviour    *)
(* (web.go), the middleware chain Logger(Errors(Panics(Proxy(Denylist))))  *)
(* built in routes.go, and openapiWafHandler with performProxy (openapi.go)*)
(* at its core.                                                            *)
(*                                                                         *)
(* The requests in flight share the pool of upstream clients, of which     *)
(* this module sees the promise only (LeasePool).  What a request carries  *)
(* is reduced to what the chain tests: whether its route is in the API     *)
(* specification, which of its tokens are on the denylist, whether it can  *)
(* be converted and decompressed, and what the validator says of it.       *)
(***************************************************************************)
EXTENDS Naturals, FiniteSets

CONSTANTS
    Requests,     \* request contexts of the server
    Configs,      \* configurations of the firewall
    Inputs,       \* what a request may carry
    Outcomes,     \* what may come of sending it upstream
    Clients, NilClient, InitialCap, MaxCap   \* the pool, see LeasePool

Modes == {"BLOCK", "LOG_ONLY", "DISABLE"}

\* cookie, header: a cookie or header name is set for the denylist; trim: the
\* prefix "Bearer " is cut from the header; loaded: the denylist has elements.
ASSUME ConfigAssumption ==
    Configs \subseteq [request : Modes, response : Modes, status : BOOLEAN,
                       cookie : BOOLEAN, header : BOOLEAN, trim : BOOLEAN,
                       loaded : BOOLEAN]

\* cookie: its cookie is on the denylist; token: so is its header, or what
\* follows "Bearer " there; verdict: the error ValidateRequest ends with.
RequestErrors == {"security", "parameter", "body"}

ASSUME InputAssumption ==
    Inputs \subseteq [known : BOOLEAN, cookie : BOOLEAN,
                      token : {"clean", "listed", "bearer"},
                      form : {"ok", "unconvertible", "bad_encoding"},
                      verdict : RequestErrors \cup {"valid", "panic"}]

Failures == {"dial_timeout", "no_free_conns", "failed"}

\* What ValidateResponse and the shadow API check find in ctx.Response after
\* performProxy: also in the response it makes when the backend failed, which is not
\* encoded, but can make the validator panic by the headers that are declared for it.
ASSUME OutcomeAssumption ==
    Outcomes \subseteq
        [kind : {"answer"}, bad_encoding : BOOLEAN, verdict : {"valid", "invalid", "panic"},
         excluded : BOOLEAN, hop : BOOLEAN]
        \cup
        [kind : Failures, bad_encoding : {FALSE}, verdict : {"valid", "invalid", "panic"},
         excluded : BOOLEAN, hop : {FALSE}]

ASSUME ClientAssumption == NilClient \notin Clients

VARIABLES
    cfg,      \* the configuration, fixed at startup
    in,       \* what each request carries
    pc,       \* where each request is in the chain
    err,      \* the Go error on its way up: "nil", "error" or "panic"
    resp,     \* ctx.Response
    up,       \* history: what came of performProxy
    sent,     \* history: how often the request was sent upstream
    log,      \* the events logged for the request
    open, parked, lease, call   \* the pool, see LeasePool

pool == <<open, parked, lease, call>>
vars == <<cfg, in, pc, err, resp, up, sent, log, open, parked, lease, call>>

Pool == INSTANCE LeasePool WITH Workers <- Requests

-----------------------------------------------------------------------------
(* Responses *)

NoResponse == [status |-> "none", src |-> "none", hop |-> FALSE, why |-> FALSE]

\* RespondError: ctx.Error resets the whole response and sets the status; the
\* validation status header is added afterwards.
Error(status, why) == [status |-> status, src |-> "firewall", hop |-> FALSE, why |-> why]

\* An answer of the backend, which may carry hop-by-hop headers.
Answered(hop) == [status |-> "upstream", src |-> "upstream", hop |-> hop, why |-> FALSE]

\* performProxy's switch on the error of client.Do.
FailureStatus(kind) == CASE kind = "dial_timeout" -> "504"
                         [] kind = "no_free_conns" -> "503"
                         [] kind = "failed" -> "502"

NoOutcome == [kind |-> "none", bad_encoding |-> FALSE, verdict |-> "valid",
              excluded |-> FALSE, hop |-> FALSE]

NoInput == [known |-> TRUE, cookie |-> FALSE, token |-> "clean", form |-> "ok",
            verdict |-> "valid"]

Mode(m) == cfg.request = m \/ cfg.response = m
Disabled == cfg.request = "DISABLE" /\ cfg.response = "DISABLE"

Init ==
    /\ cfg \in Configs
    /\ in = [r \in Requests |-> NoInput]
    /\ pc = [r \in Requests |-> "idle"]
    /\ err = [r \in Requests |-> "nil"]
    /\ resp = [r \in Requests |-> NoResponse]
    /\ up = [r \in Requests |-> NoOutcome]
    /\ sent = [r \in Requests |-> 0]
    /\ log = [r \in Requests |-> {}]
    /\ Pool!LInit

\* A step of request r that moves it to label l.
Goto(r, l) == pc' = [pc EXCEPT ![r] = l] /\ UNCHANGED <<cfg, in>>

\* ... and sets its response.
Reply(r, response, l) ==
    /\ Goto(r, l)
    /\ resp' = [resp EXCEPT ![r] = response]

-----------------------------------------------------------------------------
(* The server and the router *)

Arrive(r) ==
    /\ pc[r] = "idle"
    /\ \E i \in Inputs : in' = [in EXCEPT ![r] = i]
    /\ pc' = [pc EXCEPT ![r] = "router"]
    /\ UNCHANGED <<cfg, err, resp, up, sent, log, pool>>

\* NotFound and MethodNotAllowed block before any middleware runs.
RouterBlocks(r) ==
    /\ pc[r] = "router" /\ ~in[r].known /\ Mode("BLOCK")
    /\ Reply(r, Error("block", FALSE), "done")
    /\ UNCHANGED <<err, up, sent, log, pool>>

RouterPasses(r) ==
    /\ pc[r] = "router" /\ (in[r].known \/ ~Mode("BLOCK"))
    /\ Goto(r, "denylist")
    /\ UNCHANGED <<err, resp, up, sent, log, pool>>

\* The response is written and the context is reset for the next request.
Deliver(r) ==
    /\ pc[r] = "done"
    /\ pc' = [pc EXCEPT ![r] = "idle"]
    /\ in' = [in EXCEPT ![r] = NoInput]
    /\ err' = [err EXCEPT ![r] = "nil"]
    /\ resp' = [resp EXCEPT ![r] = NoResponse]
    /\ up' = [up EXCEPT ![r] = NoOutcome]
    /\ sent' = [sent EXCEPT ![r] = 0]
    /\ log' = [log EXCEPT ![r] = {}]
    /\ UNCHANGED <<cfg, pool>>

-----------------------------------------------------------------------------
(* The denylist middleware *)

\* The key looked up for the header; the list holds bare tokens, so a header
\* with the prefix is found when the prefix is cut and only then.
TokenListed(r) == \/ in[r].token = "listed"
                  \/ in[r].token = "bearer" /\ cfg.trim

Denied(r) ==
    /\ cfg.loaded
    /\ \/ cfg.cookie /\ in[r].cookie
       \/ cfg.header /\ TokenListed(r)

DenylistBlocks(r) ==
    /\ pc[r] = "denylist" /\ Denied(r)
    /\ Reply(r, Error("block", FALSE), "unwind")
    /\ UNCHANGED <<err, up, sent, log, pool>>

DenylistPasses(r) ==
    /\ pc[r] = "denylist" /\ ~Denied(r)
    /\ Goto(r, "get")
    /\ UNCHANGED <<err, resp, up, sent, log, pool>>

-----------------------------------------------------------------------------
(* openapiWafHandler: the lease *)

GetClient(r) ==
    /\ pc[r] = "get"
    /\ Pool!Call(r)
    /\ Goto(r, "wait_client")
    /\ UNCHANGED <<err, resp, up, sent, log>>

GetGranted(r) ==
    /\ pc[r] = "wait_client"
    /\ Pool!Grant(r)
    /\ Goto(r, "dispatch")
    /\ UNCHANGED <<err, resp, up, sent, log>>

\* Mutant: a refused Get is tried again.
GetRefused_Retries(r) ==
    /\ pc[r] = "wait_client"
    /\ Pool!Refuse(r)
    /\ Goto(r, "get")
    /\ UNCHANGED <<err, resp, up, sent, log>>

\* Get failed: 503, and there is nothing to put back.
GetRefused(r) ==
    /\ pc[r] = "wait_client"
    /\ Pool!Refuse(r)
    /\ Reply(r, Error("503", FALSE), "unwind")
    /\ UNCHANGED <<err, up, sent, log>>

\* Mutant: Put is a plain call, which a panic passes by.
PutClient_NotDeferred(r) ==
    /\ pc[r] = "return"
    /\ IF err[r] = "panic" THEN UNCHANGED pool ELSE Pool!GiveBack(r)
    /\ Goto(r, "unwind")
    /\ UNCHANGED <<err, resp, up, sent, log>>

\* defer s.proxyPool.Put(client): on every return and on a panic.
PutClient(r) ==
    /\ pc[r] = "return"
    /\ Pool!GiveBack(r)
    /\ Goto(r, "unwind")
    /\ UNCHANGED <<err, resp, up, sent, log>>

-----------------------------------------------------------------------------
(* openapiWafHandler: the request *)

\* Mutant: the handler has no short cut for two DISABLE modes.
Bypass_ByRoute(r) == ~in[r].known

\* Both modes are DISABLE, or the route is unknown and neither mode is BLOCK:
\* the request is forwarded as it is.
Bypass(r) == Disabled \/ ~in[r].known

\* The handler's own answer to an unknown route in BLOCK mode is not an action:
\* RouterBlocks comes first (theorem RouterShields of GatewayProofs).
Dispatch(r) ==
    /\ pc[r] = "dispatch"
    /\ Goto(r, IF Bypass(r) THEN "proxy" ELSE "convert")
    /\ UNCHANGED <<err, resp, up, sent, log, pool>>

Convert(r) ==
    /\ pc[r] = "convert" /\ in[r].form = "ok"
    /\ Goto(r, "validate_request")
    /\ UNCHANGED <<err, resp, up, sent, log, pool>>

\* fasthttpadaptor.ConvertRequest failed.
ConvertFails(r) ==
    /\ pc[r] = "convert" /\ in[r].form = "unconvertible"
    /\ Reply(r, Error("400", FALSE), "return")
    /\ UNCHANGED <<err, up, sent, log, pool>>

\* GetDecompressedRequestBody failed: the error goes up the chain, in any mode.
DecompressRequestFails(r) ==
    /\ pc[r] = "convert" /\ in[r].form = "bad_encoding"
    /\ err' = [err EXCEPT ![r] = "error"]
    /\ Goto(r, "return")
    /\ UNCHANGED <<resp, up, sent, log, pool>>

ValidateRequestPasses(r) ==
    /\ pc[r] = "validate_request"
    /\ cfg.request = "DISABLE" \/ in[r].verdict = "valid"
    /\ Goto(r, "proxy")
    /\ UNCHANGED <<err, resp, up, sent, log, pool>>

\* Mutant: a violation in BLOCK mode is logged and the request goes on.
ValidateRequestBlocks_FallsThrough(r) ==
    /\ pc[r] = "validate_request"
    /\ cfg.request = "BLOCK" /\ in[r].verdict \in RequestErrors
    /\ log' = [log EXCEPT ![r] = @ \cup {"request"}]
    /\ Reply(r, Error("block", cfg.status), "proxy")
    /\ UNCHANGED <<err, up, sent, pool>>

\* getValidationHeader has a value for each of RequestErrors.
ValidateRequestBlocks(r) ==
    /\ pc[r] = "validate_request"
    /\ cfg.request = "BLOCK" /\ in[r].verdict \in RequestErrors
    /\ log' = [log EXCEPT ![r] = @ \cup {"request"}]
    /\ Reply(r, Error("block", cfg.status), "return")
    /\ UNCHANGED <<err, up, sent, pool>>

\* Mutant: LOG_ONLY forgets to log.
ValidateRequestLogs_Silent(r) ==
    /\ pc[r] = "validate_request"
    /\ cfg.request = "LOG_ONLY" /\ in[r].verdict \in RequestErrors
    /\ Goto(r, "proxy")
    /\ UNCHANGED <<err, resp, up, sent, log, pool>>

ValidateRequestLogs(r) ==
    /\ pc[r] = "validate_request"
    /\ cfg.request = "LOG_ONLY" /\ in[r].verdict \in RequestErrors
    /\ log' = [log EXCEPT ![r] = @ \cup {"request"}]
    /\ Goto(r, "proxy")
    /\ UNCHANGED <<err, resp, up, sent, pool>>

\* A panic of the validator runs the deferred Put and goes up the chain.
ValidateRequestPanics(r) ==
    /\ pc[r] = "validate_request"
    /\ cfg.request # "DISABLE" /\ in[r].verdict = "panic"
    /\ err' = [err EXCEPT ![r] = "panic"]
    /\ Goto(r, "return")
    /\ UNCHANGED <<resp, up, sent, log, pool>>

-----------------------------------------------------------------------------
(* performProxy *)

Send(r) ==
    /\ pc[r] = "proxy"
    /\ sent' = [sent EXCEPT ![r] = @ + 1]
    /\ Goto(r, "upstream")
    /\ UNCHANGED <<err, resp, up, log, pool>>

\* The end of client.Do.  An error is turned into a status; the callers see nil.
Receive(r) ==
    /\ pc[r] = "upstream"
    /\ \E o \in Outcomes :
          /\ up' = [up EXCEPT ![r] = o]
          /\ Reply(r, IF o.kind = "answer" THEN Answered(o.hop)
                      ELSE Error(FailureStatus(o.kind), FALSE),
                   "proxied")
    /\ UNCHANGED <<err, sent, log, pool>>

-----------------------------------------------------------------------------
(* openapiWafHandler: the response *)

\* return performProxy(...) when both modes are DISABLE.
ReturnBare(r) ==
    /\ pc[r] = "proxied" /\ Disabled
    /\ Goto(r, "return")
    /\ UNCHANGED <<err, resp, up, sent, log, pool>>

\* Mutant: the exclude list is not consulted.
ShadowCheck_NoExclusion(r) ==
    /\ pc[r] = "proxied" /\ ~Disabled /\ ~in[r].known
    /\ log' = [log EXCEPT ![r] = @ \cup {"shadow"}]
    /\ Goto(r, "return")
    /\ UNCHANGED <<err, resp, up, sent, pool>>

\* Unknown route: the status is compared with the exclude list, also the status
\* performProxy made up for a backend that did not answer.
ShadowCheck(r) ==
    /\ pc[r] = "proxied" /\ ~Disabled /\ ~in[r].known
    /\ log' = [log EXCEPT ![r] = IF up[r].excluded THEN @ ELSE @ \cup {"shadow"}]
    /\ Goto(r, "return")
    /\ UNCHANGED <<err, resp, up, sent, pool>>

\* The response is looked at: the route is known and a mode is not DISABLE.
Inspected(r) == pc[r] = "proxied" /\ ~Bypass(r)

\* GetDecompressedResponseBody failed, in any mode.
DecompressResponseFails(r) ==
    /\ Inspected(r) /\ up[r].bad_encoding
    /\ err' = [err EXCEPT ![r] = "error"]
    /\ Goto(r, "return")
    /\ UNCHANGED <<resp, up, sent, log, pool>>

ValidateResponsePasses(r) ==
    /\ Inspected(r) /\ ~up[r].bad_encoding
    /\ cfg.response = "DISABLE" \/ up[r].verdict = "valid"
    /\ Goto(r, "return")
    /\ UNCHANGED <<err, resp, up, sent, log, pool>>

ValidateResponseBlocks(r) ==
    /\ Inspected(r) /\ ~up[r].bad_encoding
    /\ cfg.response = "BLOCK" /\ up[r].verdict = "invalid"
    /\ log' = [log EXCEPT ![r] = @ \cup {"response"}]
    /\ Reply(r, Error("block", cfg.status), "return")
    /\ UNCHANGED <<err, up, sent, pool>>

ValidateResponseLogs(r) ==
    /\ Inspected(r) /\ ~up[r].bad_encoding
    /\ cfg.response = "LOG_ONLY" /\ up[r].verdict = "invalid"
    /\ log' = [log EXCEPT ![r] = @ \cup {"response"}]
    /\ Goto(r, "return")
    /\ UNCHANGED <<err, resp, up, sent, pool>>

\* Mutant: the panic is recovered inside the handler, which returns nil.
ValidateResponsePanics_Swallowed(r) ==
    /\ Inspected(r) /\ ~up[r].bad_encoding
    /\ cfg.response # "DISABLE" /\ up[r].verdict = "panic"
    /\ Goto(r, "return")
    /\ UNCHANGED <<err, resp, up, sent, log, pool>>

ValidateResponsePanics(r) ==
    /\ Inspected(r) /\ ~up[r].bad_encoding
    /\ cfg.response # "DISABLE" /\ up[r].verdict = "panic"
    /\ err' = [err EXCEPT ![r] = "panic"]
    /\ Goto(r, "return")
    /\ UNCHANGED <<resp, up, sent, log, pool>>

-----------------------------------------------------------------------------
(* The way out of the chain *)

\* Proxy drops the hop-by-hop headers of the response...
WithoutHop(x) == [status |-> x.status, src |-> x.src, hop |-> FALSE, why |-> x.why]

\* ... and a panic skips that code.  Panics makes an error of the panic, Errors makes
\* a 502 of an error, which resets the response, and returns nil: no error of the
\* handler is a shutdown.
Unwound(r) ==
    IF err[r] = "nil" THEN WithoutHop(resp[r]) ELSE Error("502", FALSE)

\* Mutant: Panics wraps Errors, so a panic passes Errors by and nothing answers.
Unwind_PanicsOutside(r) ==
    /\ pc[r] = "unwind"
    /\ Reply(r, IF err[r] = "panic" THEN resp[r] ELSE Unwound(r), "done")
    /\ UNCHANGED <<err, up, sent, log, pool>>

Unwind(r) ==
    /\ pc[r] = "unwind"
    /\ Reply(r, Unwound(r), "done")
    /\ UNCHANGED <<err, up, sent, log, pool>>

-----------------------------------------------------------------------------

\* main closes the pool when the server is shut down.
ClosePool ==
    /\ Pool!Shut
    /\ UNCHANGED <<cfg, in, pc, err, resp, up, sent, log>>

\* The steps of the firewall on a request that has arrived.
Serve(r) ==
    \/ RouterBlocks(r) \/ RouterPasses(r)
    \/ DenylistBlocks(r) \/ DenylistPasses(r)
    \/ GetClient(r) \/ GetGranted(r) \/ GetRefused(r)
    \/ Dispatch(r) \/ Convert(r) \/ ConvertFails(r) \/ DecompressRequestFails(r)
    \/ ValidateRequestPasses(r) \/ ValidateRequestBlocks(r)
    \/ ValidateRequestLogs(r) \/ ValidateRequestPanics(r)
    \/ Send(r) \/ Receive(r) \/ ReturnBare(r) \/ ShadowCheck(r)
    \/ DecompressResponseFails(r)
    \/ ValidateResponsePasses(r) \/ ValidateResponseBlocks(r)
    \/ ValidateResponseLogs(r) \/ ValidateResponsePanics(r)
    \/ PutClient(r) \/ Unwind(r)

Next ==
    \/ \E r \in Requests : Arrive(r) \/ Serve(r) \/ Deliver(r)
    \/ ClosePool

Spec == Init /\ [][Next]_vars

\* A handler is not abandoned: the backend's answer is bounded by the client's
\* dial, read and write timeouts.  That the validator ends is assumed: a token's
\* introspection has no timeout.
Fairness == \A r \in Requests : WF_vars(Serve(r))

FairSpec == Spec /\ Fairness

-----------------------------------------------------------------------------
(* Properties *)

Labels == {"idle", "router", "denylist", "get", "wait_client", "dispatch", "convert",
           "validate_request", "proxy", "upstream", "proxied", "return", "unwind", "done"}

Statuses == {"none", "upstream", "block", "400", "502", "503", "504"}

TypeOK ==
    /\ cfg \in Configs
    /\ in \in [Requests -> Inputs \cup {NoInput}]
    /\ pc \in [Requests -> Labels]
    /\ err \in [Requests -> {"nil", "error", "panic"}]
    /\ resp \in [Requests -> [status : Statuses, src : {"none", "upstream", "firewall"},
                              hop : BOOLEAN, why : BOOLEAN]]
    /\ up \in [Requests -> Outcomes \cup {NoOutcome}]
    /\ sent \in [Requests -> 0..1]
    /\ log \in [Requests -> SUBSET {"request", "response", "shadow"}]

Served(r) == pc[r] = "done"

\* What reaches the backend: never a request with a denied token, on a route the
\* specification does not have while a mode is BLOCK, or one that violates the
\* specification while requests are blocked; and each request at most once.
ForwardedOnlyIfAllowed ==
    \A r \in Requests : sent[r] > 0 =>
        /\ sent[r] = 1
        /\ ~Denied(r)
        /\ ~in[r].known => ~Mode("BLOCK")
        /\ cfg.request = "BLOCK" => in[r].verdict = "valid"

\* What reaches the client from the backend while responses are blocked: only a
\* response the validator could read and accepted; a panic or an unreadable body
\* is no acceptance.
DeliveredOnlyIfValid ==
    \A r \in Requests :
        Served(r) /\ resp[r].src = "upstream" /\ cfg.response = "BLOCK" =>
            up[r].verdict = "valid" /\ ~up[r].bad_encoding

\* Without a BLOCK mode, a violation of the specification changes no status: the
\* block status means a denied token, and what violates is reported in the log.
LogOnlyReports ==
    \A r \in Requests : Served(r) /\ ~Mode("BLOCK") =>
        /\ resp[r].status = "block" => Denied(r)
        /\ cfg.request = "LOG_ONLY" /\ sent[r] = 1 /\ in[r].known
              /\ in[r].verdict \in RequestErrors => "request" \in log[r]
        /\ cfg.response = "LOG_ONLY" /\ sent[r] = 1 /\ in[r].known /\ err[r] = "nil"
              /\ up[r].verdict = "invalid" => "response" \in log[r]

\* With both modes DISABLE the firewall is a proxy: a request that gets a client
\* is sent, whatever it carries, and the client sees the backend's answer or the
\* status for the backend's failure.
DisabledIsTransparent ==
    \A r \in Requests : Served(r) /\ Disabled =>
        \/ Denied(r)
        \/ resp[r] = Error("503", FALSE)
        \/ /\ sent[r] = 1
           /\ IF up[r].kind = "answer" THEN resp[r] = Answered(FALSE)
              ELSE resp[r] = Error(FailureStatus(up[r].kind), FALSE)

\* The client of a request is its own while the request is upstream, and it is
\* back in the pool's hands when the response is written, also after a panic.
LeaseMatchesRequest ==
    \A r \in Requests :
        /\ pc[r] = "upstream" =>
              /\ lease[r] # NilClient
              /\ \A s \in Requests \ {r} : lease[s] # lease[r]
        /\ pc[r] \in {"idle", "done"} => lease[r] = NilClient /\ call[r] = "none"

\* Every response has a status, and the hop-by-hop headers of the backend are
\* not passed on, although a panic skips the code that drops them.
ResponseIsComplete ==
    \A r \in Requests : Served(r) => resp[r].status # "none" /\ ~resp[r].hop

\* The default behaviour of the router keeps unknown routes from the handler in
\* BLOCK mode, so that the handler never meets a missing route it must validate.
RouterShieldsHandler ==
    \A r \in Requests : pc[r] \notin {"idle", "router", "done"} /\ ~in[r].known => ~Mode("BLOCK")

\* A shadow API is reported for an unknown route only, and not when the status
\* is excluded.
ShadowOnlyIfUnknown ==
    \A r \in Requests : "shadow" \in log[r] => ~in[r].known /\ ~up[r].excluded /\ sent[r] = 1

\* Every request that arrived is answered.
RequestAnswered == \A r \in Requests : pc[r] = "router" ~> pc[r] = "done"

=============================================================================
