----------------------------- MODULE GatewayProofs -----------------------------
(***************************************************************************)
(* What the chain of middlewares and openapiWafHandler promise of every    *)
(* request, for any number of requests in flight, any clients, any         *)
(* configurations, inputs and outcomes.                                    *)
(*                                                                         *)
(* A request's promises are about its end.  The induction follows it       *)
(* through the labels of the chain: what holds of a request before it is   *)
(* sent (BeforeSending), once it may be sent (Sending), of what came back  *)
(* (Answering), of the log (Logging) and of the lease (Leasing).  But for  *)
(* the lease, a step of one request concerns no other (OthersStay, Frame). *)
(***************************************************************************)
EXTENDS GatewayFirewall, TLAPS

\* The labels before performProxy, those of the handler that holds a client, and those
\* of a request on its way out.
Unsent == {"idle", "router", "denylist", "get", "wait_client", "dispatch", "convert",
           "validate_request", "proxy"}
Leased == {"dispatch", "convert", "validate_request", "proxy", "upstream", "proxied", "return"}
Leaving == {"return", "unwind", "done"}

BeforeSending(r) ==
    /\ pc[r] \in Unsent => sent[r] = 0 /\ resp[r] = NoResponse
    /\ pc[r] = "upstream" => resp[r] = NoResponse
    /\ pc[r] \notin {"idle", "router", "done"} /\ ~in[r].known => ~Mode("BLOCK")
    /\ pc[r] \in {"get", "wait_client", "dispatch", "convert", "validate_request"} => ~Denied(r)
    /\ pc[r] \in {"convert", "validate_request"} => ~Bypass(r)
    /\ pc[r] \notin Leaving => err[r] = "nil"

\* A request that is sent, or about to be, is allowed, and its violations are logged.
Sending(r) ==
    /\ pc[r] \in {"upstream", "proxied"} => sent[r] = 1
    /\ pc[r] = "proxy" \/ sent[r] > 0 =>
          /\ ~Denied(r)
          /\ ~in[r].known => ~Mode("BLOCK")
          /\ cfg.request = "BLOCK" => in[r].verdict = "valid"
          /\ cfg.request = "LOG_ONLY" /\ in[r].known /\ in[r].verdict \in RequestErrors
                => "request" \in log[r]

\* The response is what performProxy made of the outcome.
Carried(r) ==
    IF up[r].kind = "answer" THEN resp[r] = Answered(up[r].hop)
    ELSE resp[r] = Error(FailureStatus(up[r].kind), FALSE)

Accepted(r) == up[r].verdict = "valid" /\ ~up[r].bad_encoding

Answering(r) ==
    /\ pc[r] = "proxied" => up[r] \in Outcomes /\ Carried(r)
    /\ pc[r] \in {"return", "unwind"} /\ err[r] = "nil" =>
          /\ resp[r].status # "none"
          /\ resp[r].src = "upstream" /\ cfg.response = "BLOCK" => Accepted(r)
    /\ pc[r] = "done" =>
          /\ resp[r].status # "none" /\ ~resp[r].hop
          /\ resp[r].src = "upstream" /\ cfg.response = "BLOCK" => Accepted(r)

\* With both modes DISABLE nothing but the denylist and the pool decides.
Bare(r) ==
    /\ Disabled /\ pc[r] \in {"return", "unwind"} =>
          /\ err[r] = "nil"
          /\ Denied(r) \/ resp[r] = Error("503", FALSE) \/ (sent[r] = 1 /\ Carried(r))
    /\ Disabled /\ pc[r] = "done" =>
          \/ Denied(r)
          \/ resp[r] = Error("503", FALSE)
          \/ /\ sent[r] = 1
             /\ IF up[r].kind = "answer" THEN resp[r] = Answered(FALSE)
                ELSE resp[r] = Error(FailureStatus(up[r].kind), FALSE)

Logging(r) ==
    /\ resp[r].status = "block" => Denied(r) \/ Mode("BLOCK")
    /\ pc[r] \in Leaving /\ sent[r] > 0 /\ in[r].known /\ err[r] = "nil"
          /\ up[r].verdict = "invalid" /\ cfg.response = "LOG_ONLY" => "response" \in log[r]
    /\ "shadow" \in log[r] =>
          pc[r] \in Leaving /\ ~in[r].known /\ ~up[r].excluded /\ sent[r] = 1

Sound(r) == BeforeSending(r) /\ Sending(r) /\ Answering(r) /\ Bare(r) /\ Logging(r)

-----------------------------------------------------------------------------
(* One request at a time *)

\* A step of one request leaves the others as they are.
LEMMA OthersStay ==
    ASSUME TypeOK, NEW r \in Requests, NEW s \in Requests, s # r,
           Arrive(r) \/ Serve(r) \/ Deliver(r)
    PROVE  /\ cfg' = cfg /\ in'[s] = in[s] /\ pc'[s] = pc[s] /\ err'[s] = err[s]
           /\ resp'[s] = resp[s] /\ up'[s] = up[s] /\ sent'[s] = sent[s] /\ log'[s] = log[s]
<1> USE DEF TypeOK, Goto, Reply
<1>1. CASE Arrive(r) BY <1>1 DEF Arrive
<1>2. CASE Deliver(r) BY <1>2 DEF Deliver
<1>3. CASE RouterBlocks(r) \/ RouterPasses(r) \/ DenylistBlocks(r) \/ DenylistPasses(r)
  BY <1>3 DEF RouterBlocks, RouterPasses, DenylistBlocks, DenylistPasses
<1>4. CASE GetClient(r) \/ GetGranted(r) \/ GetRefused(r) \/ PutClient(r)
  BY <1>4 DEF GetClient, GetGranted, GetRefused, PutClient
<1>5. CASE Dispatch(r) \/ Convert(r) \/ ConvertFails(r) \/ DecompressRequestFails(r)
  BY <1>5 DEF Dispatch, Convert, ConvertFails, DecompressRequestFails
<1>6. CASE ValidateRequestPasses(r) \/ ValidateRequestBlocks(r) \/ ValidateRequestLogs(r)
           \/ ValidateRequestPanics(r)
  BY <1>6 DEF ValidateRequestPasses, ValidateRequestBlocks, ValidateRequestLogs, ValidateRequestPanics
<1>7. CASE Send(r) \/ Receive(r) \/ ReturnBare(r) \/ ShadowCheck(r)
  BY <1>7 DEF Send, Receive, ReturnBare, ShadowCheck
<1>8. CASE DecompressResponseFails(r) \/ ValidateResponsePasses(r) \/ ValidateResponseBlocks(r)
           \/ ValidateResponseLogs(r) \/ ValidateResponsePanics(r) \/ Unwind(r)
  BY <1>8 DEF DecompressResponseFails, ValidateResponsePasses, ValidateResponseBlocks,
              ValidateResponseLogs, ValidateResponsePanics, Unwind
<1> QED BY <1>1, <1>2, <1>3, <1>4, <1>5, <1>6, <1>7, <1>8 DEF Serve

\* ... and so do their promises.
LEMMA Frame ==
    ASSUME NEW s \in Requests, Sound(s),
           cfg' = cfg, in'[s] = in[s], pc'[s] = pc[s], err'[s] = err[s],
           resp'[s] = resp[s], up'[s] = up[s], sent'[s] = sent[s], log'[s] = log[s]
    PROVE  Sound(s)'
<1> USE DEF Sound, Mode, Disabled, Denied, TokenListed, Bypass, Carried, Accepted
<1>1. BeforeSending(s)' BY DEF BeforeSending
<1>2. Sending(s)' BY DEF Sending
<1>3. Answering(s)' BY DEF Answering
<1>4. Bare(s)' BY DEF Bare
<1>5. Logging(s)' BY DEF Logging
<1> QED BY <1>1, <1>2, <1>3, <1>4, <1>5

\* The responses the firewall makes, and those of the backend.
Responses == [status : Statuses, src : {"none", "upstream", "firewall"}, hop : BOOLEAN, why : BOOLEAN]

LEMMA ResponseTypes ==
    /\ NoResponse \in Responses
    /\ \A st \in Statuses : \A why \in BOOLEAN : Error(st, why) \in Responses
    /\ \A hop \in BOOLEAN : Answered(hop) \in Responses
    /\ \A k \in Failures : FailureStatus(k) \in {"502", "503", "504"}
    /\ \A x \in Responses : WithoutHop(x) \in Responses
BY DEF Responses, NoResponse, Error, Answered, Statuses, Failures, FailureStatus, WithoutHop

-----------------------------------------------------------------------------
(* Each step keeps the promises of its request *)

\* The server, the router and the denylist.
LEMMA EntryIsSound ==
    ASSUME TypeOK, NEW r \in Requests, Sound(r),
           \/ Arrive(r) \/ Deliver(r) \/ RouterBlocks(r) \/ RouterPasses(r)
           \/ DenylistBlocks(r) \/ DenylistPasses(r)
    PROVE  Sound(r)'
<1> USE DEF TypeOK, Sound, BeforeSending, Sending, Answering, Bare, Logging, Carried, Accepted,
            Unsent, Leased, Leaving, Goto, Reply, Denied, TokenListed, Mode, Disabled, Bypass,
            Error, Answered, NoResponse, NoOutcome
<1>1. CASE Arrive(r) BY <1>1 DEF Arrive
<1>2. CASE Deliver(r) BY <1>2 DEF Deliver
<1>3. CASE RouterBlocks(r) BY <1>3 DEF RouterBlocks
<1>4. CASE RouterPasses(r) BY <1>4 DEF RouterPasses
<1>5. CASE DenylistBlocks(r) BY <1>5 DEF DenylistBlocks
<1>6. CASE DenylistPasses(r) BY <1>6 DEF DenylistPasses
<1> QED BY <1>1, <1>2, <1>3, <1>4, <1>5, <1>6

\* The lease of a client.
LEMMA LeaseIsSound ==
    ASSUME TypeOK, NEW r \in Requests, Sound(r),
           GetClient(r) \/ GetGranted(r) \/ GetRefused(r) \/ PutClient(r)
    PROVE  Sound(r)'
<1> USE DEF TypeOK, Sound, BeforeSending, Sending, Answering, Bare, Logging, Carried, Accepted,
            Unsent, Leased, Leaving, Goto, Reply, Denied, TokenListed, Mode, Disabled, Bypass,
            Error, Answered, NoResponse, NoOutcome
<1>1. CASE GetClient(r) BY <1>1 DEF GetClient
<1>2. CASE GetGranted(r) BY <1>2 DEF GetGranted
<1>3. CASE GetRefused(r) BY <1>3 DEF GetRefused
<1>4. CASE PutClient(r) BY <1>4 DEF PutClient
<1> QED BY <1>1, <1>2, <1>3, <1>4

\* The handler before the request is sent.
LEMMA RequestIsSound ==
    ASSUME TypeOK, NEW r \in Requests, Sound(r),
           \/ Dispatch(r) \/ Convert(r) \/ ConvertFails(r) \/ DecompressRequestFails(r)
           \/ ValidateRequestPasses(r) \/ ValidateRequestBlocks(r) \/ ValidateRequestLogs(r)
           \/ ValidateRequestPanics(r) \/ Send(r)
    PROVE  Sound(r)'
<1> USE DEF TypeOK, Sound, BeforeSending, Sending, Answering, Bare, Logging, Carried, Accepted,
            Unsent, Leased, Leaving, Goto, Reply, Denied, TokenListed, Mode, Disabled, Bypass,
            Error, Answered, NoResponse, NoOutcome
<1>1. CASE Dispatch(r) BY <1>1 DEF Dispatch
<1>2. CASE Convert(r) BY <1>2 DEF Convert
<1>3. CASE ConvertFails(r) BY <1>3 DEF ConvertFails
<1>4. CASE DecompressRequestFails(r) BY <1>4 DEF DecompressRequestFails
<1>5. CASE ValidateRequestBlocks(r) BY <1>5 DEF ValidateRequestBlocks
<1>6. CASE ValidateRequestLogs(r) BY <1>6 DEF ValidateRequestLogs
<1>7. CASE ValidateRequestPanics(r) BY <1>7 DEF ValidateRequestPanics
<1>8. CASE Send(r) BY <1>8 DEF Send
<1>9. CASE ValidateRequestPasses(r)
  <2>1. /\ pc[r] = "validate_request" /\ pc' = [pc EXCEPT ![r] = "proxy"]
        /\ cfg.request = "DISABLE" \/ in[r].verdict = "valid"
        /\ UNCHANGED <<cfg, in, err, resp, up, sent, log>>
    BY <1>9 DEF ValidateRequestPasses
  <2>2. pc'[r] = "proxy" BY <2>1
  <2>3. "valid" \notin RequestErrors BY DEF RequestErrors
  <2>4. BeforeSending(r)' BY <2>1, <2>2
  <2>5. Sending(r)' BY <2>1, <2>2, <2>3
  <2>6. Answering(r)' /\ Bare(r)' /\ Logging(r)' BY <2>1, <2>2
  <2> QED BY <2>4, <2>5, <2>6
<1> QED BY <1>9, <1>1, <1>2, <1>3, <1>4, <1>5, <1>6, <1>7, <1>8

\* Dropping the hop-by-hop headers leaves an error as it is.
LEMMA DroppedHeaders ==
    /\ \A st, why : WithoutHop(Error(st, why)) = Error(st, why)
    /\ \A hop : WithoutHop(Answered(hop)) = Answered(FALSE)
BY DEF Error, Answered, WithoutHop

LEMMA WithoutHopKeeps ==
    ASSUME NEW r, NEW x, x = WithoutHop(resp[r])
    PROVE  /\ resp[r] = Error("503", FALSE) => x = Error("503", FALSE)
           /\ Carried(r) => IF up[r].kind = "answer" THEN x = Answered(FALSE)
                            ELSE x = Error(FailureStatus(up[r].kind), FALSE)
BY DroppedHeaders DEF Carried

\* What performProxy leaves in the response always has a status.
LEMMA CarriedIsAnswer ==
    ASSUME NEW r \in Requests, up[r] \in Outcomes, Carried(r)
    PROVE  resp[r].status # "none"
<1>1. CASE up[r].kind = "answer" BY <1>1 DEF Carried, Answered
<1>2. CASE up[r].kind # "answer"
  <2>1. up[r].kind \in Failures BY <1>2, OutcomeAssumption
  <2>2. FailureStatus(up[r].kind) # "none" BY <2>1 DEF FailureStatus, Failures
  <2> QED BY <1>2, <2>2 DEF Carried, Error
<1> QED BY <1>1, <1>2

\* What came back.
LEMMA AnswerIsSound ==
    ASSUME TypeOK, NEW r \in Requests, Sound(r),
           \/ Receive(r) \/ ReturnBare(r) \/ ShadowCheck(r) \/ DecompressResponseFails(r)
           \/ ValidateResponsePasses(r) \/ ValidateResponseBlocks(r) \/ ValidateResponseLogs(r)
           \/ ValidateResponsePanics(r) \/ Unwind(r)
    PROVE  Sound(r)'
<1> USE DEF TypeOK, Sound, BeforeSending, Sending, Answering, Bare, Logging, Carried, Accepted,
            Unsent, Leased, Leaving, Goto, Reply, Denied, TokenListed, Mode, Disabled, Bypass,
            Error, Answered, NoResponse, NoOutcome
<1>1. CASE DecompressResponseFails(r) BY <1>1 DEF DecompressResponseFails, Inspected
<1>2. CASE ValidateResponseBlocks(r) BY <1>2 DEF ValidateResponseBlocks, Inspected
<1>3. CASE ValidateResponsePanics(r) BY <1>3 DEF ValidateResponsePanics, Inspected
<1>4. CASE Receive(r)
  <2>1. PICK o \in Outcomes :
          /\ up' = [up EXCEPT ![r] = o]
          /\ resp' = [resp EXCEPT ![r] = IF o.kind = "answer" THEN Answered(o.hop)
                                         ELSE Error(FailureStatus(o.kind), FALSE)]
    BY <1>4 DEF Receive
  <2>2. /\ pc[r] = "upstream" /\ pc' = [pc EXCEPT ![r] = "proxied"]
        /\ UNCHANGED <<cfg, in, err, sent, log>>
    BY <1>4 DEF Receive
  <2>3. pc'[r] = "proxied" /\ up'[r] = o BY <2>1, <2>2
  <2>4. Carried(r)' BY <2>1, <2>3
  <2>5. resp'[r].status # "block"
    <3>1. CASE o.kind = "answer" BY <2>1, <3>1
    <3>2. CASE o.kind # "answer"
      <4>1. o.kind \in Failures BY <3>2, OutcomeAssumption
      <4>2. FailureStatus(o.kind) # "block" BY <4>1 DEF FailureStatus, Failures
      <4> QED BY <2>1, <3>2, <4>2
    <3> QED BY <3>1, <3>2
  <2>6. BeforeSending(r)' /\ Sending(r)' BY <2>2, <2>3
  <2>7. Answering(r)' BY <2>3, <2>4
  <2>8. Bare(r)' BY <2>3
  <2>9. Logging(r)' BY <2>2, <2>3, <2>5
  <2> QED BY <2>6, <2>7, <2>8, <2>9
<1>5. CASE ReturnBare(r)
  <2>1. /\ pc[r] = "proxied" /\ Disabled /\ pc' = [pc EXCEPT ![r] = "return"]
        /\ UNCHANGED <<cfg, in, err, resp, up, sent, log>>
    BY <1>5 DEF ReturnBare
  <2>2. pc'[r] = "return" /\ Carried(r) /\ resp[r].status # "none" /\ cfg.response = "DISABLE"
    BY <2>1, CarriedIsAnswer
  <2>3. BeforeSending(r)' /\ Sending(r)' BY <2>1, <2>2
  <2>4. Answering(r)' BY <2>1, <2>2
  <2>5. Bare(r)' BY <2>1, <2>2
  <2>6. Logging(r)' BY <2>1, <2>2
  <2> QED BY <2>3, <2>4, <2>5, <2>6
<1>6. CASE ShadowCheck(r)
  <2>1. /\ pc[r] = "proxied" /\ ~Disabled /\ ~in[r].known /\ pc' = [pc EXCEPT ![r] = "return"]
        /\ log' = [log EXCEPT ![r] = IF up[r].excluded THEN @ ELSE @ \cup {"shadow"}]
        /\ UNCHANGED <<cfg, in, err, resp, up, sent>>
    BY <1>6 DEF ShadowCheck
  <2>2. pc'[r] = "return" /\ resp[r].status # "none" /\ cfg.response # "BLOCK"
    BY <2>1, CarriedIsAnswer
  <2>3. BeforeSending(r)' /\ Sending(r)' BY <2>1, <2>2
  <2>4. Answering(r)' BY <2>1, <2>2
  <2>5. Bare(r)' BY <2>1, <2>2
  <2>6. Logging(r)' BY <2>1, <2>2
  <2> QED BY <2>3, <2>4, <2>5, <2>6
<1>7. CASE ValidateResponsePasses(r)
  <2>1. /\ pc[r] = "proxied" /\ ~Bypass(r) /\ ~up[r].bad_encoding /\ pc' = [pc EXCEPT ![r] = "return"]
        /\ cfg.response = "DISABLE" \/ up[r].verdict = "valid"
        /\ UNCHANGED <<cfg, in, err, resp, up, sent, log>>
    BY <1>7 DEF ValidateResponsePasses, Inspected
  <2>2. pc'[r] = "return" /\ resp[r].status # "none" BY <2>1, CarriedIsAnswer
  <2>3. BeforeSending(r)' /\ Sending(r)' BY <2>1, <2>2
  <2>4. Answering(r)' BY <2>1, <2>2
  <2>5. Bare(r)' BY <2>1, <2>2
  <2>6. Logging(r)' BY <2>1, <2>2
  <2> QED BY <2>3, <2>4, <2>5, <2>6
<1>8. CASE ValidateResponseLogs(r)
  <2>1. /\ pc[r] = "proxied" /\ ~Bypass(r) /\ ~up[r].bad_encoding /\ pc' = [pc EXCEPT ![r] = "return"]
        /\ cfg.response = "LOG_ONLY" /\ log' = [log EXCEPT ![r] = @ \cup {"response"}]
        /\ UNCHANGED <<cfg, in, err, resp, up, sent>>
    BY <1>8 DEF ValidateResponseLogs, Inspected
  <2>2. pc'[r] = "return" /\ resp[r].status # "none" BY <2>1, CarriedIsAnswer
  <2>3. BeforeSending(r)' /\ Sending(r)' BY <2>1, <2>2
  <2>4. Answering(r)' BY <2>1, <2>2
  <2>5. Bare(r)' BY <2>1, <2>2
  <2>6. Logging(r)' BY <2>1, <2>2
  <2> QED BY <2>3, <2>4, <2>5, <2>6
<1>9. CASE Unwind(r)
  <2>1. /\ pc[r] = "unwind" /\ pc' = [pc EXCEPT ![r] = "done"]
        /\ resp' = [resp EXCEPT ![r] = Unwound(r)]
        /\ UNCHANGED <<cfg, in, err, up, sent, log>>
    BY <1>9 DEF Unwind
  <2>2. pc'[r] = "done" /\ resp'[r] = Unwound(r) BY <2>1
  <2>3. BeforeSending(r)' /\ Sending(r)' BY <2>1, <2>2
  <2>4. CASE err[r] = "nil"
    <3>1. resp'[r] = WithoutHop(resp[r]) BY <2>2, <2>4 DEF Unwound
    <3>2. /\ resp'[r].status = resp[r].status /\ resp'[r].src = resp[r].src
          /\ resp'[r].hop = FALSE
      BY <3>1 DEF WithoutHop
    <3>3. Answering(r)' BY <2>1, <2>2, <2>4, <3>2
    <3>4. Logging(r)' BY <2>1, <2>2, <2>4, <3>2
    <3>5. Bare(r)'
      <4>1. Disabled => \/ Denied(r)
                        \/ resp[r] = Error("503", FALSE)
                        \/ sent[r] = 1 /\ Carried(r)
        BY <2>1
      <4>2. Disabled => \/ Denied(r)
                        \/ resp'[r] = Error("503", FALSE)
                        \/ /\ sent[r] = 1
                           /\ IF up[r].kind = "answer" THEN resp'[r] = Answered(FALSE)
                              ELSE resp'[r] = Error(FailureStatus(up[r].kind), FALSE)
        BY <3>1, <4>1, WithoutHopKeeps
      <4>3. Bare(r)' <=> (Disabled => \/ Denied(r)
                                      \/ resp'[r] = Error("503", FALSE)
                                      \/ /\ sent[r] = 1
                                         /\ IF up[r].kind = "answer" THEN resp'[r] = Answered(FALSE)
                                            ELSE resp'[r] = Error(FailureStatus(up[r].kind), FALSE))
        BY <2>1, <2>2
      <4> QED BY <4>2, <4>3
    <3> QED BY <2>3, <3>3, <3>4, <3>5
  <2>5. CASE err[r] # "nil"
    <3>1. resp'[r] = Error("502", FALSE) BY <2>2, <2>5 DEF Unwound
    <3>2. Answering(r)' BY <2>2, <3>1
    <3>3. Logging(r)' BY <2>1, <2>2, <2>5, <3>1
    <3>4. Bare(r)' BY <2>1, <2>2, <2>5
    <3> QED BY <2>3, <3>2, <3>3, <3>4
  <2> QED BY <2>4, <2>5
<1> QED BY <1>4, <1>5, <1>6, <1>7, <1>8, <1>9, <1>1, <1>2, <1>3

\* The promises of every request survive every step of one.
LEMMA StepIsSound ==
    ASSUME TypeOK, \A s \in Requests : Sound(s), NEW r \in Requests,
           Arrive(r) \/ Serve(r) \/ Deliver(r)
    PROVE  \A s \in Requests : Sound(s)'
<1>1. Sound(r)'
  BY EntryIsSound, LeaseIsSound, RequestIsSound, AnswerIsSound DEF Serve
<1>2. ASSUME NEW s \in Requests, s # r PROVE Sound(s)'
  BY <1>2, OthersStay, Frame
<1> QED BY <1>1, <1>2

-----------------------------------------------------------------------------
(* The types *)

LEMMA StepKeepsType ==
    ASSUME TypeOK, NEW r \in Requests, Sound(r), Arrive(r) \/ Serve(r) \/ Deliver(r)
    PROVE  TypeOK'
<1> USE DEF TypeOK, Goto, Reply, Labels
<1>1. CASE Arrive(r) BY <1>1 DEF Arrive
<1>2. CASE Deliver(r) BY <1>2, ResponseTypes DEF Deliver, Responses
<1>3. CASE RouterBlocks(r)
  <2>1. Error("block", FALSE) \in Responses BY ResponseTypes DEF Statuses
  <2> QED BY <1>3, <2>1 DEF RouterBlocks, Responses
<1>4. CASE DenylistBlocks(r)
  <2>1. Error("block", FALSE) \in Responses BY ResponseTypes DEF Statuses
  <2> QED BY <1>4, <2>1 DEF DenylistBlocks, Responses
<1>5. CASE GetRefused(r)
  <2>1. Error("503", FALSE) \in Responses BY ResponseTypes DEF Statuses
  <2> QED BY <1>5, <2>1 DEF GetRefused, Responses
<1>6. CASE ConvertFails(r)
  <2>1. Error("400", FALSE) \in Responses BY ResponseTypes DEF Statuses
  <2> QED BY <1>6, <2>1 DEF ConvertFails, Responses
<1>7. CASE ValidateRequestBlocks(r)
  <2>1. cfg.status \in BOOLEAN BY ConfigAssumption
  <2>2. Error("block", cfg.status) \in Responses BY <2>1, ResponseTypes DEF Statuses
  <2> QED BY <1>7, <2>2 DEF ValidateRequestBlocks, Responses
<1>8. CASE ValidateResponseBlocks(r)
  <2>1. cfg.status \in BOOLEAN BY ConfigAssumption
  <2>2. Error("block", cfg.status) \in Responses BY <2>1, ResponseTypes DEF Statuses
  <2> QED BY <1>8, <2>2 DEF ValidateResponseBlocks, Responses
<1>9. CASE Receive(r)
  <2>1. PICK o \in Outcomes :
          /\ up' = [up EXCEPT ![r] = o]
          /\ resp' = [resp EXCEPT ![r] = IF o.kind = "answer" THEN Answered(o.hop)
                                         ELSE Error(FailureStatus(o.kind), FALSE)]
    BY <1>9 DEF Receive
  <2>2. (IF o.kind = "answer" THEN Answered(o.hop) ELSE Error(FailureStatus(o.kind), FALSE)) \in Responses
    <3>1. CASE o.kind = "answer"
      <4>1. o.hop \in BOOLEAN BY OutcomeAssumption
      <4> QED BY <3>1, <4>1, ResponseTypes
    <3>2. CASE o.kind # "answer"
      <4>1. o.kind \in Failures BY <3>2, OutcomeAssumption
      <4>2. FailureStatus(o.kind) \in Statuses BY <4>1, ResponseTypes DEF Statuses
      <4> QED BY <3>2, <4>2, ResponseTypes
    <3> QED BY <3>1, <3>2
  <2> QED BY <1>9, <2>1, <2>2 DEF Receive, Responses
<1>10. CASE Unwind(r)
  <2>1. Unwound(r) \in Responses
    <3>1. resp[r] \in Responses BY DEF Responses
    <3> QED BY <3>1, ResponseTypes DEF Unwound, Statuses
  <2> QED BY <1>10, <2>1 DEF Unwind, Responses
<1>11. CASE Send(r)
  <2>1. sent[r] = 0 BY <1>11 DEF Send, Sound, BeforeSending, Unsent
  <2> QED BY <1>11, <2>1 DEF Send
<1>12. CASE RouterPasses(r) BY <1>12 DEF RouterPasses
<1>13. CASE DenylistPasses(r) BY <1>13 DEF DenylistPasses
<1>14. CASE GetClient(r) BY <1>14 DEF GetClient
<1>15. CASE GetGranted(r) BY <1>15 DEF GetGranted
<1>16. CASE PutClient(r) BY <1>16 DEF PutClient
<1>17. CASE Dispatch(r) BY <1>17 DEF Dispatch
<1>18. CASE Convert(r) BY <1>18 DEF Convert
<1>19. CASE DecompressRequestFails(r) BY <1>19 DEF DecompressRequestFails
<1>20. CASE ValidateRequestPasses(r) BY <1>20 DEF ValidateRequestPasses
<1>21. CASE ValidateRequestLogs(r) BY <1>21 DEF ValidateRequestLogs
<1>22. CASE ValidateRequestPanics(r) BY <1>22 DEF ValidateRequestPanics
<1>23. CASE ReturnBare(r) BY <1>23 DEF ReturnBare
<1>24. CASE ShadowCheck(r) BY <1>24 DEF ShadowCheck
<1>25. CASE DecompressResponseFails(r) BY <1>25 DEF DecompressResponseFails
<1>26. CASE ValidateResponsePasses(r) BY <1>26 DEF ValidateResponsePasses
<1>27. CASE ValidateResponseLogs(r) BY <1>27 DEF ValidateResponseLogs
<1>28. CASE ValidateResponsePanics(r) BY <1>28 DEF ValidateResponsePanics
<1> QED
  BY <1>1, <1>2, <1>3, <1>4, <1>5, <1>6, <1>7, <1>8, <1>9, <1>10, <1>11, <1>12, <1>13, <1>14, <1>15,
     <1>16, <1>17, <1>18, <1>19, <1>20, <1>21, <1>22, <1>23, <1>24, <1>25, <1>26, <1>27, <1>28 DEF Serve

-----------------------------------------------------------------------------
(* The leases *)

\* The handler has a client from the grant to the deferred Put, waits for one at
\* wait_client only, and no client is in two hands.
Leasing ==
    /\ parked \subseteq Clients
    /\ lease \in [Requests -> Clients \cup {NilClient}]
    /\ call \in [Requests -> {"none", "early", "late"}]
    /\ \A r \in Requests : lease[r] # NilClient <=> pc[r] \in Leased
    /\ \A r \in Requests : call[r] # "none" <=> pc[r] = "wait_client"
    /\ \A r \in Requests : lease[r] \notin parked
    /\ \A r, s \in Requests : s # r /\ lease[r] # NilClient => lease[s] # lease[r]

\* The steps that leave the pool alone.
LEMMA OthersKeepLeases ==
    ASSUME TypeOK, Leasing, NEW r \in Requests, NEW l \in Labels,
           pc' = [pc EXCEPT ![r] = l], UNCHANGED pool,
           pc[r] \in Leased <=> l \in Leased, pc[r] # "wait_client", l # "wait_client"
    PROVE  Leasing'
BY DEF TypeOK, Leasing, pool

\* The steps of the pool.
LEMMA GetGrantedKeepsLeases ==
    ASSUME TypeOK, Leasing, NEW r \in Requests, GetGranted(r)
    PROVE  Leasing'
<1>1. PICK c \in parked \cup Pool!Free :
        lease' = [lease EXCEPT ![r] = c] /\ parked' = parked \ {c}
  BY DEF GetGranted, Pool!Grant
<1>2. /\ c \in Clients /\ c # NilClient /\ \A s \in Requests : lease[s] # c
      /\ call' = [call EXCEPT ![r] = "none"]
      /\ pc[r] = "wait_client" /\ pc' = [pc EXCEPT ![r] = "dispatch"]
  BY ClientAssumption DEF Leasing, GetGranted, Pool!Grant, Pool!Free, Goto
<1>3. lease[r] = NilClient BY <1>2 DEF Leasing, Leased
<1>4. /\ parked' \subseteq Clients /\ lease' \in [Requests -> Clients \cup {NilClient}]
      /\ call' \in [Requests -> {"none", "early", "late"}]
  BY <1>1, <1>2 DEF Leasing
<1>5. \A q \in Requests : lease'[q] # NilClient <=> pc'[q] \in Leased
  BY <1>1, <1>2 DEF Leasing, TypeOK, Leased
<1>6. \A q \in Requests : call'[q] # "none" <=> pc'[q] = "wait_client"
  BY <1>2 DEF Leasing, TypeOK
<1>7. \A q \in Requests : lease'[q] \notin parked'
  BY <1>1, <1>2 DEF Leasing
<1>8. \A q, s \in Requests : s # q /\ lease'[q] # NilClient => lease'[s] # lease'[q]
  BY <1>1, <1>2 DEF Leasing
<1> QED BY <1>4, <1>5, <1>6, <1>7, <1>8 DEF Leasing

LEMMA PutClientKeepsLeases ==
    ASSUME TypeOK, Leasing, NEW r \in Requests, PutClient(r)
    PROVE  Leasing'
<1>1. /\ lease[r] # NilClient /\ lease' = [lease EXCEPT ![r] = NilClient]
      /\ parked' = parked \/ parked' = parked \cup {lease[r]}
      /\ call' = call
      /\ pc[r] = "return" /\ pc' = [pc EXCEPT ![r] = "unwind"]
  BY DEF PutClient, Pool!GiveBack, Goto
<1>2. lease[r] \in Clients /\ \A s \in Requests \ {r} : lease[s] # lease[r]
  BY <1>1 DEF Leasing
<1>3. /\ parked' \subseteq Clients /\ lease' \in [Requests -> Clients \cup {NilClient}]
      /\ call' \in [Requests -> {"none", "early", "late"}]
  BY <1>1, <1>2 DEF Leasing
<1>4. \A q \in Requests : lease'[q] # NilClient <=> pc'[q] \in Leased
  BY <1>1 DEF Leasing, TypeOK, Leased
<1>5. \A q \in Requests : call'[q] # "none" <=> pc'[q] = "wait_client"
  BY <1>1 DEF Leasing, TypeOK
<1>6. \A q \in Requests : lease'[q] \notin parked'
  <2>1. NilClient \notin parked' BY <1>3, ClientAssumption
  <2> QED BY <1>1, <1>2, <2>1 DEF Leasing
<1>7. \A q, s \in Requests : s # q /\ lease'[q] # NilClient => lease'[s] # lease'[q]
  BY <1>1 DEF Leasing
<1> QED BY <1>3, <1>4, <1>5, <1>6, <1>7 DEF Leasing

LEMMA StepKeepsLeases ==
    ASSUME TypeOK, Leasing, NEW r \in Requests, Arrive(r) \/ Serve(r) \/ Deliver(r)
    PROVE  Leasing'
<1> USE DEF Leased, Labels, Goto, Reply
<1>1. CASE GetClient(r)
  BY <1>1 DEF GetClient, Pool!Call, TypeOK, Leasing
<1>2. CASE GetGranted(r) BY <1>2, GetGrantedKeepsLeases
<1>3. CASE GetRefused(r)
  BY <1>3 DEF GetRefused, Pool!Refuse, TypeOK, Leasing
<1>4. CASE PutClient(r) BY <1>4, PutClientKeepsLeases
<1>5. CASE Arrive(r) BY <1>5, OthersKeepLeases DEF Arrive
<1>6. CASE Deliver(r) BY <1>6, OthersKeepLeases DEF Deliver
<1>7. CASE RouterBlocks(r) BY <1>7, OthersKeepLeases DEF RouterBlocks
<1>8. CASE RouterPasses(r) BY <1>8, OthersKeepLeases DEF RouterPasses
<1>9. CASE DenylistBlocks(r) BY <1>9, OthersKeepLeases DEF DenylistBlocks
<1>10. CASE DenylistPasses(r) BY <1>10, OthersKeepLeases DEF DenylistPasses
<1>11. CASE Dispatch(r) BY <1>11, OthersKeepLeases DEF Dispatch
<1>12. CASE Convert(r) BY <1>12, OthersKeepLeases DEF Convert
<1>13. CASE ConvertFails(r) BY <1>13, OthersKeepLeases DEF ConvertFails
<1>14. CASE DecompressRequestFails(r) BY <1>14, OthersKeepLeases DEF DecompressRequestFails
<1>15. CASE ValidateRequestPasses(r) BY <1>15, OthersKeepLeases DEF ValidateRequestPasses
<1>16. CASE ValidateRequestBlocks(r) BY <1>16, OthersKeepLeases DEF ValidateRequestBlocks
<1>17. CASE ValidateRequestLogs(r) BY <1>17, OthersKeepLeases DEF ValidateRequestLogs
<1>18. CASE ValidateRequestPanics(r) BY <1>18, OthersKeepLeases DEF ValidateRequestPanics
<1>19. CASE Send(r) BY <1>19, OthersKeepLeases DEF Send
<1>20. CASE Receive(r) BY <1>20, OthersKeepLeases DEF Receive
<1>21. CASE ReturnBare(r) BY <1>21, OthersKeepLeases DEF ReturnBare
<1>22. CASE ShadowCheck(r) BY <1>22, OthersKeepLeases DEF ShadowCheck
<1>23. CASE DecompressResponseFails(r) BY <1>23, OthersKeepLeases DEF DecompressResponseFails, Inspected
<1>24. CASE ValidateResponsePasses(r) BY <1>24, OthersKeepLeases DEF ValidateResponsePasses, Inspected
<1>25. CASE ValidateResponseBlocks(r) BY <1>25, OthersKeepLeases DEF ValidateResponseBlocks, Inspected
<1>26. CASE ValidateResponseLogs(r) BY <1>26, OthersKeepLeases DEF ValidateResponseLogs, Inspected
<1>27. CASE ValidateResponsePanics(r) BY <1>27, OthersKeepLeases DEF ValidateResponsePanics, Inspected
<1>28. CASE Unwind(r) BY <1>28, OthersKeepLeases DEF Unwind
<1> QED
  BY <1>1, <1>2, <1>3, <1>4, <1>5, <1>6, <1>7, <1>8, <1>9, <1>10, <1>11, <1>12, <1>13, <1>14,
     <1>15, <1>16, <1>17, <1>18, <1>19, <1>20, <1>21, <1>22, <1>23, <1>24, <1>25, <1>26, <1>27, <1>28 DEF Serve

-----------------------------------------------------------------------------
(* The induction *)

IInv == TypeOK /\ (\A r \in Requests : Sound(r)) /\ Leasing

LEMMA InitInductive == Init => IInv
<1> SUFFICES ASSUME Init PROVE IInv
  OBVIOUS
<1>1. TypeOK BY DEF Init, TypeOK, Labels, Statuses, NoResponse
<1>2. \A r \in Requests : Sound(r)
  BY DEF Init, Sound, BeforeSending, Sending, Answering, Bare, Logging, Unsent, Leaving, NoResponse
<1>3. Leasing BY ClientAssumption DEF Init, Pool!LInit, Leasing, Leased
<1> QED BY <1>1, <1>2, <1>3 DEF IInv

LEMMA NextInductive == IInv /\ [Next]_vars => IInv'
<1> SUFFICES ASSUME IInv, [Next]_vars PROVE IInv'
  OBVIOUS
<1> USE DEF IInv
<1>1. ASSUME NEW r \in Requests, Arrive(r) \/ Serve(r) \/ Deliver(r) PROVE IInv'
  BY <1>1, StepIsSound, StepKeepsType, StepKeepsLeases
<1>2. ASSUME UNCHANGED <<cfg, in, pc, err, resp, up, sent, log>>,
             UNCHANGED <<parked, lease, call>>
      PROVE  IInv'
  <2>1. TypeOK' BY <1>2 DEF TypeOK
  <2>2. \A s \in Requests : Sound(s)' BY <1>2, Frame
  <2>3. Leasing' BY <1>2 DEF Leasing
  <2> QED BY <2>1, <2>2, <2>3
<1>3. CASE ClosePool BY <1>2, <1>3 DEF ClosePool, Pool!Shut
<1>4. CASE UNCHANGED vars BY <1>2, <1>4 DEF vars
<1> QED BY <1>1, <1>3, <1>4 DEF Next

\* The promises above, the types and the leases hold in every state.
THEOREM Inductive == Spec => []IInv
BY InitInductive, NextInductive, PTL DEF Spec

\* The response of a request always has one of the firewall's statuses, and it is
\* sent at most once.
THEOREM TypeCorrect == Spec => []TypeOK
<1>1. IInv => TypeOK BY DEF IInv
<1> QED BY <1>1, Inductive, PTL

\* No request with a denied token, of an unknown route while a mode is BLOCK, or
\* with a violation while requests are blocked, reaches the backend (performProxy is
\* the only way there).
THEOREM BackendSeesOnlyTheAllowed == Spec => []ForwardedOnlyIfAllowed
<1>1. IInv => ForwardedOnlyIfAllowed
  BY DEF IInv, Sound, Sending, TypeOK, ForwardedOnlyIfAllowed
<1> QED BY <1>1, Inductive, PTL

\* While responses are blocked the client sees of the backend what ValidateResponse
\* read and accepted.
THEOREM ClientSeesOnlyTheValid == Spec => []DeliveredOnlyIfValid
<1>1. IInv => DeliveredOnlyIfValid
  BY DEF IInv, Sound, Answering, Accepted, DeliveredOnlyIfValid, Served
<1> QED BY <1>1, Inductive, PTL

\* LOG_ONLY changes no status and loses no violation.
THEOREM LoggingOnlyReports == Spec => []LogOnlyReports
<1>1. IInv => LogOnlyReports
  BY DEF IInv, Sound, Sending, Logging, Leaving, TypeOK, LogOnlyReports, Served
<1> QED BY <1>1, Inductive, PTL

\* With two DISABLE modes the firewall is a proxy.
THEOREM DisabledIsAProxy == Spec => []DisabledIsTransparent
<1>1. IInv => DisabledIsTransparent
  BY DEF IInv, Sound, Bare, DisabledIsTransparent, Served
<1> QED BY <1>1, Inductive, PTL

\* No response leaves without a status or with the backend's hop-by-hop headers.
THEOREM AnswersAreComplete == Spec => []ResponseIsComplete
<1>1. IInv => ResponseIsComplete
  BY DEF IInv, Sound, Answering, ResponseIsComplete, Served
<1> QED BY <1>1, Inductive, PTL

\* The handler never meets an unknown route in BLOCK mode.
THEOREM RouterShields == Spec => []RouterShieldsHandler
<1>1. IInv => RouterShieldsHandler
  BY DEF IInv, Sound, BeforeSending, RouterShieldsHandler
<1> QED BY <1>1, Inductive, PTL

\* Shadow APIs are unknown routes, and excluded statuses are no shadow APIs.
THEOREM ShadowsAreUnknown == Spec => []ShadowOnlyIfUnknown
<1>1. IInv => ShadowOnlyIfUnknown
  BY DEF IInv, Sound, Logging, ShadowOnlyIfUnknown
<1> QED BY <1>1, Inductive, PTL

\* A request upstream has a client to itself, and an answered one has none.
THEOREM LeasesMatchRequests == Spec => []LeaseMatchesRequest
<1>1. IInv => LeaseMatchesRequest
  BY DEF IInv, Leasing, Leased, LeaseMatchesRequest
<1> QED BY <1>1, Inductive, PTL

-----------------------------------------------------------------------------
(* The chain and the handler keep the promise of Firewall.  Told follows what the   *)
(* client will be told: from the labels before the request is sent, by which the    *)
(* policy has let it pass so far, to the labels after the handler's return, where   *)
(* the response and the log that Unwind will leave are those of the policy.         *)

Barred(r) == Seen!Barred(cfg, in[r])
Examined(r) == Seen!Examined(cfg, in[r])
Passes(r) == Seen!Passes(cfg, in[r])
Reported(r) == Seen!Reported(cfg, in[r])

\* What the client is told when the chain is left now.
Answer(r) == [resp |-> Unwound(r), log |-> log[r]]

Refused(r) ==
    \/ Barred(r) /\ Answer(r) = Seen!Own("block", FALSE, {})
    \/ ~Barred(r) /\ ~open /\ Answer(r) = Seen!Own("503", FALSE, {})
    \/ ~Barred(r) /\ ~Passes(r) /\ Answer(r) = Seen!Objection(cfg, in[r])

Told(r) ==
    /\ pc[r] \in Unsent \ {"proxy"} => log[r] = {}
    /\ pc[r] \in {"get", "wait_client", "dispatch", "convert", "validate_request"} => ~Barred(r)
    /\ pc[r] \in {"convert", "validate_request"} => Examined(r)
    /\ pc[r] = "validate_request" => in[r].form = "ok"
    /\ pc[r] \in {"proxy", "upstream", "proxied"} => Passes(r) /\ log[r] = Reported(r)
    /\ pc[r] \in {"return", "unwind"} =>
          IF sent[r] = 0 THEN Refused(r)
          ELSE up[r] \in Outcomes /\ Answer(r) = Seen!Relayed(cfg, in[r], up[r])

\* The policy is that of the chain.
LEMMA PolicyAgrees ==
    ASSUME NEW r \in Requests
    PROVE  /\ Barred(r) <=> Denied(r) \/ (~in[r].known /\ Mode("BLOCK"))
           /\ Examined(r) <=> ~Bypass(r)
           /\ Seen!Violates(in[r]) <=> in[r].verdict \in RequestErrors
BY DEF Barred, Seen!Barred, Denied, TokenListed, Mode, Examined, Seen!Examined, Bypass, Disabled,
       Seen!Violates, RequestErrors

\* So are its answers.
LEMMA AnswersAgree ==
    /\ \A st, why, l : Seen!Own(st, why, l) = [resp |-> Error(st, why), log |-> l]
    /\ \A l : Seen!Backends(l) = [resp |-> Answered(FALSE), log |-> l]
    /\ Seen!NoAnswer = [resp |-> NoResponse, log |-> {}]
    /\ Seen!Carries = NoInput
BY DEF Seen!Own, Error, Seen!Backends, Answered, Seen!NoAnswer, NoResponse, Seen!Carries, NoInput

\* What performProxy made of the outcome is what the client is told of it, when nothing
\* replaces it.
LEMMA CarriedIsConveyed ==
    ASSUME NEW r \in Requests, up[r] \in Outcomes, Carried(r), err'[r] = "nil", resp'[r] = resp[r]
    PROVE  Answer(r)' = Seen!Conveyed(up[r], log'[r])
<1>1. Unwound(r)' = WithoutHop(resp[r]) BY DEF Unwound, WithoutHop
<1>2. up[r].kind \in {"answer", "dial_timeout", "no_free_conns", "failed"}
  BY OutcomeAssumption DEF Failures
<1>3. CASE up[r].kind = "answer"
  BY <1>1, <1>3, DroppedHeaders, AnswersAgree DEF Carried, Answer, Seen!Conveyed
<1>4. CASE up[r].kind # "answer"
  <2>1. Unwound(r)' = Error(FailureStatus(up[r].kind), FALSE)
    BY <1>1, <1>4, DroppedHeaders DEF Carried
  <2>2. Answer(r)' = Seen!Own(FailureStatus(up[r].kind), FALSE, log'[r])
    BY <2>1, AnswersAgree DEF Answer
  <2> QED BY <1>2, <1>4, <2>2 DEF FailureStatus, Seen!Conveyed
<1> QED BY <1>3, <1>4

\* The policy depends on the configuration and on what the request carries alone, and
\* the answer on the three variables it is made of.
LEMMA PolicyStays ==
    ASSUME NEW r \in Requests, cfg' = cfg, in'[r] = in[r]
    PROVE  /\ Barred(r)' <=> Barred(r)
           /\ Examined(r)' <=> Examined(r)
           /\ Passes(r)' <=> Passes(r)
           /\ Reported(r)' = Reported(r)
BY DEF Barred, Examined, Passes, Reported, Seen!Barred, Seen!Examined, Seen!Passes, Seen!Reported,
       Seen!Violates

LEMMA RefusalStays ==
    ASSUME NEW r \in Requests, Refused(r), cfg' = cfg, in'[r] = in[r], open' => open,
           err'[r] = err[r], resp'[r] = resp[r], log'[r] = log[r]
    PROVE  Refused(r)'
<1>1. Answer(r)' = Answer(r) BY DEF Answer, Unwound
<1>2. Seen!Objection(cfg, in[r])' = Seen!Objection(cfg, in[r])
  BY DEF Seen!Objection, Seen!Own
<1> QED BY <1>1, <1>2, PolicyStays DEF Refused, Seen!Own

\* Told concerns one request, but for the pool, which is not opened again.
LEMMA ToldStays ==
    ASSUME NEW r \in Requests, Told(r), cfg' = cfg, in'[r] = in[r], open' => open,
           pc'[r] = pc[r], err'[r] = err[r], resp'[r] = resp[r], log'[r] = log[r],
           sent'[r] = sent[r], up'[r] = up[r]
    PROVE  Told(r)'
<1>1. Answer(r)' = Answer(r) BY DEF Answer, Unwound
<1>2. Seen!Relayed(cfg, in[r], up[r])' = Seen!Relayed(cfg, in[r], up[r])
  BY DEF Seen!Relayed, Seen!Own, Seen!Conveyed, Seen!Reported, Seen!Findings, Seen!Examined,
         Seen!Unreadable, Seen!Violates, Seen!Backends
<1>3. Refused(r) => Refused(r)' BY RefusalStays
<1> QED BY <1>1, <1>2, <1>3, PolicyStays DEF Told, Unsent

\* An error of the firewall is told as it is, and any Go error as a 502.
LEMMA OwnIsTold ==
    ASSUME NEW r \in Requests
    PROVE  /\ \A st, why : err'[r] = "nil" /\ resp'[r] = Error(st, why) =>
                 Answer(r)' = Seen!Own(st, why, log'[r])
           /\ err'[r] # "nil" => Answer(r)' = Seen!Own("502", FALSE, log'[r])
<1>1. ASSUME NEW st, NEW why, err'[r] = "nil", resp'[r] = Error(st, why)
      PROVE  Answer(r)' = Seen!Own(st, why, log'[r])
  <2>1. Unwound(r)' = Error(st, why) BY <1>1, DroppedHeaders DEF Unwound
  <2> QED BY <2>1, AnswersAgree DEF Answer
<1>2. ASSUME err'[r] # "nil" PROVE Answer(r)' = Seen!Own("502", FALSE, log'[r])
  <2>1. Unwound(r)' = Error("502", FALSE) BY <1>2 DEF Unwound, Error
  <2> QED BY <2>1, AnswersAgree DEF Answer
<1> QED BY <1>1, <1>2

\* The server, the router, the denylist and the pool.
LEMMA EntryIsTold ==
    ASSUME TypeOK, NEW r \in Requests, Sound(r), Told(r),
           \/ Arrive(r) \/ Deliver(r) \/ RouterBlocks(r) \/ RouterPasses(r)
           \/ DenylistBlocks(r) \/ DenylistPasses(r)
           \/ GetClient(r) \/ GetGranted(r) \/ GetRefused(r)
    PROVE  Told(r)'
<1> USE DEF TypeOK, Told, Goto, Reply, Unsent
<1>1. CASE Arrive(r) BY <1>1 DEF Arrive
<1>2. CASE Deliver(r) BY <1>2 DEF Deliver
<1>3. CASE RouterBlocks(r) BY <1>3 DEF RouterBlocks
<1>4. CASE RouterPasses(r) BY <1>4 DEF RouterPasses
<1>5. CASE DenylistBlocks(r)
  <2>1. /\ pc[r] = "denylist" /\ pc'[r] = "unwind" /\ err'[r] = "nil" /\ sent'[r] = 0
        /\ resp'[r] = Error("block", FALSE) /\ log'[r] = {} /\ cfg' = cfg /\ in' = in
    BY <1>5 DEF DenylistBlocks, Sound, BeforeSending, Leaving
  <2>2. Barred(r)' BY <1>5, <2>1, PolicyAgrees, PolicyStays DEF DenylistBlocks
  <2>3. Answer(r)' = Seen!Own("block", FALSE, {})
    <3> HIDE DEF TypeOK, Told, Goto, Reply, Unsent
    <3>1. Answer(r)' = Seen!Own("block", FALSE, log'[r]) BY <2>1, OwnIsTold
    <3> QED BY <2>1, <3>1
  <2>4. Refused(r)' BY <2>2, <2>3 DEF Refused, Seen!Own
  <2> QED BY <2>1, <2>4
<1>6. CASE DenylistPasses(r)
  <2>1. ~Barred(r) BY <1>6, PolicyAgrees DEF DenylistPasses, Sound, BeforeSending
  <2> QED BY <1>6, <2>1, PolicyStays DEF DenylistPasses
<1>7. CASE GetClient(r) BY <1>7, PolicyStays DEF GetClient
<1>8. CASE GetGranted(r) BY <1>8, PolicyStays DEF GetGranted
<1>9. CASE GetRefused(r)
  <2>1. /\ pc[r] = "wait_client" /\ pc'[r] = "unwind" /\ err'[r] = "nil" /\ sent'[r] = 0
        /\ resp'[r] = Error("503", FALSE) /\ log'[r] = {} /\ cfg' = cfg /\ in' = in
        /\ ~open /\ open' = open
    BY <1>9 DEF GetRefused, Sound, BeforeSending, Leaving, Pool!Refuse
  <2>2. ~Barred(r)' BY <2>1, PolicyStays
  <2>3. Answer(r)' = Seen!Own("503", FALSE, {})
    <3> HIDE DEF TypeOK, Told, Goto, Reply, Unsent
    <3>1. Answer(r)' = Seen!Own("503", FALSE, log'[r]) BY <2>1, OwnIsTold
    <3> QED BY <2>1, <3>1
  <2>4. Refused(r)' BY <2>1, <2>2, <2>3 DEF Refused, Seen!Own
  <2> QED BY <2>1, <2>4
<1> QED BY <1>1, <1>2, <1>3, <1>4, <1>5, <1>6, <1>7, <1>8, <1>9

\* The handler before the request is sent.
LEMMA RequestIsTold ==
    ASSUME TypeOK, NEW r \in Requests, Sound(r), Told(r),
           \/ Dispatch(r) \/ Convert(r) \/ ConvertFails(r) \/ DecompressRequestFails(r)
           \/ ValidateRequestPasses(r) \/ ValidateRequestBlocks(r) \/ ValidateRequestLogs(r)
           \/ ValidateRequestPanics(r) \/ Send(r)
    PROVE  Told(r)'
<1> USE DEF TypeOK, Told, Goto, Reply, Unsent
<1>1. CASE Dispatch(r)
  <2>1. CASE Bypass(r)
    <3>1. ~Examined(r) /\ ~Barred(r) BY <1>1, <2>1, PolicyAgrees DEF Dispatch
    <3>2. Passes(r) /\ Reported(r) = {}
      BY <3>1 DEF Passes, Seen!Passes, Reported, Seen!Reported, Examined, Barred
    <3> QED BY <1>1, <2>1, <3>2, PolicyStays DEF Dispatch
  <2>2. CASE ~Bypass(r) BY <1>1, <2>2, PolicyAgrees, PolicyStays DEF Dispatch
  <2> QED BY <2>1, <2>2
<1>2. CASE Convert(r) BY <1>2, PolicyStays DEF Convert
<1>3. CASE Send(r) BY <1>3, PolicyStays DEF Send
<1>4. CASE ConvertFails(r) \/ DecompressRequestFails(r) \/ ValidateRequestBlocks(r)
           \/ ValidateRequestPanics(r)
  <2>1. /\ pc[r] \in {"convert", "validate_request"} /\ pc'[r] = "return" /\ sent'[r] = 0
        /\ cfg' = cfg /\ in' = in /\ Examined(r) /\ ~Barred(r)
    BY <1>4 DEF ConvertFails, DecompressRequestFails, ValidateRequestBlocks, ValidateRequestPanics,
            Sound, BeforeSending
  <2>2. ~Passes(r)
    BY <1>4, <2>1 DEF ConvertFails, DecompressRequestFails, ValidateRequestBlocks,
       ValidateRequestPanics, Passes, Seen!Passes, Examined, Seen!Violates, RequestErrors
  <2>3. Answer(r)' = Seen!Objection(cfg, in[r])
    <3>1. ConvertFails(r) => /\ in[r].form = "unconvertible" /\ err'[r] = "nil" /\ log'[r] = {}
                             /\ resp'[r] = Error("400", FALSE)
      BY DEF ConvertFails, Sound, BeforeSending, Leaving
    <3>2. DecompressRequestFails(r) => in[r].form = "bad_encoding" /\ err'[r] = "error" /\ log'[r] = {}
      BY DEF DecompressRequestFails
    <3>3. ValidateRequestBlocks(r) => /\ in[r].form = "ok" /\ in[r].verdict \in RequestErrors
                                      /\ err'[r] = "nil" /\ log'[r] = {"request"}
                                      /\ resp'[r] = Error("block", cfg.status)
      BY DEF ValidateRequestBlocks, Sound, BeforeSending, Leaving
    <3>4. ValidateRequestPanics(r) => /\ in[r].form = "ok" /\ in[r].verdict = "panic"
                                      /\ err'[r] = "panic" /\ log'[r] = {}
      BY DEF ValidateRequestPanics
    <3> HIDE DEF TypeOK, Told, Goto, Reply, Unsent
    <3>5. CASE ConvertFails(r)
      <4>1. Answer(r)' = Seen!Own("400", FALSE, log'[r]) BY <3>1, <3>5, OwnIsTold
      <4> QED BY <3>1, <3>5, <4>1 DEF Seen!Objection
    <3>6. CASE DecompressRequestFails(r) \/ ValidateRequestPanics(r)
      <4>1. Answer(r)' = Seen!Own("502", FALSE, log'[r]) BY <3>2, <3>4, <3>6, OwnIsTold
      <4> QED BY <3>2, <3>4, <3>6, <4>1 DEF Seen!Objection
    <3>7. CASE ValidateRequestBlocks(r)
      <4>1. Answer(r)' = Seen!Own("block", cfg.status, log'[r]) BY <3>3, <3>7, OwnIsTold
      <4>2. in[r].verdict # "panic" BY <3>3, <3>7 DEF RequestErrors
      <4> QED BY <3>3, <3>7, <4>1, <4>2 DEF Seen!Objection
    <3> QED BY <1>4, <3>5, <3>6, <3>7
  <2>4. Refused(r)'
    BY <2>1, <2>2, <2>3, PolicyStays DEF Refused
  <2> QED BY <2>1, <2>4
<1>5. CASE ValidateRequestPasses(r) \/ ValidateRequestLogs(r)
  <2>1. /\ pc[r] = "validate_request" /\ pc'[r] = "proxy" /\ cfg' = cfg /\ in' = in
        /\ ~Barred(r) /\ Examined(r) /\ in[r].form = "ok"
    BY <1>5 DEF ValidateRequestPasses, ValidateRequestLogs
  <2>2. Passes(r)
    BY <1>5, <2>1 DEF ValidateRequestPasses, ValidateRequestLogs, Passes, Seen!Passes, Barred,
       Examined, Seen!Violates, RequestErrors
  <2>3. log'[r] = Reported(r)
    BY <1>5, <2>1 DEF ValidateRequestPasses, ValidateRequestLogs, Reported, Seen!Reported,
       Examined, Seen!Violates, RequestErrors
  <2> QED BY <2>1, <2>2, <2>3, PolicyStays
<1> QED BY <1>1, <1>2, <1>3, <1>4, <1>5

\* The handler after the request was sent.
LEMMA ResponseIsTold ==
    ASSUME TypeOK, NEW r \in Requests, Sound(r), Told(r),
           \/ ReturnBare(r) \/ ShadowCheck(r) \/ DecompressResponseFails(r)
           \/ ValidateResponsePasses(r) \/ ValidateResponseBlocks(r)
           \/ ValidateResponseLogs(r) \/ ValidateResponsePanics(r)
    PROVE  Told(r)'
<1> DEFINE found == Seen!Findings(cfg, in[r], up[r])
           o == up[r]
<1>1. /\ pc[r] = "proxied" /\ pc'[r] = "return" /\ sent'[r] = 1
      /\ cfg' = cfg /\ in' = in /\ up' = up /\ err[r] = "nil"
      /\ log[r] = Reported(r) /\ o \in Outcomes /\ Carried(r)
  BY DEF ReturnBare, ShadowCheck, DecompressResponseFails, ValidateResponsePasses,
         ValidateResponseBlocks, ValidateResponseLogs, ValidateResponsePanics, Inspected,
         Told, Sound, BeforeSending, Sending, Answering, Leaving, TypeOK, Goto, Reply
<1>2. Seen!Relayed(cfg, in[r], o) =
        IF Examined(r) /\ Seen!Unreadable(cfg, o) THEN Seen!Own("502", FALSE, Reported(r) \cup found)
        ELSE IF Examined(r) /\ cfg.response = "BLOCK" /\ o.verdict = "invalid"
        THEN Seen!Own("block", cfg.status, Reported(r) \cup found)
        ELSE Seen!Conveyed(o, Reported(r) \cup found)
  BY DEF Seen!Relayed, Examined, Reported
<1>3. Examined(r) => in[r].known BY DEF Examined, Seen!Examined
<1> USE DEF TypeOK, Goto, Reply
\* Each step logs what is found and leaves the answer of the policy.
<1>4. log'[r] = Reported(r) \cup found /\ Answer(r)' = Seen!Relayed(cfg, in[r], o)
  <2>1. CASE ReturnBare(r)
    <3>1. found = {} /\ ~Examined(r)
      BY <2>1 DEF ReturnBare, Disabled, Seen!Findings, Examined, Seen!Examined
    <3>2. log'[r] = Reported(r) \cup found /\ err'[r] = "nil" /\ resp'[r] = resp[r]
      BY <1>1, <2>1, <3>1 DEF ReturnBare
    <3> QED BY <1>1, <1>2, <3>1, <3>2, CarriedIsConveyed
  <2>2. CASE ShadowCheck(r)
    <3>1. found = (IF o.excluded THEN {} ELSE {"shadow"}) /\ ~Examined(r)
      BY <2>2 DEF ShadowCheck, Disabled, Seen!Findings, Examined, Seen!Examined
    <3>2. log'[r] = Reported(r) \cup found /\ err'[r] = "nil" /\ resp'[r] = resp[r]
      BY <1>1, <2>2, <3>1 DEF ShadowCheck
    <3> QED BY <1>1, <1>2, <3>1, <3>2, CarriedIsConveyed
  <2>3. CASE DecompressResponseFails(r)
    <3>1. Examined(r) /\ o.bad_encoding BY <2>3, PolicyAgrees DEF DecompressResponseFails, Inspected
    <3>2. found = {} /\ Seen!Unreadable(cfg, o)
      BY <1>3, <3>1 DEF Seen!Findings, Seen!Unreadable
    <3>3. log'[r] = Reported(r) \cup found /\ err'[r] # "nil"
      BY <1>1, <2>3, <3>2 DEF DecompressResponseFails
    <3> QED BY <1>2, <3>1, <3>2, <3>3, OwnIsTold
  <2>4. CASE ValidateResponsePasses(r)
    <3>1. Examined(r) /\ ~o.bad_encoding /\ (cfg.response = "DISABLE" \/ o.verdict = "valid")
      BY <2>4, PolicyAgrees DEF ValidateResponsePasses, Inspected
    <3>2. found = {} /\ ~Seen!Unreadable(cfg, o)
      BY <1>3, <3>1 DEF Seen!Findings, Seen!Unreadable
    <3>3. log'[r] = Reported(r) \cup found /\ err'[r] = "nil" /\ resp'[r] = resp[r]
      BY <1>1, <2>4, <3>2 DEF ValidateResponsePasses
    <3> QED BY <1>1, <1>2, <3>1, <3>2, <3>3, CarriedIsConveyed
  <2>5. CASE ValidateResponseBlocks(r)
    <3>1. Examined(r) /\ ~o.bad_encoding /\ cfg.response = "BLOCK" /\ o.verdict = "invalid"
      BY <2>5, PolicyAgrees DEF ValidateResponseBlocks, Inspected
    <3>2. found = {"response"} /\ ~Seen!Unreadable(cfg, o)
      BY <1>3, <3>1 DEF Seen!Findings, Seen!Unreadable, Examined
    <3>3. /\ log'[r] = Reported(r) \cup found /\ err'[r] = "nil"
          /\ resp'[r] = Error("block", cfg.status)
      BY <1>1, <2>5, <3>2 DEF ValidateResponseBlocks
    <3>4. Answer(r)' = Seen!Own("block", cfg.status, log'[r]) BY <3>3, OwnIsTold
    <3>5. Answer(r)' = Seen!Own("block", cfg.status, Reported(r) \cup found) BY <3>3, <3>4
    <3> QED BY <1>2, <3>1, <3>2, <3>3, <3>5
  <2>6. CASE ValidateResponseLogs(r)
    <3>1. Examined(r) /\ ~o.bad_encoding /\ cfg.response = "LOG_ONLY" /\ o.verdict = "invalid"
      BY <2>6, PolicyAgrees DEF ValidateResponseLogs, Inspected
    <3>2. found = {"response"} /\ ~Seen!Unreadable(cfg, o)
      BY <1>3, <3>1 DEF Seen!Findings, Seen!Unreadable, Examined
    <3>3. log'[r] = Reported(r) \cup found /\ err'[r] = "nil" /\ resp'[r] = resp[r]
      BY <1>1, <2>6, <3>2 DEF ValidateResponseLogs
    <3> QED BY <1>1, <1>2, <3>1, <3>2, <3>3, CarriedIsConveyed
  <2>7. CASE ValidateResponsePanics(r)
    <3>1. Examined(r) /\ cfg.response # "DISABLE" /\ o.verdict = "panic"
      BY <2>7, PolicyAgrees DEF ValidateResponsePanics, Inspected
    <3>2. found = {} /\ Seen!Unreadable(cfg, o)
      BY <1>3, <3>1 DEF Seen!Findings, Seen!Unreadable
    <3>3. log'[r] = Reported(r) \cup found /\ err'[r] # "nil"
      BY <1>1, <2>7, <3>2 DEF ValidateResponsePanics
    <3> QED BY <1>2, <3>1, <3>2, <3>3, OwnIsTold
  <2> QED BY <2>1, <2>2, <2>3, <2>4, <2>5, <2>6, <2>7
<1> QED BY <1>1, <1>4 DEF Told, Unsent

\* What is left: the request is upstream, the client is put back, the chain is left.
LEMMA StepIsTold ==
    ASSUME TypeOK, NEW r \in Requests, Sound(r), Told(r), Arrive(r) \/ Serve(r) \/ Deliver(r)
    PROVE  Told(r)'
<1>1. CASE Receive(r)
  BY <1>1, PolicyStays DEF Receive, Told, Unsent, TypeOK, Goto, Reply
<1>2. CASE PutClient(r)
  <2>1. /\ pc[r] = "return" /\ pc'[r] = "unwind" /\ open' = open
        /\ UNCHANGED <<cfg, in, err, resp, up, sent, log>>
    BY <1>2 DEF PutClient, Goto, TypeOK, Pool!GiveBack
  <2>2. Answer(r)' = Answer(r) BY <2>1 DEF Answer, Unwound
  <2>3. Refused(r) => Refused(r)' BY <2>1, RefusalStays
  <2> QED BY <2>1, <2>2, <2>3 DEF Told, Unsent
<1>3. CASE Unwind(r) BY <1>3 DEF Unwind, Told, Unsent, TypeOK, Goto, Reply
<1> QED BY <1>1, <1>2, <1>3, EntryIsTold, RequestIsTold, ResponseIsTold DEF Serve

-----------------------------------------------------------------------------
(* The refinement *)

\* The chain changes neither the configuration nor what a request carries, nor does it
\* shut the pool.
LEMMA ServeKeeps ==
    ASSUME NEW r \in Requests, Serve(r)
    PROVE  cfg' = cfg /\ in' = in /\ open' = open
<1> USE DEF Goto, Reply, pool
<1>1. CASE RouterBlocks(r) \/ RouterPasses(r) \/ DenylistBlocks(r) \/ DenylistPasses(r)
  BY <1>1 DEF RouterBlocks, RouterPasses, DenylistBlocks, DenylistPasses
<1>2. CASE GetClient(r) \/ GetGranted(r) \/ GetRefused(r) \/ PutClient(r)
  BY <1>2 DEF GetClient, GetGranted, GetRefused, PutClient, Pool!Call, Pool!Grant, Pool!Refuse,
       Pool!GiveBack
<1>3. CASE Dispatch(r) \/ Convert(r) \/ ConvertFails(r) \/ DecompressRequestFails(r)
  BY <1>3 DEF Dispatch, Convert, ConvertFails, DecompressRequestFails
<1>4. CASE ValidateRequestPasses(r) \/ ValidateRequestBlocks(r) \/ ValidateRequestLogs(r)
           \/ ValidateRequestPanics(r)
  BY <1>4 DEF ValidateRequestPasses, ValidateRequestBlocks, ValidateRequestLogs,
       ValidateRequestPanics
<1>5. CASE Send(r) \/ Receive(r) \/ ReturnBare(r) \/ ShadowCheck(r)
  BY <1>5 DEF Send, Receive, ReturnBare, ShadowCheck
<1>6. CASE DecompressResponseFails(r) \/ ValidateResponsePasses(r) \/ ValidateResponseBlocks(r)
           \/ ValidateResponseLogs(r) \/ ValidateResponsePanics(r) \/ Unwind(r)
  BY <1>6 DEF DecompressResponseFails, ValidateResponsePasses, ValidateResponseBlocks,
       ValidateResponseLogs, ValidateResponsePanics, Unwind
<1> QED BY <1>1, <1>2, <1>3, <1>4, <1>5, <1>6 DEF Serve

LEMMA SettingStays ==
    ASSUME NEW r \in Requests, Arrive(r) \/ Serve(r) \/ Deliver(r)
    PROVE  cfg' = cfg /\ open' = open
BY ServeKeeps DEF Arrive, Deliver, pool

TInv == IInv /\ \A r \in Requests : Told(r)

LEMMA InitTold == Init => TInv
<1> SUFFICES ASSUME Init, NEW r \in Requests PROVE Told(r)
  BY InitInductive DEF TInv
<1> QED BY DEF Init, Told, Unsent

LEMMA NextTold == TInv /\ [Next]_vars => TInv'
<1> SUFFICES ASSUME TInv, [Next]_vars PROVE \A s \in Requests : Told(s)'
  BY NextInductive DEF TInv
<1>1. ASSUME NEW r \in Requests, Arrive(r) \/ Serve(r) \/ Deliver(r), NEW s \in Requests
      PROVE  Told(s)'
  <2>1. CASE s = r BY <1>1, <2>1, StepIsTold DEF TInv, IInv
  <2>2. CASE s # r BY <1>1, <2>2, OthersStay, SettingStays, ToldStays DEF TInv, IInv
  <2> QED BY <2>1, <2>2
<1>2. ASSUME UNCHANGED <<cfg, in, pc, err, resp, up, sent, log>>, open' => open, NEW s \in Requests
      PROVE  Told(s)'
  BY <1>2, ToldStays DEF TInv
<1>3. CASE ClosePool BY <1>2, <1>3 DEF ClosePool, Pool!Shut
<1>4. CASE UNCHANGED vars BY <1>2, <1>4 DEF vars
<1> QED BY <1>1, <1>3, <1>4 DEF Next

\* What Firewall's variables stand for.
Stages == [r \in Requests |-> StageOf(r)]
Answers == [r \in Requests |-> AnswerOf(r)]

\* Of a step of one request nothing is seen of the others.
LEMMA OneIsSeen ==
    ASSUME TypeOK, NEW r \in Requests, Arrive(r) \/ Serve(r) \/ Deliver(r)
    PROVE  /\ Stages' = [Stages EXCEPT ![r] = StageOf(r)']
           /\ Answers' = [Answers EXCEPT ![r] = AnswerOf(r)']
<1>1. ASSUME NEW s \in Requests, s # r
      PROVE  StageOf(s)' = StageOf(s) /\ AnswerOf(s)' = AnswerOf(s)
  BY <1>1, OthersStay DEF StageOf, AnswerOf
<1> QED BY <1>1 DEF Stages, Answers

LEMMA UnseenStep ==
    ASSUME NEW r \in Requests, Serve(r), TypeOK,
           StageOf(r)' = StageOf(r), AnswerOf(r)' = AnswerOf(r)
    PROVE  UNCHANGED Seen!fvars
<1>1. Stages' = Stages /\ Answers' = Answers BY OneIsSeen DEF Stages, Answers
<1> QED BY <1>1, ServeKeeps DEF Seen!fvars, Stages, Answers

\* The labels between which nothing is seen.
Inside == Labels \ {"idle", "done"}

LEMMA InsideIsUnseen ==
    ASSUME NEW r \in Requests, Serve(r), TypeOK,
           pc[r] \in Inside, pc'[r] \in Inside, sent'[r] = sent[r]
    PROVE  UNCHANGED Seen!fvars
<1>1. StageOf(r)' = StageOf(r) /\ AnswerOf(r)' = AnswerOf(r)
  BY DEF Inside, StageOf, AnswerOf
<1> QED BY <1>1, UnseenStep

\* The two ends of the chain.
LEMMA EndsAreSeen ==
    ASSUME TInv, NEW r \in Requests,
           Arrive(r) \/ RouterBlocks(r) \/ Send(r) \/ Unwind(r) \/ Deliver(r)
    PROVE  Seen!FNext
<1> USE DEF TInv, IInv, TypeOK, Goto, Reply
<1>1. /\ cfg' = cfg /\ open' = open
      /\ Stages' = [Stages EXCEPT ![r] = StageOf(r)']
      /\ Answers' = [Answers EXCEPT ![r] = AnswerOf(r)']
      /\ Stages[r] = StageOf(r) /\ Answers[r] = AnswerOf(r)
  BY SettingStays, OneIsSeen DEF Serve, Stages, Answers
<1>2. Told(r) /\ BeforeSending(r) /\ Sending(r) BY DEF Sound
<1>3. CASE Arrive(r)
  <2>1. /\ StageOf(r) = "idle" /\ StageOf(r)' = "received" /\ AnswerOf(r)' = AnswerOf(r)
        /\ \E i \in Inputs : in' = [in EXCEPT ![r] = i]
    BY <1>2, <1>3 DEF Arrive, StageOf, AnswerOf, BeforeSending, Unsent
  <2>2. Answers' = Answers BY <1>1, <2>1 DEF Answers
  <2>3. Seen!Accept(r) BY <1>1, <2>1, <2>2 DEF Seen!Accept, Stages, Answers
  <2> QED BY <2>3 DEF Seen!FNext
<1>4. CASE RouterBlocks(r)
  <2>1. /\ StageOf(r) = "received" /\ StageOf(r)' = "answered" /\ in' = in
        /\ AnswerOf(r)' = Seen!Own("block", FALSE, {})
    BY <1>2, <1>4, AnswersAgree
       DEF RouterBlocks, StageOf, AnswerOf, BeforeSending, Unsent, Told
  <2>2. Barred(r) BY <1>4, PolicyAgrees DEF RouterBlocks
  <2>3. Seen!Answer(r, Seen!Own("block", FALSE, {}))
    BY <1>1, <2>1 DEF Seen!Answer, Stages, Answers
  <2>4. Seen!Refuse(r) BY <1>1, <2>1, <2>2, <2>3 DEF Seen!Refuse, Barred, Stages
  <2> QED BY <2>4 DEF Seen!FNext
<1>5. CASE Send(r)
  <2>1. /\ StageOf(r) = "received" /\ StageOf(r)' = "forwarded" /\ in' = in
        /\ AnswerOf(r)' = AnswerOf(r) /\ Passes(r)
    BY <1>2, <1>5 DEF Send, StageOf, AnswerOf, BeforeSending, Unsent, Told
  <2>2. Answers' = Answers BY <1>1, <2>1 DEF Answers
  <2>3. Seen!Forward(r) BY <1>1, <2>1, <2>2 DEF Seen!Forward, Stages, Answers, Passes
  <2> QED BY <2>3 DEF Seen!FNext
<1>6. CASE Unwind(r)
  <2>1. /\ StageOf(r) = (IF sent[r] = 0 THEN "received" ELSE "forwarded")
        /\ StageOf(r)' = "answered" /\ in' = in /\ AnswerOf(r)' = Answer(r)
    BY <1>6 DEF Unwind, StageOf, AnswerOf, Answer
  <2>2. Seen!Answer(r, Answer(r)) BY <1>1, <2>1 DEF Seen!Answer, Stages, Answers
  <2>3. CASE sent[r] = 0
    <3>1. Refused(r) BY <1>2, <1>6, <2>3 DEF Told, Unwind
    <3>2. Seen!Refuse(r)
      BY <1>1, <2>1, <2>2, <2>3, <3>1 DEF Seen!Refuse, Refused, Barred, Passes, Stages
    <3> QED BY <3>2 DEF Seen!FNext
  <2>4. CASE sent[r] # 0
    <3>1. up[r] \in Outcomes /\ Answer(r) = Seen!Relayed(cfg, in[r], up[r])
      BY <1>2, <1>6, <2>4 DEF Told, Unwind
    <3>2. Seen!Relay(r) BY <1>1, <2>1, <2>2, <2>4, <3>1 DEF Seen!Relay, Stages
    <3> QED BY <3>2 DEF Seen!FNext
  <2> QED BY <2>3, <2>4
<1>7. CASE Deliver(r)
  <2>1. /\ StageOf(r) = "answered" /\ StageOf(r)' = "idle"
        /\ in' = [in EXCEPT ![r] = Seen!Carries] /\ AnswerOf(r)' = Seen!NoAnswer
    BY <1>7, AnswersAgree DEF Deliver, StageOf, AnswerOf
  <2>2. Seen!Finish(r) BY <1>1, <2>1 DEF Seen!Finish, Stages, Answers
  <2> QED BY <2>2 DEF Seen!FNext
<1> QED BY <1>3, <1>4, <1>5, <1>6, <1>7

\* The rest of the chain.
LEMMA MiddleIsUnseen ==
    ASSUME TInv, NEW r \in Requests, Serve(r), ~RouterBlocks(r), ~Send(r), ~Unwind(r)
    PROVE  UNCHANGED Seen!fvars
<1> USE DEF TypeOK, Goto, Reply, Inside, Labels
<1> SUFFICES pc[r] \in Inside /\ pc'[r] \in Inside /\ sent'[r] = sent[r]
  BY InsideIsUnseen DEF TInv, IInv
<1>1. TypeOK BY DEF TInv, IInv
<1>2. CASE RouterPasses(r) \/ DenylistBlocks(r) \/ DenylistPasses(r)
  BY <1>1, <1>2 DEF RouterPasses, DenylistBlocks, DenylistPasses
<1>3. CASE GetClient(r) \/ GetGranted(r) \/ GetRefused(r) \/ PutClient(r)
  BY <1>1, <1>3 DEF GetClient, GetGranted, GetRefused, PutClient
<1>4. CASE Dispatch(r) \/ Convert(r) \/ ConvertFails(r) \/ DecompressRequestFails(r)
  BY <1>1, <1>4 DEF Dispatch, Convert, ConvertFails, DecompressRequestFails
<1>5. CASE ValidateRequestPasses(r) \/ ValidateRequestBlocks(r) \/ ValidateRequestLogs(r)
           \/ ValidateRequestPanics(r)
  BY <1>1, <1>5 DEF ValidateRequestPasses, ValidateRequestBlocks, ValidateRequestLogs,
       ValidateRequestPanics
<1>6. CASE Receive(r) \/ ReturnBare(r) \/ ShadowCheck(r) \/ DecompressResponseFails(r)
  BY <1>1, <1>6 DEF Receive, ReturnBare, ShadowCheck, DecompressResponseFails, Inspected
<1>7. CASE ValidateResponsePasses(r) \/ ValidateResponseBlocks(r) \/ ValidateResponseLogs(r)
           \/ ValidateResponsePanics(r)
  BY <1>1, <1>7 DEF ValidateResponsePasses, ValidateResponseBlocks, ValidateResponseLogs,
       ValidateResponsePanics, Inspected
<1> QED BY <1>2, <1>3, <1>4, <1>5, <1>6, <1>7 DEF Serve

\* Every request is refused for a reason of the policy or forwarded once, and answered
\* as the policy says, whatever the order of middlewares, deferred calls and panics: the
\* chain, the handler and the pool implement Firewall.
THEOREM ChainImplementsFirewall == Spec => ImplementsFirewall
<1>1. Init => Seen!FInit
  <2> SUFFICES ASSUME Init PROVE Seen!FInit
    OBVIOUS
  <2>1. \A r \in Requests : StageOf(r) = "idle" /\ AnswerOf(r) = Seen!NoAnswer
    BY AnswersAgree DEF Init, StageOf, AnswerOf
  <2> QED BY <2>1, AnswersAgree DEF Init, Seen!FInit, Pool!LInit
<1>2. TInv /\ [Next]_vars => [Seen!FNext]_(Seen!fvars)
  <2> SUFFICES ASSUME TInv, [Next]_vars PROVE Seen!FNext \/ UNCHANGED Seen!fvars
    OBVIOUS
  <2>1. CASE \E r \in Requests : Arrive(r) \/ Serve(r) \/ Deliver(r)
    BY <2>1, EndsAreSeen, MiddleIsUnseen
  <2>2. ASSUME UNCHANGED <<cfg, in, pc, err, resp, up, sent, log>>
        PROVE  UNCHANGED <<cfg, in>> /\ Stages' = Stages /\ Answers' = Answers
    BY <2>2 DEF Stages, Answers, StageOf, AnswerOf
  <2>3. CASE ClosePool
    BY <2>2, <2>3 DEF ClosePool, Pool!Shut, Seen!FNext, Seen!ShutDown, Stages, Answers
  <2>4. CASE UNCHANGED vars BY <2>2, <2>4 DEF vars, Seen!fvars, Stages, Answers
  <2> QED BY <2>1, <2>3, <2>4 DEF Next
<1>3. Spec => []TInv BY InitTold, NextTold, PTL DEF Spec
<1> QED BY <1>1, <1>2, <1>3, PTL DEF Spec, ImplementsFirewall, Seen!FSpec

=============================================================================
