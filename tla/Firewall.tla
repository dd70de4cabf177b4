------------------------------- MODULE Firewall -------------------------------
(***************************************************************************)
(* What the API Firewall promises of a request, seen from outside: it is   *)
(* refused, for a reason of its own, or forwarded once; and how it is      *)
(* answered, with what in the log, follows from the configuration, from    *)
(* what it carries and from what came of forwarding it.  Nothing is seen   *)
(* between the two, and an answer that was given does not change.          *)
(***************************************************************************)
CONSTANTS Requests, Configs, Inputs, Outcomes   \* see Gateway

VARIABLES
    cfg,      \* the configuration
    in,       \* what each request carries
    stage,    \* "idle", "received", "forwarded" or "answered"
    answer,   \* what the client gets: the response, with the events in the log
    open      \* whether the pool of clients was not yet shut

fvars == <<cfg, in, stage, answer, open>>

NoAnswer == [resp |-> [status |-> "none", src |-> "none", hop |-> FALSE, why |-> FALSE],
             log |-> {}]
Carries == [known |-> TRUE, cookie |-> FALSE, token |-> "clean", form |-> "ok",
            verdict |-> "valid"]

\* The firewall's own answer, and the backend's.
Own(status, why, log) ==
    [resp |-> [status |-> status, src |-> "firewall", hop |-> FALSE, why |-> why], log |-> log]
Backends(log) ==
    [resp |-> [status |-> "upstream", src |-> "upstream", hop |-> FALSE, why |-> FALSE], log |-> log]

FInit ==
    /\ cfg \in Configs
    /\ in = [r \in Requests |-> Carries]
    /\ stage = [r \in Requests |-> "idle"]
    /\ answer = [r \in Requests |-> NoAnswer]
    /\ open = TRUE

-----------------------------------------------------------------------------
(* The policy: a configuration, what a request carries and its outcome *)

\* On the denylist, or of a route the specification lacks while a mode is BLOCK.
Barred(c, i) ==
    \/ ~i.known /\ "BLOCK" \in {c.request, c.response}
    \/ c.loaded /\ \/ c.cookie /\ i.cookie
                   \/ c.header /\ (i.token = "listed" \/ (i.token = "bearer" /\ c.trim))

\* The specification is applied to the request and to its response.
Examined(c, i) == i.known /\ {c.request, c.response} # {"DISABLE"}

Violates(i) == i.verdict \in {"security", "parameter", "body"}

Reported(c, i) == IF Examined(c, i) /\ c.request # "DISABLE" /\ Violates(i) THEN {"request"} ELSE {}

Passes(c, i) ==
    /\ ~Barred(c, i)
    /\ Examined(c, i) =>
          /\ i.form = "ok"
          /\ \/ c.request = "DISABLE" \/ i.verdict = "valid"
             \/ c.request = "LOG_ONLY" /\ Violates(i)

\* The answers to a request that is not barred and does not pass.
Objection(c, i) ==
    CASE i.form = "unconvertible" -> Own("400", FALSE, {})
      [] i.form = "bad_encoding" -> Own("502", FALSE, {})
      [] i.form = "ok" /\ i.verdict = "panic" -> Own("502", FALSE, {})
      [] OTHER -> Own("block", c.status, {"request"})

\* What is logged of the response, of which nothing is found when it cannot be read.
Findings(c, i, o) ==
    (IF Examined(c, i) /\ c.response # "DISABLE" /\ ~o.bad_encoding /\ o.verdict = "invalid"
     THEN {"response"} ELSE {})
    \cup (IF ~i.known /\ {c.request, c.response} # {"DISABLE"} /\ ~o.excluded
          THEN {"shadow"} ELSE {})

\* What the client gets of the outcome itself: the answer, or a status for a failure.
Conveyed(o, log) ==
    CASE o.kind = "answer" -> Backends(log)
      [] o.kind = "dial_timeout" -> Own("504", FALSE, log)
      [] o.kind = "no_free_conns" -> Own("503", FALSE, log)
      [] o.kind = "failed" -> Own("502", FALSE, log)

\* The response cannot be examined: its body is not readable, or the validator panics.
Unreadable(c, o) == o.bad_encoding \/ (c.response # "DISABLE" /\ o.verdict = "panic")

\* The answer to a request that was forwarded.
Relayed(c, i, o) ==
    LET log == Reported(c, i) \cup Findings(c, i, o)
    IN  IF Examined(c, i) /\ Unreadable(c, o) THEN Own("502", FALSE, log)
        ELSE IF Examined(c, i) /\ c.response = "BLOCK" /\ o.verdict = "invalid"
        THEN Own("block", c.status, log)
        ELSE Conveyed(o, log)

-----------------------------------------------------------------------------

Accept(r) ==
    /\ stage[r] = "idle"
    /\ \E i \in Inputs : in' = [in EXCEPT ![r] = i]
    /\ stage' = [stage EXCEPT ![r] = "received"]
    /\ UNCHANGED <<cfg, answer, open>>

Answer(r, a) ==
    /\ stage' = [stage EXCEPT ![r] = "answered"]
    /\ answer' = [answer EXCEPT ![r] = a]
    /\ UNCHANGED <<cfg, in, open>>

\* A request is refused because it is barred, because the firewall is shutting down,
\* or because of what the specification says.
Refuse(r) ==
    /\ stage[r] = "received"
    /\ \/ Barred(cfg, in[r]) /\ Answer(r, Own("block", FALSE, {}))
       \/ ~Barred(cfg, in[r]) /\ ~open /\ Answer(r, Own("503", FALSE, {}))
       \/ /\ ~Barred(cfg, in[r]) /\ ~Passes(cfg, in[r])
          /\ Answer(r, Objection(cfg, in[r]))

Forward(r) ==
    /\ stage[r] = "received" /\ Passes(cfg, in[r])
    /\ stage' = [stage EXCEPT ![r] = "forwarded"]
    /\ UNCHANGED <<cfg, in, answer, open>>

Relay(r) ==
    /\ stage[r] = "forwarded"
    /\ \E o \in Outcomes : Answer(r, Relayed(cfg, in[r], o))

\* The exchange is over.
Finish(r) ==
    /\ stage[r] = "answered"
    /\ stage' = [stage EXCEPT ![r] = "idle"]
    /\ in' = [in EXCEPT ![r] = Carries]
    /\ answer' = [answer EXCEPT ![r] = NoAnswer]
    /\ UNCHANGED <<cfg, open>>

ShutDown ==
    /\ open /\ open' = FALSE
    /\ UNCHANGED <<cfg, in, stage, answer>>

FNext ==
    \/ ShutDown
    \/ \E r \in Requests : Accept(r) \/ Refuse(r) \/ Forward(r) \/ Relay(r) \/ Finish(r)

FSpec == FInit /\ [][FNext]_fvars
=============================================================================
