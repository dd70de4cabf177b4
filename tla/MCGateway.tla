------------------------------ MODULE MCGateway ------------------------------
EXTENDS GatewayFirewall, TLC

\* Every pair of modes, with every kind of denylist.
AllConfigs ==
    {[request |-> q, response |-> p, status |-> s,
      cookie |-> d \in {"cookie", "both", "empty"}, header |-> d \in {"header", "bearer", "both", "empty"},
      trim |-> d \in {"bearer", "both"}, loaded |-> d \notin {"off", "empty"}] :
        q \in Modes, p \in Modes, s \in BOOLEAN,
        d \in {"off", "empty", "cookie", "header", "bearer", "both"}}

\* Every request whose tokens are clean, and denied ones that are otherwise valid
\* or violate the specification.
AllInputs ==
    {i \in [known : BOOLEAN, cookie : BOOLEAN, token : {"clean", "listed", "bearer"},
            form : {"ok", "unconvertible", "bad_encoding"},
            verdict : RequestErrors \cup {"valid", "panic"}] :
        i.cookie \/ i.token # "clean" => i.form = "ok" /\ i.verdict \in {"valid", "body"}}

AllOutcomes ==
    [kind : {"answer"}, bad_encoding : BOOLEAN, verdict : {"valid", "invalid", "panic"},
     excluded : BOOLEAN, hop : BOOLEAN]
    \cup
    [kind : Failures, bad_encoding : {FALSE}, verdict : {"valid", "invalid", "panic"},
     excluded : BOOLEAN, hop : {FALSE}]

\* For two requests at once: the modes that take the longest path, and one
\* request and one outcome for each way out of the handler.
FewConfigs ==
    [request : {"BLOCK"}, response : {"BLOCK", "LOG_ONLY"}, status : {FALSE},
     cookie : {TRUE}, header : {FALSE}, trim : {FALSE}, loaded : {TRUE}]

FewInputs ==
    {[NoInput EXCEPT !.verdict = v] : v \in {"valid", "panic", "body"}}
    \cup {[NoInput EXCEPT !.form = "bad_encoding"], [NoInput EXCEPT !.cookie = TRUE]}

FewOutcomes ==
    {o \in AllOutcomes :
        /\ ~o.excluded /\ ~o.hop /\ ~o.bad_encoding
        /\ o.kind \in {"answer", "dial_timeout"}
        /\ o.kind = "dial_timeout" => o.verdict = "valid"}

Symmetry == Permutations(Clients)
=============================================================================
