---------------------------- MODULE Introspection ----------------------------
(***************************************************************************)
(* Validation of OAuth 2.0 tokens by introspection                         *)
(* (internal/platform/oauth2/introspection.go), by several handlers that   *)
(* share one cache of token metadata.                                      *)
(*                                                                         *)
(* Metadata is reduced to its scopes and to its age, the time since the    *)
(* provider reported it.  The cache (ccache) returns an item also after    *)
(* its time to live and leaves the test of Expired to its caller; Validate *)
(* has no such test, so the time to live has no state here.  Items leave   *)
(* the cache when it is full (Evict).                                      *)
(***************************************************************************)
EXTENDS Naturals, FiniteSets

CONSTANTS
    Handlers,    \* goroutines that validate a request
    Tokens,      \* tokens of requests; none is the empty string
    Scopes,      \* scopes of operations and tokens
    Interval     \* RefreshInterval; ages are counted up to Interval + 1

ASSUME IntervalAssumption == Interval \in Nat

\* Metadata of a token: whether it has a scope string, the scopes in it, its age.
Metas == [has : BOOLEAN, scopes : SUBSET Scopes, age : 0..Interval + 1]
None == [has |-> FALSE, scopes |-> {}, age |-> 0]

\* What the provider may say of a token.
Answers == {None} \cup {[has |-> TRUE, scopes |-> s, age |-> 0] : s \in SUBSET Scopes}

VARIABLES
    truth,       \* the provider: what it says of each token at the moment
    reported,    \* history: the scopes in each of its answers for a token
    cache,       \* the cached metadata of each token; None for no item
    pc,          \* where each handler is
    token,       \* the token of a handler's request; "" when it has none
    scopes,      \* the scopes its operation requires
    meta         \* the metadata it works with

vars == <<truth, reported, cache, pc, token, scopes, meta>>

Init ==
    /\ truth \in [Tokens -> Answers]
    /\ reported = [t \in Tokens |-> {}]
    /\ cache = [t \in Tokens |-> None]
    /\ pc = [h \in Handlers |-> "idle"]
    /\ token = [h \in Handlers |-> ""]
    /\ scopes = [h \in Handlers |-> {}]
    /\ meta = [h \in Handlers |-> None]

Goto(h, l) == pc' = [pc EXCEPT ![h] = l]

-----------------------------------------------------------------------------
(* Validate *)

Call(h) ==
    /\ pc[h] = "idle"
    /\ \E t \in Tokens \cup {""}, s \in SUBSET Scopes :
          /\ token' = [token EXCEPT ![h] = t]
          /\ scopes' = [scopes EXCEPT ![h] = s]
    /\ Goto(h, "start")
    /\ UNCHANGED <<truth, reported, cache, meta>>

\* Nothing is required: the token is not looked at.
NoScopesRequired(h) ==
    /\ pc[h] = "start" /\ scopes[h] = {}
    /\ Goto(h, "allowed")
    /\ UNCHANGED <<truth, reported, cache, token, scopes, meta>>

NoToken(h) ==
    /\ pc[h] = "start" /\ scopes[h] # {} /\ token[h] = ""
    /\ Goto(h, "denied")
    /\ UNCHANGED <<truth, reported, cache, token, scopes, meta>>

\* Cache.Get, which returns what it has whatever its age.
CacheHit(h) ==
    /\ pc[h] = "start" /\ scopes[h] # {} /\ token[h] # ""
    /\ cache[token[h]].has
    /\ meta' = [meta EXCEPT ![h] = cache[token[h]]]
    /\ Goto(h, "store")
    /\ UNCHANGED <<truth, reported, cache, token, scopes>>

CacheMiss(h) ==
    /\ pc[h] = "start" /\ scopes[h] # {} /\ token[h] # ""
    /\ ~cache[token[h]].has
    /\ Goto(h, "fetch")
    /\ UNCHANGED <<truth, reported, cache, token, scopes, meta>>

\* getTokenMetaInfo: the provider answers with what is true when it answers.
\* Neither the status of the reply nor a field "active" is looked at.
Fetch(h) ==
    /\ pc[h] = "fetch" /\ truth[token[h]].has
    /\ meta' = [meta EXCEPT ![h] = truth[token[h]]]
    /\ reported' = [reported EXCEPT ![token[h]] = @ \cup {truth[token[h]].scopes}]
    /\ Goto(h, "store")
    /\ UNCHANGED <<truth, cache, token, scopes>>

\* The reply has no scope string: an error, and nothing is cached.
FetchNoScope(h) ==
    /\ pc[h] = "fetch" /\ ~truth[token[h]].has
    /\ Goto(h, "denied")
    /\ UNCHANGED <<truth, reported, cache, token, scopes, meta>>

\* The provider cannot be reached or its reply is no JSON.
FetchFails(h) ==
    /\ pc[h] = "fetch"
    /\ Goto(h, "denied")
    /\ UNCHANGED <<truth, reported, cache, token, scopes, meta>>

\* Mutant: what is new in the metadata is added to what the cache has.
Store_Merged(h) ==
    /\ pc[h] = "store"
    /\ LET old == cache[token[h]]
           all == IF ~old.has THEN meta[h]
                  ELSE [meta[h] EXCEPT !.scopes = @ \cup old.scopes]
       IN  /\ cache' = [cache EXCEPT ![token[h]] = all]
           /\ meta' = [meta EXCEPT ![h] = all]
    /\ Goto(h, "check")
    /\ UNCHANGED <<truth, reported, token, scopes>>

\* Cache.Set: also after a hit, and over whatever another handler stored since.
Store(h) ==
    /\ pc[h] = "store"
    /\ cache' = [cache EXCEPT ![token[h]] = meta[h]]
    /\ Goto(h, "check")
    /\ UNCHANGED <<truth, reported, token, scopes, meta>>

\* Mutant: one of the required scopes is enough.
CheckScopes_Any(h) ==
    /\ pc[h] = "check"
    /\ Goto(h, IF scopes[h] \cap meta[h].scopes # {} THEN "allowed" ELSE "denied")
    /\ UNCHANGED <<truth, reported, cache, token, scopes, meta>>

CheckScopes(h) ==
    /\ pc[h] = "check"
    /\ Goto(h, IF scopes[h] \subseteq meta[h].scopes THEN "allowed" ELSE "denied")
    /\ UNCHANGED <<truth, reported, cache, token, scopes, meta>>

Return(h) ==
    /\ pc[h] \in {"allowed", "denied"}
    /\ Goto(h, "idle")
    /\ token' = [token EXCEPT ![h] = ""]
    /\ scopes' = [scopes EXCEPT ![h] = {}]
    /\ meta' = [meta EXCEPT ![h] = None]
    /\ UNCHANGED <<truth, reported, cache>>

-----------------------------------------------------------------------------
(* The provider, the cache's limit, and time *)

\* The token is revoked, or its scopes change.
Change(t) ==
    /\ \E m \in Answers : truth' = [truth EXCEPT ![t] = m]
    /\ UNCHANGED <<reported, cache, pc, token, scopes, meta>>

Evict(t) ==
    /\ cache[t].has
    /\ cache' = [cache EXCEPT ![t] = None]
    /\ UNCHANGED <<truth, reported, pc, token, scopes, meta>>

Older(m) == [m EXCEPT !.age = IF @ > Interval THEN @ ELSE @ + 1]

Tick ==
    /\ cache' = [t \in Tokens |-> IF ~cache[t].has THEN cache[t] ELSE Older(cache[t])]
    /\ meta' = [h \in Handlers |-> IF pc[h] \in {"store", "check"} THEN Older(meta[h]) ELSE meta[h]]
    /\ UNCHANGED <<truth, reported, pc, token, scopes>>

Validate(h) ==
    \/ NoScopesRequired(h) \/ NoToken(h)
    \/ CacheHit(h) \/ CacheMiss(h)
    \/ Fetch(h) \/ FetchNoScope(h) \/ FetchFails(h)
    \/ Store(h) \/ CheckScopes(h) \/ Return(h)

Next ==
    \/ \E h \in Handlers : Call(h) \/ Validate(h)
    \/ \E t \in Tokens : Change(t) \/ Evict(t)
    \/ Tick

Spec == Init /\ [][Next]_vars

-----------------------------------------------------------------------------
(* Properties *)

TypeOK ==
    /\ truth \in [Tokens -> Answers]
    /\ reported \in [Tokens -> SUBSET (SUBSET Scopes)]
    /\ cache \in [Tokens -> Metas]
    /\ pc \in [Handlers -> {"idle", "start", "fetch", "store", "check", "allowed", "denied"}]
    /\ token \in [Handlers -> Tokens \cup {""}]
    /\ scopes \in [Handlers -> SUBSET Scopes]
    /\ meta \in [Handlers -> Metas]
    /\ \A h \in Handlers :
          pc[h] \in {"fetch", "store", "check"} => token[h] # "" /\ scopes[h] # {}

\* A request that needs scopes is allowed only when the provider reported all of
\* them for its own token in one answer, whatever other handlers fetched, stored
\* and overwrote meanwhile.
AllowedOnlyIfReported ==
    \A h \in Handlers : pc[h] = "allowed" /\ scopes[h] # {} =>
        /\ token[h] # ""
        /\ \E s \in reported[token[h]] : scopes[h] \subseteq s

\* The cache holds only what the provider reported for that token: no failure, no
\* answer without scopes, and no mixture of answers.
CacheHoldsReported ==
    \A t \in Tokens : cache[t].has => cache[t].scopes \in reported[t]

\* What a handler is about to store or to check was reported for its token.
MetaReported ==
    \A h \in Handlers : pc[h] \in {"store", "check"} => meta[h].scopes \in reported[token[h]]

\* The inductive invariant behind AllowedOnlyIfReported.
IndInv == TypeOK /\ CacheHoldsReported /\ MetaReported /\ AllowedOnlyIfReported

-----------------------------------------------------------------------------
(* What the documentation says, and the code does not do *)

\* docker-container.md, APIFW_SERVER_OAUTH_INTROSPECTION_REFRESH_INTERVAL:
\* "Time-to-live of cached token metadata".  A hit is used at any age, and Set
\* starts the time to live anew.
HitsWithinInterval ==
    [][\A h \in Handlers :
          pc[h] = "start" /\ pc'[h] = "store" => meta'[h].age <= Interval]_vars
=============================================================================
