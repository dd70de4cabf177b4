------------------------- MODULE IntrospectionProofs -------------------------
(***************************************************************************)
(* Introspection never grants more than the provider reported, for any     *)
(* number of handlers, tokens and scopes, and whatever the ages.           *)
(*                                                                         *)
(* AllowedOnlyIfReported is not inductive: it needs what the cache holds   *)
(* (CacheHoldsReported) and what a handler carries between its steps       *)
(* (MetaReported), because a handler may store an answer over a newer one. *)
(***************************************************************************)
EXTENDS OAuthValidators, TLAPS

\* An item grows old with its scopes.
LEMMA OlderKeepsScopes ==
    ASSUME NEW m \in Metas
    PROVE  Older(m) \in Metas /\ Older(m).scopes = m.scopes /\ Older(m).has = m.has
<1>1. PICK b \in BOOLEAN, s \in SUBSET Scopes, a \in 0..Interval + 1 :
        m = [has |-> b, scopes |-> s, age |-> a]
  BY DEF Metas
<1>2. Older(m) = [has |-> b, scopes |-> s, age |-> IF a > Interval THEN a ELSE a + 1]
  BY <1>1 DEF Older
<1>3. (IF a > Interval THEN a ELSE a + 1) \in 0..Interval + 1
  BY IntervalAssumption
<1> QED BY <1>1, <1>2, <1>3 DEF Metas

\* An answer is metadata of age 0.
LEMMA AnswersAreMetas == Answers \subseteq Metas /\ None \in Metas
<1>1. 0 \in 0..Interval + 1 BY IntervalAssumption
<1>2. None \in Metas BY <1>1 DEF None, Metas
<1>3. ASSUME NEW s \in SUBSET Scopes
      PROVE  [has |-> TRUE, scopes |-> s, age |-> 0] \in Metas
  BY <1>1 DEF Metas
<1> QED BY <1>2, <1>3 DEF Answers

\* What Init and every step make of the types.
LEMMA NextTypeOK == TypeOK /\ [Next]_vars => TypeOK'
<1> SUFFICES ASSUME TypeOK, [Next]_vars PROVE TypeOK'
  OBVIOUS
<1> USE IntervalAssumption DEF TypeOK, Goto
<1>1. ASSUME NEW h \in Handlers, Call(h) PROVE TypeOK'
  <2>1. PICK t \in Tokens \cup {""}, s \in SUBSET Scopes :
           token' = [token EXCEPT ![h] = t] /\ scopes' = [scopes EXCEPT ![h] = s]
    BY <1>1, Zenon DEF Call
  <2>2. pc' = [pc EXCEPT ![h] = "start"] /\ UNCHANGED <<truth, reported, cache, meta>>
    BY <1>1, Zenon DEF Call
  <2> QED BY <2>1, <2>2
<1>2. ASSUME NEW h \in Handlers, Validate(h) PROVE TypeOK'
  <2>1. CASE NoScopesRequired(h) \/ NoToken(h) \/ CacheMiss(h)
    BY <2>1 DEF NoScopesRequired, NoToken, CacheMiss
  <2>2. CASE CacheHit(h)
    <3>1. token[h] \in Tokens BY <2>2 DEF CacheHit
    <3>2. cache[token[h]] \in Metas BY <2>2, <3>1 DEF CacheHit
    <3> QED BY <2>2, <3>2 DEF CacheHit
  <2>3. CASE Fetch(h)
    <3>1. token[h] \in Tokens BY <2>3 DEF Fetch
    <3>2. truth[token[h]] \in Metas BY <3>1, AnswersAreMetas
    <3>3. truth[token[h]].scopes \in SUBSET Scopes BY <3>2 DEF Metas
    <3> QED BY <2>3, <3>1, <3>2, <3>3 DEF Fetch
  <2>4. CASE FetchNoScope(h) \/ FetchFails(h)
    BY <2>4 DEF FetchNoScope, FetchFails
  <2>5. CASE Store(h) BY <2>5 DEF Store
  <2>6. CASE CheckScopes(h) BY <2>6 DEF CheckScopes
  <2>7. CASE Return(h) BY <2>7, AnswersAreMetas DEF Return
  <2> QED BY <1>2, <2>1, <2>2, <2>3, <2>4, <2>5, <2>6, <2>7 DEF Validate
<1>3. ASSUME NEW t \in Tokens, Change(t) PROVE TypeOK'
  BY <1>3 DEF Change
<1>4. ASSUME NEW t \in Tokens, Evict(t) PROVE TypeOK'
  BY <1>4, AnswersAreMetas DEF Evict
<1>5. CASE Tick
  BY <1>5, OlderKeepsScopes DEF Tick
<1>6. CASE UNCHANGED vars BY <1>6 DEF vars
<1> QED BY <1>1, <1>2, <1>3, <1>4, <1>5, <1>6 DEF Next

\* What was allowed stays reported while a handler goes to any other label.
LEMMA StillReported ==
    ASSUME TypeOK, AllowedOnlyIfReported, NEW h \in Handlers, NEW l, l # "allowed",
           pc' = [pc EXCEPT ![h] = l], UNCHANGED <<token, scopes>>,
           \A t \in Tokens : reported[t] \subseteq reported'[t]
    PROVE  AllowedOnlyIfReported'
<1>1. SUFFICES ASSUME NEW g \in Handlers, pc'[g] = "allowed", scopes[g] # {}
               PROVE  token[g] # "" /\ \E s \in reported'[token[g]] : scopes[g] \subseteq s
  BY DEF AllowedOnlyIfReported
<1>2. pc[g] = "allowed" BY <1>1 DEF TypeOK
<1>3. token[g] # "" /\ \E s \in reported[token[g]] : scopes[g] \subseteq s
  BY <1>1, <1>2 DEF AllowedOnlyIfReported
<1>4. token[g] \in Tokens BY <1>3 DEF TypeOK
<1> QED BY <1>3, <1>4

\* The reported answers cover the cache, the handlers and the decisions.
LEMMA NextReported == IndInv /\ [Next]_vars =>
                          (CacheHoldsReported /\ MetaReported /\ AllowedOnlyIfReported)'
<1> DEFINE Reported == CacheHoldsReported /\ MetaReported /\ AllowedOnlyIfReported
<1> SUFFICES ASSUME IndInv, [Next]_vars PROVE Reported'
  OBVIOUS
<1> USE DEF IndInv, TypeOK, CacheHoldsReported, MetaReported, AllowedOnlyIfReported, Goto
<1>1. ASSUME NEW h \in Handlers, Call(h) PROVE Reported'
  BY <1>1 DEF Call
<1>2. ASSUME NEW h \in Handlers, Validate(h) PROVE Reported'
  <2>1. CASE NoScopesRequired(h) \/ NoToken(h) \/ CacheMiss(h)
    BY <2>1 DEF NoScopesRequired, NoToken, CacheMiss
  <2>2. CASE CacheHit(h)
    <3>1. token[h] \in Tokens /\ cache[token[h]].has BY <2>2 DEF CacheHit
    <3>2. /\ pc' = [pc EXCEPT ![h] = "store"] /\ meta' = [meta EXCEPT ![h] = cache[token[h]]]
          /\ UNCHANGED <<reported, cache, token, scopes>>
      BY <2>2 DEF CacheHit
    <3>3. CacheHoldsReported' /\ MetaReported' BY <3>1, <3>2
    <3>4. AllowedOnlyIfReported' BY <3>2, StillReported
    <3> QED BY <3>3, <3>4
  <2>3. CASE Fetch(h)
    <3>1. token[h] \in Tokens BY <2>3 DEF Fetch
    <3>2. /\ pc' = [pc EXCEPT ![h] = "store"]
          /\ meta' = [meta EXCEPT ![h] = truth[token[h]]]
          /\ reported' = [reported EXCEPT ![token[h]] = @ \cup {truth[token[h]].scopes}]
          /\ UNCHANGED <<cache, token, scopes>>
      BY <2>3 DEF Fetch
    <3>3. /\ \A t \in Tokens : reported[t] \subseteq reported'[t]
          /\ truth[token[h]].scopes \in reported'[token[h]]
      BY <3>1, <3>2
    <3>4. CacheHoldsReported' BY <3>2, <3>3
    <3>5. MetaReported'
      <4>1. SUFFICES ASSUME NEW g \in Handlers, pc'[g] \in {"store", "check"}
                     PROVE  meta'[g].scopes \in reported'[token'[g]]
        OBVIOUS
      <4>2. CASE g = h BY <3>2, <3>3, <4>2
      <4>3. CASE g # h
        <5>1. pc'[g] = pc[g] /\ meta'[g] = meta[g] /\ token'[g] = token[g] BY <3>2, <4>3
        <5>2. token[g] \in Tokens BY <4>1, <5>1
        <5> QED BY <3>3, <4>1, <5>1, <5>2
      <4> QED BY <4>2, <4>3
    <3>6. AllowedOnlyIfReported' BY <3>2, <3>3, StillReported
    <3> QED BY <3>4, <3>5, <3>6
  <2>4. CASE FetchNoScope(h) \/ FetchFails(h)
    BY <2>4 DEF FetchNoScope, FetchFails
  <2>5. CASE Store(h)
    <3>1. token[h] \in Tokens BY <2>5 DEF Store
    <3>2. /\ pc[h] = "store" /\ pc' = [pc EXCEPT ![h] = "check"]
          /\ cache' = [cache EXCEPT ![token[h]] = meta[h]]
          /\ UNCHANGED <<reported, token, scopes, meta>>
      BY <2>5 DEF Store
    <3>3. CacheHoldsReported' BY <3>1, <3>2
    <3>4. MetaReported' BY <3>2
    <3>5. AllowedOnlyIfReported' BY <3>2, StillReported
    <3> QED BY <3>3, <3>4, <3>5
  <2>6. CASE CheckScopes(h)
    <3>1. token[h] # "" /\ meta[h].scopes \in reported[token[h]] BY <2>6 DEF CheckScopes
    <3>2. CASE scopes[h] \subseteq meta[h].scopes
      <4>1. pc' = [pc EXCEPT ![h] = "allowed"] /\ UNCHANGED <<reported, cache, token, scopes, meta>>
        BY <2>6, <3>2 DEF CheckScopes
      <4>2. CacheHoldsReported' /\ MetaReported' BY <4>1
      <4>3. AllowedOnlyIfReported'
        <5>1. SUFFICES ASSUME NEW g \in Handlers, pc'[g] = "allowed", scopes[g] # {}
                       PROVE  token[g] # "" /\ \E s \in reported[token[g]] : scopes[g] \subseteq s
          BY <4>1
        <5>2. CASE g = h BY <3>1, <3>2, <5>2
        <5>3. CASE g # h
          <6>1. pc[g] = "allowed" BY <4>1, <5>1, <5>3
          <6> QED BY <5>1, <6>1
        <5> QED BY <5>2, <5>3
      <4> QED BY <4>2, <4>3
    <3>3. CASE ~(scopes[h] \subseteq meta[h].scopes)
      <4>1. pc' = [pc EXCEPT ![h] = "denied"] /\ UNCHANGED <<reported, cache, token, scopes, meta>>
        BY <2>6, <3>3 DEF CheckScopes
      <4>2. CacheHoldsReported' /\ MetaReported' BY <4>1
      <4>3. AllowedOnlyIfReported' BY <4>1, StillReported
      <4> QED BY <4>2, <4>3
    <3> QED BY <3>2, <3>3
  <2>7. CASE Return(h) BY <2>7 DEF Return
  <2> QED BY <1>2, <2>1, <2>2, <2>3, <2>4, <2>5, <2>6, <2>7 DEF Validate
<1>3. ASSUME NEW t \in Tokens, Change(t) PROVE Reported'
  BY <1>3 DEF Change
<1>4. ASSUME NEW t \in Tokens, Evict(t) PROVE Reported'
  BY <1>4 DEF Evict, None
<1>5. CASE Tick
  <2>1. \A t \in Tokens : cache'[t].has = cache[t].has /\ cache'[t].scopes = cache[t].scopes
    BY <1>5, OlderKeepsScopes DEF Tick
  <2>2. \A h \in Handlers : meta'[h].scopes = meta[h].scopes
    BY <1>5, OlderKeepsScopes DEF Tick
  <2> QED BY <1>5, <2>1, <2>2 DEF Tick
<1>6. CASE UNCHANGED vars BY <1>6 DEF vars
<1> QED BY <1>1, <1>2, <1>3, <1>4, <1>5, <1>6 DEF Next

\* The inductive invariant holds in every reachable state.
THEOREM IndInvariant == Spec => []IndInv
<1>1. Init => IndInv
  <2> SUFFICES ASSUME Init PROVE IndInv
    OBVIOUS
  <2>1. TypeOK BY AnswersAreMetas DEF Init, TypeOK
  <2>2. CacheHoldsReported BY DEF Init, CacheHoldsReported, None
  <2>3. MetaReported /\ AllowedOnlyIfReported BY DEF Init, MetaReported, AllowedOnlyIfReported
  <2> QED BY <2>1, <2>2, <2>3 DEF IndInv
<1>2. IndInv /\ [Next]_vars => IndInv'
  BY NextTypeOK, NextReported DEF IndInv
<1> QED BY <1>1, <1>2, PTL DEF Spec

\* Validate (introspection.go) allows a request only with scopes the provider
\* reported together for the request's token.
THEOREM NothingBeyondReported == Spec => []AllowedOnlyIfReported
<1>1. IndInv => AllowedOnlyIfReported BY DEF IndInv
<1> QED BY <1>1, IndInvariant, PTL

\* Cache.Set (introspection.go) stores nothing but reported metadata.
THEOREM CacheIsReported == Spec => []CacheHoldsReported
<1>1. IndInv => CacheHoldsReported BY DEF IndInv
<1> QED BY <1>1, IndInvariant, PTL

\* Every handler's token, metadata and result, and every cached entry, are of their
\* types; the empty token of a request without one never becomes a key of the cache.
THEOREM TypeCorrect == Spec => []TypeOK
<1>1. IndInv => TypeOK BY DEF IndInv
<1> QED BY <1>1, IndInvariant, PTL

-----------------------------------------------------------------------------
(* The other validator *)

\* A configured key is the public one of an RSA key, the secret, or missing; its family
\* is that of the configuration and of the token.
LEMMA KeyOfBoth ==
    ASSUME NEW c \in KeyConfigs, NEW t \in Jwts
    PROVE  /\ Key(c, t) = "public" <=> c.alg = "RS256" /\ c.cert # "unset" /\ t.alg \in RSA
           /\ Key(c, t) = "nil" <=> c.alg = "RS256" /\ c.cert = "unset" /\ t.alg \in RSA
           /\ Key(c, t) = "secret" <=> c.alg = "HS256" /\ t.alg \in HMAC
           /\ Key(c, t) \in {"public", "nil", "secret", "refused"}
BY DEF Key, PubKey, ReadsCert, KeyConfigs, RSA, HMAC

\* Looking the scopes up one by one compares the two sets of folded names.
LEMMA ScopesFolded ==
    ASSUME NEW t, NEW required
    PROVE  HasScopes(t, required) <=>
             {ToLower[s] : s \in required} \subseteq {ToLower[u] : u \in t.scopes}
BY DEF HasScopes

\* JWT.Validate accepts exactly the authentic tokens that claim every scope, for any
\* scopes and any way to fold their letters, and panics only without a public key.
THEOREM JwtIsJudgedRight ==
    \A required \in SUBSET Spellings, c \in KeyConfigs, t \in Jwts : JudgesRight(c, t, required)
<1> SUFFICES ASSUME NEW required \in SUBSET Spellings, NEW c \in KeyConfigs, NEW t \in Jwts
             PROVE  JudgesRight(c, t, required)
  OBVIOUS
<1>1. c.alg = "RS256" => (Configured(c) <=> c.cert \in {"unset", "good"})
  BY DEF Configured, ReadsCert, KeyConfigs
<1>2. c.alg = "HS256" => Configured(c) BY DEF Configured, ReadsCert
<1>3. /\ t.signed = [alg |-> t.signed.alg, by |-> t.signed.by] /\ t.fresh \in BOOLEAN
      /\ \A a, b : t.signed = [alg |-> a, by |-> b] <=> t.signed.alg = a /\ t.signed.by = b
  BY DEF Jwts
<1>4. c.alg \in {"RS256", "HS256", "rs256", "ES256"} /\ c.cert \in {"unset", "unreadable", "good"}
  BY DEF KeyConfigs
<1>5. CASE Key(c, t) = "public"
  <2>1. Verify(t, Key(c, t)) <=> t.signed.alg = t.alg /\ t.signed.by = "private"
    BY <1>3, <1>5 DEF Verify
  <2>2. t.alg \notin HMAC BY <1>5, KeyOfBoth DEF RSA, HMAC
  <2> QED BY <1>1, <1>3, <1>4, <1>5, <2>1, <2>2, KeyOfBoth, ScopesFolded
         DEF JudgesRight, ValidateJwt, Authentic, Parsed
<1>6. CASE Key(c, t) = "secret"
  <2>1. Verify(t, Key(c, t)) <=> t.signed.alg = t.alg /\ t.signed.by = "secret"
    BY <1>3, <1>6 DEF Verify
  <2> QED BY <1>2, <1>3, <1>6, <2>1, KeyOfBoth, ScopesFolded
         DEF JudgesRight, ValidateJwt, Authentic, Parsed
<1>7. CASE Key(c, t) = "nil"
  <2>1. ~Authentic(c, t) BY <1>7, KeyOfBoth DEF Authentic, RSA, HMAC
  <2> QED BY <1>7, <2>1, KeyOfBoth DEF JudgesRight, ValidateJwt
<1>8. CASE Key(c, t) = "refused"
  <2>1. ~Authentic(c, t) BY <1>8, KeyOfBoth DEF Authentic
  <2> QED BY <1>8, <2>1 DEF JudgesRight, ValidateJwt
<1> QED BY <1>5, <1>6, <1>7, <1>8, KeyOfBoth

\* The scopes that a handler of any number requires are judged right by either validator.
THEOREM JwtsAreJudgedRight == Spec => []JwtAcceptsTheAuthentic
<1>1. TypeOK => JwtAcceptsTheAuthentic
  <2>1. Misjudged = {}
    <3> SUFFICES ASSUME NEW y \in (SUBSET Spellings) \X KeyConfigs \X Jwts
                 PROVE  JudgesRight(y[2], y[3], y[1])
      BY DEF Misjudged
    <3> QED BY JwtIsJudgedRight
  <2> QED BY <2>1 DEF JwtAcceptsTheAuthentic
<1> QED BY <1>1, TypeCorrect, PTL

=============================================================================
