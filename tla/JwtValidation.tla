---------------------------- MODULE JwtValidation ----------------------------
(***************************************************************************)
(* The other validator behind the interface OAuth2: JWT.Validate (jwt.go)  *)
(* and the key it gets when the handler is built (OpenapiProxy in          *)
(* routes.go).                                                             *)
(*                                                                         *)
(* A decision without state.  A token is reduced to how it is shown in the *)
(* header, the algorithm it names, what it was really signed with, whether *)
(* its time claims hold and the scopes it claims; the library's parsing    *)
(* and cryptography are the external operators Parsed and Verify.          *)
(***************************************************************************)
EXTENDS FiniteSets

CONSTANTS
    Spellings,   \* scopes as they are spelled
    ToLower      \* strings.ToLower of each

RSA == {"RS256", "RS384", "RS512"}
HMAC == {"HS256", "HS384", "HS512"}

\* APIFW_SERVER_OAUTH_JWT_*; "rs256" stands for a name in small letters, which only
\* the test before the file is read accepts.
KeyConfigs == [alg : {"RS256", "HS256", "rs256", "ES256"},
               cert : {"unset", "unreadable", "good"}]

\* A key signs with its other half: the owner of the public key with the private one.
Secrets == {"private", "secret", "public", "stranger's"}

Jwts == [shown : {"Bearer", "bare", "bearer", "garbage"},
         alg : {"RS256", "RS512", "PS256", "HS256", "none"},
         signed : [alg : {"RS256", "RS512", "PS256", "HS256", "none"}, by : Secrets],
         fresh : BOOLEAN,
         scopes : SUBSET Spellings]

-----------------------------------------------------------------------------
(* OpenapiProxy *)

\* PubKey is nil for HMAC and when no file is set; a file that cannot be read or
\* parsed leaves the handler without a validator.
ReadsCert(c) == c.alg \in {"RS256", "rs256"} /\ c.cert # "unset"

Configured(c) == ReadsCert(c) => c.cert = "good"

PubKey(c) == IF ReadsCert(c) THEN "public" ELSE "nil"

-----------------------------------------------------------------------------
(* JWT.Validate *)

\* TrimPrefix cuts "Bearer " in these letters only; what is left must be a token of
\* an algorithm the library knows.
Parsed(t) == t.shown \in {"Bearer", "bare"}

\* Mutant: the configured algorithm is not compared with the token's.
Key_ByToken(c, t) ==
    CASE t.alg \in RSA -> PubKey(c)
      [] t.alg \in HMAC -> "secret"
      [] OTHER -> "refused"

\* The key function: the families of algorithms must agree, not the algorithms.
Key(c, t) ==
    CASE c.alg \in RSA /\ t.alg \in RSA -> PubKey(c)
      [] c.alg \in HMAC /\ t.alg \in HMAC -> "secret"
      [] OTHER -> "refused"

\* The signature of the named algorithm, made by the other half of the key.
Verify(t, key) ==
    t.signed = [alg |-> t.alg, by |-> IF key = "public" THEN "private" ELSE key]

HasScopes(t, required) ==
    \A s \in required : \E u \in t.scopes : ToLower[s] = ToLower[u]

\* The library verifies the signature also when the time claims fail, and panics on
\* a public key that is nil.
ValidateJwt(c, t, required) ==
    IF ~Configured(c) \/ ~Parsed(t) \/ Key(c, t) = "refused" THEN "error"
    ELSE IF Key(c, t) = "nil" THEN "panic"
    ELSE IF t.fresh /\ Verify(t, Key(c, t)) /\ HasScopes(t, required) THEN "nil"
    ELSE "error"

-----------------------------------------------------------------------------

\* Signed by the one who holds the key of the configuration: the owner of the RSA
\* key that was loaded, or one who shares the secret.
Authentic(c, t) ==
    /\ t.fresh /\ t.alg = t.signed.alg
    /\ \/ c.alg = "RS256" /\ c.cert = "good" /\ t.alg \in RSA /\ t.signed.by = "private"
       \/ c.alg = "HS256" /\ t.alg \in HMAC /\ t.signed.by = "secret"

\* Validate is right about a token: it accepts what is authentic and claims every scope,
\* and panics for lack of a public key only.
JudgesRight(c, t, required) ==
    LET result == ValidateJwt(c, t, required)
        claims == {ToLower[s] : s \in required} \subseteq {ToLower[u] : u \in t.scopes}
    IN  /\ result = "nil" <=> t.shown \in {"Bearer", "bare"} /\ Authentic(c, t) /\ claims
        /\ result = "panic" => c.alg = "RS256" /\ c.cert = "unset"

\* The requirements for which it is wrong about some token under some key.
Misjudged ==
    {x[1] : x \in {y \in (SUBSET Spellings) \X KeyConfigs \X Jwts : ~JudgesRight(y[2], y[3], y[1])}}
=============================================================================
