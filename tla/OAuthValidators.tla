---------------------------- MODULE OAuthValidators ----------------------------
(***************************************************************************)
(* The two validators behind the interface OAuth2 (oauth2.go): the scopes  *)
(* that a handler requires of an opaque token are put to a JWT as well.    *)
(***************************************************************************)
EXTENDS Introspection, JwtValidation

ASSUME SpellingsAssumption == Scopes \subseteq Spellings

\* Whatever scopes a handler requires, a JWT in the place of an opaque token passes
\* exactly when it is shown as the code reads it, fresh, signed with the configured key
\* whatever algorithm it names for itself, and claims every one of them; and no
\* configuration but RSA without a file makes Validate panic.
JwtAcceptsTheAuthentic ==
    \A h \in Handlers : pc[h] # "idle" => scopes[h] \notin Misjudged
=============================================================================
