--------------------------- MODULE MCIntrospection ---------------------------
EXTENDS OAuthValidators, TLC

Symmetry == Permutations(Handlers) \cup Permutations(Tokens)

Lower == [s \in Spellings |-> IF s = "READ" THEN "read" ELSE s]
=============================================================================
