----------------------------- MODULE MCNavigation -----------------------------
(* Two versions of a page: the Japanese one has a card more below the clouds, *)
(* and lacks the section of in-line deployment.                               *)
EXTENDS Navigation

PageSections == [en |-> {"oob", "inline"}, ja |-> {"oob"}]

Mirroring == [web |-> "oob", clouds |-> "web"]

PageParent ==
    [en |-> Mirroring @@ [compute |-> "inline"], ja |-> Mirroring @@ [kubernetes |-> "clouds"]]
=============================================================================
