------------------------- MODULE MCResponseValidation -------------------------
(* Content-Type (0) and two other headers.  Every response object is tried for *)
(* the status, a lenient and a strict one as the default.                      *)
EXTENDS ResponseValidation

ThreeHeaders == {0, 1, 2}

Lenient == [headers |-> {1}, required |-> {}, content |-> "none", schema |-> FALSE]
Strict == [headers |-> {1, 2}, required |-> {1, 2}, content |-> "matches", schema |-> TRUE]

StatusObjects ==
    {o \in Objects : /\ o.required \subseteq o.headers \ {ContentType}
                     /\ o.schema => o.content = "matches"}

Declaration(kind, keys, own, default, first, second, body) ==
    [head |-> kind = "head", exempt |-> kind = "exempt", keys |-> keys,
     object |-> [k \in {"status", "default"} |-> IF k = "status" THEN own ELSE default],
     shown |-> [h \in Headers |-> IF h = 2 THEN second ELSE first], body |-> body]

\* What the response shows for the second header.
Second == {[found |-> TRUE, value |-> "fits"], [found |-> TRUE, value |-> "misfits"],
           [found |-> FALSE, value |-> "fits"], [found |-> FALSE, value |-> "panics"]}

AllDeclarations ==
    {Declaration("plain", x[1], x[2], x[3], x[4], x[5], x[6]) :
        x \in {{"status"}, {"status", "default"}} \X StatusObjects \X {Lenient, Strict}
              \X Shown \X Second \X Body}
    \cup
    {Declaration(x[1], x[2], Strict, x[3], x[4], x[5], x[6]) :
        x \in {"head", "exempt", "plain"} \X {{}, {"other"}, {"default"}, {"default", "other"}}
              \X {Lenient, Strict} \X Shown \X Second \X Body}
=============================================================================
