------------------------- MODULE MCRequestValidation -------------------------
(* Every kind of requirement, parameter and body, one kind at a time, and all *)
(* three together where only their order matters.                             *)
EXTENDS DecodedBodies

TwoSchemes == {1, 2}

Plain ==
    [type |-> [s \in Schemes |-> "apiKey"], oauth |-> TRUE, inherits |-> FALSE,
     security |-> <<>>, global |-> <<>>, path |-> <<>>, params |-> <<>>,
     declaresBody |-> FALSE, body |-> NoBody, creds |-> {}, shown |-> <<>>,
     data |-> [value |-> "absent", omits |-> FALSE, json |-> TRUE]]

\* Up to two requirements of up to two schemes; basic and bearer ask for a header
\* as apiKey does.
Secured ==
    {[Plain EXCEPT !.type = t, !.oauth = v, !.inherits = i, !.creds = c,
                   !.security = IF i THEN <<>> ELSE q, !.global = IF i THEN q ELSE <<>>] :
        t \in [Schemes -> SchemeTypes \ {"basic", "bearer"}], v \in BOOLEAN, i \in BOOLEAN, c \in SUBSET Schemes,
        q \in SeqOf(SUBSET Schemes, 2)}

Places == {"query", "path"} \X Names

First == [in : {"query", "path"}, name : {"a"}, kind : {"schema", "content", "none"},
          required : BOOLEAN, allowEmpty : BOOLEAN, default : {"none", "fits", "misfits"}]

Second == {<<>>} \cup
    {<<q>> : q \in [in : {"query", "path"}, name : Names, kind : {"schema"},
                    required : {TRUE}, allowEmpty : {FALSE}, default : {"none", "fits"}]}

\* The second parameter is there, or not at all.
There == {[found |-> TRUE, value |-> "fits"], [found |-> FALSE, value |-> "nil"]}

WithParameters(p, s, v, w) ==
    [Plain EXCEPT !.path = <<p>>, !.params = s,
                  !.shown = [c \in Places |-> IF c = <<p.in, p.name>> THEN v ELSE w]]

\* A parameter of the path item in every form and one of the operation, of the
\* same place and name or not.
Parameterized ==
    {WithParameters(x[1], x[2], x[3], x[4]) :
        x \in {y \in First \X Second \X Shown \X There :
                 y[1].kind = "content" /\ ~y[3].found => y[3].value \in {"nil", "undecodable"}}}

\* Every body declared, every body shown.
Bodied ==
    {[Plain EXCEPT !.declaresBody = d, !.body = b, !.data = x] :
        d \in BOOLEAN, b \in Bodies, x \in Data}

\* Credentials, parameter and body in order or not, each on its own.
Mixed ==
    {[Plain EXCEPT !.security = <<{1}>>, !.creds = c, !.declaresBody = TRUE,
                   !.params = <<[in |-> "query", name |-> "a", kind |-> "schema",
                                 required |-> TRUE, allowEmpty |-> FALSE, default |-> "fits"]>>,
                   !.shown = [k \in Places |-> v],
                   !.body = [required |-> TRUE, content |-> "matches", schema |-> TRUE],
                   !.data = x] :
        c \in SUBSET Schemes, v \in Shown, x \in Data}

-----------------------------------------------------------------------------
(* Parameters with the texts a request carries.  The parameter is "a", its        *)
(* properties are "k" and "m".                                                    *)

Whole == Typed("integer")
Str == Typed("string")
Bool == Typed("boolean")
Thing == ObjectOf([k |-> Whole, m |-> Str])
IntOrBool == Composed("oneOf", <<Whole, Bool>>)
IntOrStr == Composed("anyOf", <<Whole, Str>>)
IntAndNumber == Composed("allOf", <<Whole, Typed("number")>>)
ListOrStr == Composed("anyOf", <<ArrayOf(Whole), Str>>)
IntAndMore == Composed("allOf", <<Whole, Untyped(FALSE)>>)

\* In a form these panic, which the test of their types does not see: their items have no type.
ItemsOrInt == Composed("oneOf", <<ArrayOf(Untyped(FALSE)), Whole>>)
IntOrItems == Composed("anyOf", <<Whole, ArrayOf(Untyped(FALSE))>>)

Scalars == {Whole, Str, Bool, IntOrBool, IntOrStr, IntAndNumber, IntAndMore, Untyped(FALSE), Untyped(TRUE), Not}
Lists == {ArrayOf(Whole), ArrayOf(Str), ArrayOf(IntOrBool), ArrayOf(IntOrStr), ArrayOf(IntAndNumber),
          ArrayOf(Untyped(FALSE)), ListOrStr}

\* The number ten, for bodies.
Ten == [type |-> "integer", of |-> "type", pattern |-> FALSE, enum |-> {<<"10">>}]

ParamSchemas == Scalars \cup Lists \cup {Thing}
SomeSchemas == ParamSchemas \cup {Typed("number"), Ten, ArrayOf(Ten), ItemsOrInt, IntOrItems}

SomeLexical == [integer |-> {<<"0">>, <<"1">>, <<"10">>}, number |-> {<<"0">>, <<"1">>, <<"10">>, <<"1", ".", "1">>},
                boolean |-> {<<"true">>, <<"1">>}]

SomeJson == <<"1">> :> Primitive("integer", <<"1">>) @@ <<"null">> :> Nil

SomeWords == {<<"1">>, <<"w">>, <<"true">>}
SomePairs == {<<"k", <<"1">> >>, <<"k", <<"w">> >>, <<"m", <<"w">> >>, <<"z", <<"1">> >>}

Method(in, style, explode) == [in |-> in, style |-> style, explode |-> explode]

Methods ==
    {Method("path", s, e) : s \in {"simple", "label", "matrix"}, e \in BOOLEAN}
    \cup {Method("query", s, FALSE) : s \in {"form", "spaceDelimited", "pipeDelimited"}}
    \cup {Method("query", s, TRUE) : s \in {"form", "deepObject"}}
    \cup {Method("header", "simple", e) : e \in BOOLEAN}
    \cup {Method("cookie", "form", e) : e \in BOOLEAN}

Param(m, s, strict) ==
    m @@ [name |-> "a", kind |-> "schema", schema |-> s,
          required |-> strict \/ m.in = "path", allowEmpty |-> ~strict]

Texts == {<<>>} \cup SomeWords
Missing == [values |-> <<>>, others |-> <<>>]
Beside == [values |-> <<>>, others |-> (<<"z">> :> << <<"1">> >>)]

\* In its own style, or not, and nothing, next to nothing and to something else; in the
\* query and among headers twice.
ScalarWires(p) ==
    {Missing, Beside} \cup {SerializeText(p, x) : x \in Texts} \cup {Alone(x) : x \in Texts}
    \cup IF p.in \in {"query", "header"}
         THEN {[values |-> <<x, y>>, others |-> <<>>] : x, y \in {<<"1">>, <<"w">>}} ELSE {}

ListWires(p) ==
    {Missing, Beside, Alone(<<"1">>), Alone(<<>>)}
    \cup {SerializeItems(p, x) : x \in SeqOf(Texts \ {<<"true">>}, 2) \ {<<>>}}

ThingWires(p) ==
    {Missing, Beside, Alone(<<"k">>), Alone(<<"k", "=", "1">>), Alone(<<"k", ",", "1">>)}
    \cup {SerializePairs(p, x) : x \in SeqOf(SomePairs, 3) \ {<<>>}}
    \cup IF p.explode THEN {} ELSE {[SerializePairs(p, x) EXCEPT !.values[1] = @ \o <<",", "m">>] : x \in SeqOf(SomePairs, 2) \ {<<>>}}

Wires(p) ==
    CASE p.schema \in Scalars -> ScalarWires(p)
      [] p.schema \in Lists -> ListWires(p)
      [] OTHER -> ThingWires(p)

StyledParams ==
    {Param(x[1], x[2], x[3]) : x \in Methods \X ParamSchemas \X BOOLEAN}

\* Parameters with content, of one document or several.
\* A cookie declared by content that is not there is refused even if it is optional.
ContentParams ==
    {[Param(Method(x[1], "form", TRUE), x[2], x[3]) EXCEPT !.kind = "content"] @@ [media |-> x[4]] :
        x \in {"query", "header", "cookie"} \X {Whole, Str, ArrayOf(Whole), ArrayOf(IntOrStr), Thing} \X BOOLEAN \X BOOLEAN}

ContentWires ==
    {Missing} \cup {[values |-> x, others |-> <<>>] : x \in SeqOf({<<"1">>, <<"w">>, <<"null">>}, 2) \ {<<>>}}

Carried ==
    {Carrying(Plain, x[1], x[2]) :
        x \in UNION {{p} \X Wires(p) : p \in StyledParams} \cup (ContentParams \X ContentWires)}

-----------------------------------------------------------------------------
(* Bodies, as they are sent.                                                      *)

Decimal == <<"1", "0", ".", "0">>
Exponent == <<"1", "e", "1">>
SomeCanonical == <<"10">> :> <<"10">> @@ <<"0">> :> <<"0">> @@ Decimal :> <<"10">> @@ Exponent :> <<"10">>
                 @@ <<"1", ".", "1">> :> <<"1", ".", "1">>

Numerals == {Numeral(x) : x \in DOMAIN SomeCanonical}
Word == Primitive("string", <<"w">>)
Documents ==
    Numerals \cup {Word, Nil, Primitive("boolean", <<"true">>)}
    \cup {Array(x) : x \in SeqOf({Numeral(<<"10">>), Numeral(Exponent), Word}, 2)}
    \cup {Object([k |-> x, m |-> y]) : x \in {Numeral(<<"10">>), Numeral(Decimal)}, y \in {Word, Nil}}
    \cup {Object([k |-> Numeral(<<"10">>)]), Object([k |-> Numeral(<<"10">>), z |-> Word])}

SomeDepth == 1
SomeDocs == [n \in 0..SomeDepth |-> IF n = 0 THEN {d \in Documents : Inside(d) = {}} ELSE Documents]

Sent(type, part, data) == [type |-> type, part |-> part, data |-> data]
Doc(d) == [kind |-> "document", doc |-> d]
Tokens(x) == [kind |-> "text", text |-> x]

TenAndWord == [k |-> Ten, m |-> Str]
ObjectSchemas ==
    {ObjectOf(TenAndWord), ObjectAnd(TenAndWord, "any", Str), ObjectAnd(TenAndWord, "none", Str),
     ObjectAnd(TenAndWord, "schema", Str), ObjectAnd(TenAndWord, "schema", ObjectOf([z |-> Str]))}

DocumentBodies ==
    {Sent(x[1], FALSE, Doc(x[2])) :
        x \in ({<<t>> : t \in {"application/json", "application/problem+json", "application/yaml", "application/xml",
                              "text/plain", "application/x-www-form-urlencoded"}}
               \cup {<<"application/json", ";", "charset">>, <<"application/json", " ", ";">>, <<>>})
             \X Documents}

DocumentSchemas == {Ten, Whole, Typed("number"), Str, Bool, ArrayOf(Ten), IntOrStr} \cup ObjectSchemas

\* Texts, archives of files that take several reads, and records.
OtherBodies ==
    {Sent(t, FALSE, Tokens(<<"w">>)) : t \in {<<"text/plain">>, <<"application/octet-stream">>, <<"application/json">>,
                                            <<"application/zip">>, <<>>}}
    \cup {Sent(<<"application/zip">>, FALSE, [kind |-> "archive", files |-> x]) :
            x \in SeqOf(SeqOf({<<"w">>, <<"w", "w">>, <<"1", "w">>}, 2), 2)}
    \cup {Sent(<<"text/csv">>, FALSE, [kind |-> "records", records |-> x]) :
            x \in SeqOf(SeqOf(SomeWords, 2) \ {<<>>}, 2)}

\* Forms of one or two properties, in each form of writing a list.
FormSchemas ==
    {ObjectOf([k |-> x]) : x \in {Ten, Str, Whole, ArrayOf(Whole), ArrayOf(IntOrStr), Thing, ListOrStr, IntOrBool, Not,
                                   ItemsOrInt, IntOrItems}}
    \cup {ObjectOf([k |-> Whole, m |-> Str]), ObjectOf([k |-> ItemsOrInt, m |-> Whole]), ObjectOf([k |-> ArrayOf(Str), m |-> Str]), Str}
FormTexts == {<< <<"1">> >>, << <<"w">> >>, << <<>> >>, << <<"1">>, <<"w">> >>, << <<"w">>, <<>> >>, << <<"1", ",", "1">> >>}
Forms == UNION {[x -> FormTexts] : x \in SUBSET {"k", "m"}}
Encodings == {<<>>} \cup {[k |-> [style |-> x, explode |-> FALSE]] : x \in {"form", "spaceDelimited", "deepObject"}}
FormBodies == {Sent(<<"application/x-www-form-urlencoded">>, FALSE, [kind |-> "form", form |-> x]) : x \in Forms}

\* Parts of several types, named like properties or not, up to three of them.
PartBodies ==
    {Sent(<<>>, TRUE, Tokens(<<"w">>)), Sent(<<"text/plain">>, TRUE, Tokens(<<"10">>)),
     Sent(<<"application/json">>, TRUE, Doc(Numeral(<<"10">>))), Sent(<<"application/json">>, TRUE, Doc(Word)),
     Sent(<<"application/json">>, TRUE, Doc(Numeral(<<"0">>))), Sent(<<"application/xml">>, TRUE, Tokens(<<"w">>))}
PartSets == [name : {"k", "m"}, body : PartBodies] \cup [name : {"z"}, body : {Sent(<<>>, TRUE, Tokens(<<"w">>))}]
MultipartBodies == {Sent(<<"multipart/form-data">>, FALSE, [kind |-> "parts", parts |-> x]) : x \in SeqOf(PartSets, 2)}
                   \cup {Sent(<<"multipart/form-data">>, FALSE, Tokens(<<"w">>))}
MultipartSchemas == ObjectSchemas \cup {ObjectOf([k |-> ArrayOf(Ten), m |-> Str]), Str}

\* What is sent, with what its comparison may give.
Judgements ==
    {[body |-> x[1], schema |-> x[2], enc |-> x[3], values |-> Compared(x[1], x[2], x[3])] :
        x \in (DocumentBodies \X DocumentSchemas \X {<<>>}) \cup (OtherBodies \X {Str, Ten} \X {<<>>})
              \cup (FormBodies \X FormSchemas \X Encodings)
              \cup (MultipartBodies \X MultipartSchemas \X {<<>>})}

Sendings ==
    {Sending(Plain, y[1].body, y[1].schema, y[1].enc, y[2]) :
        y \in {x \in Judgements \X {"fits", "misfits", "undecodable", "panics"} : x[2] \in x[1].values}}

\* Written as a map over a set of tuples, which TLC sorts, and not as a plain union, in
\* which it searches for every element.
AllOperations ==
    {x[2] : x \in ({1} \X Secured) \cup ({2} \X Parameterized) \cup ({3} \X Bodied)
                  \cup ({4} \X Mixed) \cup ({5} \X Carried) \cup ({6} \X Sendings)}
=============================================================================
