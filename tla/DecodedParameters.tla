-------------------------- MODULE DecodedParameters --------------------------
(***************************************************************************)
(* Operations of RequestValidation with one parameter, and what a request  *)
(* shows for it computed by ParameterDecoding from the texts it carries.   *)
(* Against it stands the serialization that OpenAPI defines for a style:   *)
(* what the validator accepts must be one, and every one of a value that   *)
(* fits the schema must be accepted.                                       *)
(***************************************************************************)
EXTENDS RequestValidation, Serialization

CONSTANTS
    Words,      \* texts without delimiters, of which sample values are made
    Pairs       \* names of properties, declared ones and others, with texts

\* A number is an integer if it has no fraction, whatever it was parsed as.
FitsNumber(s, v) ==
    /\ {v.type, s.type} \subseteq {"integer", "number"}
    /\ s.type = "integer" => Reads("integer", v.text)

\* Schema.VisitJSON, of a value the decoders make: nil fits no schema, a nil slice is
\* an array without items.
RECURSIVE Conforms(_, _)
Conforms(s, v) ==
    CASE v = Nil -> FALSE
      [] s.of = "allOf" -> \A i \in DOMAIN s.subs : Conforms(s.subs[i], v)
      [] s.of = "anyOf" -> \E i \in DOMAIN s.subs : Conforms(s.subs[i], v)
      [] s.of = "oneOf" -> Cardinality({i \in DOMAIN s.subs : Conforms(s.subs[i], v)}) = 1
      [] s.of = "not" -> FALSE
      [] s.type = "" -> TRUE
      [] s.type = "array" ->
            v = TypedNil \/ (v.kind = "array" /\ \A i \in DOMAIN v.items : Conforms(s.items, v.items[i]))
      [] s.type = "object" ->
            /\ v.kind = "object"
            /\ \A n \in DOMAIN v.props \cap DOMAIN s.props : Conforms(s.props[n], v.props[n])
            /\ \A n \in DOMAIN v.props \ DOMAIN s.props :
                  s.extra # "none" /\ (s.extra = "schema" => Conforms(s.more, v.props[n]))
      [] OTHER ->
            /\ v.kind = "primitive" /\ (v.type = s.type \/ FitsNumber(s, v))
            /\ "enum" \in DOMAIN s => v.text \in s.enum

Decode(p, w) == IF p.kind = "content" THEN DecodeContentParameter(p, w) ELSE DecodeStyledParameter(p, w)

\* What RequestValidation is told of a parameter that carries w.
Shows(p, w) == LET d == Decode(p, w) IN ShownAs(d, Conforms(p.schema, d.value))

\* An operation whose only parameter is p, and a request for it that carries w.
Carrying(plain, p, w) ==
    [plain EXCEPT
        !.params = <<[in |-> p.in, name |-> p.name, kind |-> p.kind, required |-> p.required,
                      allowEmpty |-> p.allowEmpty, default |-> "none"]>>,
        !.shown = <<p.in, p.name>> :> Shows(p, w)]
    @@ [param |-> p, wire |-> w]

Carries == "wire" \in DOMAIN op

-----------------------------------------------------------------------------
(* Properties *)

\* Values that a schema has for certain: words without delimiters, read by one of the
\* alternatives only, and all of an object's properties.
WordsOf(t) == {x \in Words : Reads(t, x)}

PrimitiveSamples(s) ==
    CASE IsPrimitive(s) -> {Primitive(s.type, x) : x \in WordsOf(s.type)}
      [] s.of = "anyOf" -> UNION {{Primitive(s.subs[i].type, x) : x \in WordsOf(s.subs[i].type)} : i \in DOMAIN s.subs}
      [] s.of = "oneOf" ->
            UNION {{Primitive(s.subs[i].type, x) :
                        x \in {y \in WordsOf(s.subs[i].type) :
                                 \A j \in DOMAIN s.subs \ {i} : ~Reads(s.subs[j].type, y)}} :
                    i \in DOMAIN s.subs}
      [] s.of = "allOf" -> {v \in {Primitive(s.subs[1].type, x) : x \in WordsOf(s.subs[1].type)} : Conforms(s, v)}

OfPrimitives(s) ==
    \/ IsPrimitive(s)
    \/ s.of \in {"allOf", "anyOf", "oneOf"} /\ \A i \in DOMAIN s.subs : IsPrimitive(s.subs[i])

Samples(p) ==
    LET s == p.schema
    IN  CASE OfPrimitives(s) -> PrimitiveSamples(s)
          [] s.of = "type" /\ s.type = "array" ->
                IF IsPrimitive(s.items) \/ (p.in = "query" /\ OfPrimitives(s.items))
                THEN {Array(x) : x \in SeqOf(PrimitiveSamples(s.items), 2) \ {<<>>}} ELSE {}
          [] s.of = "type" /\ s.type = "object" ->
                {Object(f) : f \in {g \in [DOMAIN s.props -> UNION {PrimitiveSamples(s.props[n]) : n \in DOMAIN s.props}] :
                                      \A n \in DOMAIN s.props : Conforms(s.props[n], g[n])}}
          [] OTHER -> {}

\* Every serialization of a value that fits the schema is accepted, in every place, style
\* and form, wherever the decoder supports the style for it.
SerializedPasses ==
    pc = "done" /\ Carries /\ op.param.kind = "schema" =>
        \A v \in Samples(op.param) :
            Supported(op.param, Shape(v)) /\ op.wire \in Serializations(op.param, v) => result = "valid"

\* The first text of each name: the others are not read.
FirstTexts(keys) == [k \in DOMAIN keys |-> <<keys[k][1]>>]

\* That a request's texts for an object are these pairs, the value being the last of each.
ShowsPairs(p, w, v, pairs) ==
    LET x == SerializePairs(p, pairs)
        last(n) == pairs[Max({i \in DOMAIN pairs : pairs[i][1] = n})][2]
    IN  /\ IF IsSpread(p) THEN FirstTexts(w.others) = x.others ELSE w.values[1] = x.values[1]
        /\ DOMAIN v.props \subseteq {pairs[i][1] : i \in DOMAIN pairs}
        /\ \A n \in DOMAIN v.props : v.props[n].text = last(n)

\* The whole of a request's text for a parameter is a serialization of what was decoded.
IsWhollyDecoded(p, w, d) ==
    LET v == d.value
        texts == Serializations(p, v)
    IN  CASE v \in {Nil, TypedNil} -> IF d.found THEN p.allowEmpty ELSE ~p.required
          [] v.kind = "object" -> \E pairs \in SeqOf(Pairs, 3) \ {<<>>} : ShowsPairs(p, w, v, pairs)
          [] v.kind = "array" /\ IsSpread(p) -> \E x \in texts : w.values = x.values
          [] OTHER -> \E x \in texts : w.values[1] = x.values[1]

\* A parameter that is accepted is not there and not required, or nil and allowed to be
\* empty, or the whole of its text is the serialization of the value that was compared
\* with the schema: nothing that was sent is left out of the comparison, but for texts
\* after the first of a name and for properties that are named again, or not declared.
AcceptedIsSerialized ==
    result = "valid" /\ Carries /\ op.param.kind = "schema" =>
        IsWhollyDecoded(op.param, op.wire, DecodeStyledParameter(op.param, op.wire))

=============================================================================
