-------------------------- MODULE ParameterDecoding --------------------------
(***************************************************************************)
(* The decoding of parameters (internal/platform/validator/                *)
(* req_resp_decoder.go): decodeStyledParameter for parameters with a       *)
(* schema and a style, decodeContentParameter for those with content.      *)
(*                                                                         *)
(* A text is a sequence of tokens: the delimiters of the styles, names and *)
(* words.  What strconv and encoding/json read of a text are constants.    *)
(* There is no state: a decoder is an operator that returns what the code  *)
(* returns, whether the parameter is found, its value and an error.        *)
(***************************************************************************)
EXTENDS Naturals, Sequences, FiniteSetsExt, SequencesExt

CONSTANTS
    Schemas,    \* the schemas of parameters, and those inside of them
    Lexical,    \* of each primitive type but string: the texts that strconv reads
    Json        \* the texts that are JSON documents, with the values they stand for

\* A schema of a type: an array's items and an object's properties have schemas; extra
\* is what it says of additional properties.
Typed(t) == [of |-> "type", type |-> t, pattern |-> FALSE]
ArrayOf(s) == [of |-> "type", type |-> "array", items |-> s, pattern |-> FALSE]
ObjectOf(f) == [of |-> "type", type |-> "object", props |-> f, extra |-> "unset", pattern |-> FALSE]
\* One of allOf, anyOf, oneOf; not; and one without a type, with a pattern or not.
Composed(of, subs) == [of |-> of, subs |-> subs]
Not == [of |-> "not"]
Untyped(pattern) == [of |-> "type", type |-> "", pattern |-> pattern]

IsPrimitive(s) == s.of = "type" /\ s.type \in DOMAIN Lexical \cup {"string"}
Reads(type, raw) == type = "string" \/ raw \in Lexical[type]

IsComposed(s) == s.of \in {"allOf", "anyOf", "oneOf"}

\* The schemas that a composed one is made of, and the items of an array, are schemas.
\* None is composed of itself, since the code would not return from it: a set is all of
\* them that has each of which it has all the parts.
ASSUME SchemasAssumption ==
    /\ \A s \in Schemas :
        /\ s.of \in {"type", "not", "allOf", "anyOf", "oneOf"}
        /\ IsComposed(s) => s.subs # <<>> /\ s.subs \in Seq(Schemas)
        /\ s.of = "type" /\ s.type = "array" => s.items \in Schemas
    /\ LET composed == {s \in Schemas : IsComposed(s)}
           parts(s) == {s.subs[i] : i \in DOMAIN s.subs} \cap composed
       IN  \A S \in SUBSET composed :
            (\A s \in composed : parts(s) \subseteq S => s \in S) => S = composed

\* No type that strconv reads is that of a list, an object or a text.
ASSUME LexicalAssumption == DOMAIN Lexical \cap {"", "array", "object", "string"} = {}

\* Values.  TypedNil is the nil slice or map that comes in an interface which is
\* itself not nil.
Nil == [kind |-> "nil"]
TypedNil == [kind |-> "typed_nil"]
Primitive(type, text) == [kind |-> "primitive", type |-> type, text |-> text]
Array(items) == [kind |-> "array", items |-> items]
Object(props) == [kind |-> "object", props |-> props]

\* What the functions that parse return, and what the decoders do.
Ok(v) == [value |-> v, err |-> "none"]
Bad == [value |-> Nil, err |-> "error"]
Panic == [value |-> Nil, err |-> "panic"]

Decoded(found, r) == [found |-> found, value |-> r.value, err |-> r.err]
NotShown == Decoded(FALSE, Ok(Nil))

-----------------------------------------------------------------------------
(* Texts *)

\* Where a delimiter is in a text, from position i on.
Occurrences(text, delim, i) ==
    {j \in i..(Len(text) - Len(delim) + 1) : SubSeq(text, j, j + Len(delim) - 1) = delim}

\* strings.Split: the text up to the next delimiter, and what comes after it split too.
Split(text, delim) ==
    LET from[i \in 1..(Len(text) + 1)] ==
            LET cuts == Occurrences(text, delim, i)
            IN  IF cuts = {} THEN <<SubSeq(text, i, Len(text))>>
                ELSE <<SubSeq(text, i, Min(cuts) - 1)>> \o from[Min(cuts) + Len(delim)]
    IN  from[1]

CutPrefix(raw, prefix) == SubSeq(raw, Len(prefix) + 1, Len(raw))

\* parsePrimitive: an empty text is nil, and a type that is not primitive panics.
ParsePrimitive(raw, s) ==
    IF raw = <<>> THEN Ok(Nil)
    ELSE IF ~IsPrimitive(s) THEN Panic
    ELSE IF Reads(s.type, raw) THEN Ok(Primitive(s.type, raw)) ELSE Bad

\* Of the results of several schemas: those at which allOf ends.
Stopping(r) == {i \in DOMAIN r : r[i].value = Nil \/ r[i].err # "none"}
Panics(r) == \E i \in DOMAIN r : r[i].err = "panic"

\* urlValuesDecoder.parseValue, for the items of arrays in the query.  r: what the
\* schemas that s is composed of give.
ParseComposed(s, r) ==
    CASE s.of = "allOf" ->
            LET stop == Stopping(r) IN IF stop = {} THEN r[Len(r)] ELSE r[Min(stop)]
      [] s.of = "anyOf" ->
            LET good == {i \in DOMAIN r : r[i].err # "error"}
            IN  IF good = {} THEN Bad ELSE r[Min(good)]
      [] s.of = "oneOf" ->
            LET good == {i \in DOMAIN r : r[i].err = "none"}
            IN  IF Panics(r) THEN Panic
                ELSE IF Cardinality(good) = 1 THEN r[Min(good)] ELSE Bad

ParseValue(v) ==
    LET parse[s \in Schemas] ==
            IF IsComposed(s) THEN ParseComposed(s, [i \in DOMAIN s.subs |-> parse[s.subs[i]]])
            ELSE IF s.of = "not" THEN Bad ELSE ParsePrimitive(v, s)
    IN  parse

\* parseArray: the first item that fails, or is nil, ends it; one nil item makes
\* the array nil.  r: what parsing gives for each item.
ParseArray(r) ==
    LET stop == {i \in DOMAIN r : r[i].value = Nil}
    IN  IF stop = {} THEN Ok(Array([i \in DOMAIN r |-> r[i].value]))
                     ELSE [r[Min(stop)] EXCEPT !.value = TypedNil]

\* The properties that pairs of a name and a value make: a name that comes again takes
\* its last value.
PropsOf(all, ok) ==
    LET lastOf(n) == all[Max({i \in DOMAIN all : all[i][1] = n})]
    IN  [ok |-> ok, props |-> IF ok THEN [n \in {all[i][1] : i \in DOMAIN all} |-> lastOf(n)[2]]
                                    ELSE <<>>]

InTurn(parts) ==
    PropsOf([i \in 1..(Len(parts) \div 2) |-> <<parts[2 * i - 1], parts[2 * i]>>], Len(parts) % 2 = 0)
Paired(parts) == PropsOf(parts, \A i \in DOMAIN parts : Len(parts[i]) = 2)

\* propsFromString: names and values in turn when the delimiters are the same.
PropsFromString(src, propDelim, valueDelim) ==
    LET parts == Split(src, propDelim)
    IN  IF propDelim = valueDelim THEN InTurn(parts)
        ELSE Paired([i \in DOMAIN parts |-> Split(parts[i], valueDelim)])

\* makeObject: every property of the schema gets a value, nil if it is not there;
\* others are dropped.  r: what parsing gives for each; of a panic and an error, which
\* come in the order of a map, the panic counts.
Made(r) ==
    IF Panics(r) THEN [Panic EXCEPT !.value = TypedNil]
    ELSE IF \E n \in DOMAIN r : r[n].err # "none" THEN [Bad EXCEPT !.value = TypedNil]
    ELSE Ok(Object([n \in DOMAIN r |-> r[n].value]))

MakeObject(props, s) ==
    Made([n \in DOMAIN s.props |->
            ParsePrimitive(IF <<n>> \in DOMAIN props THEN props[<<n>>] ELSE <<>>, s.props[n])])

-----------------------------------------------------------------------------
(* The decoders of the four places.  p is the parameter.  w is what the request  *)
(* has in its place: values, the texts under the parameter's own name, and       *)
(* others, the texts under other names (which are texts too).                    *)

\* The styles that the decoder of a place knows for a shape.
Supported(p, shape) ==
    CASE p.in = "query" ->
            \/ shape = "primitive" /\ p.style = "form"
            \/ shape = "array" /\ p.style # "deepObject"
            \/ shape = "object" /\ p.style \in {"form", "deepObject"}
      [] p.in = "cookie" -> shape = "primitive" \/ ~p.explode
      [] OTHER -> TRUE

Named(p) == <<";", p.name, "=">>

Prefix(p, shape) ==
    CASE p.style = "label" -> <<".">>
      [] p.style = "matrix" -> IF shape = "object" /\ p.explode THEN <<";">> ELSE Named(p)
      [] OTHER -> <<>>

\* Mutant: a label is split at its commas, exploded or not.
ItemDelim_Label(p) ==
    CASE p.style = "matrix" /\ p.explode -> Named(p)
      [] p.style = "spaceDelimited" -> <<" ">>
      [] p.style = "pipeDelimited" -> <<"|">>
      [] OTHER -> <<",">>

ItemDelim(p) ==
    CASE p.style = "label" /\ p.explode -> <<".">>
      [] p.style = "matrix" /\ p.explode -> Named(p)
      [] p.style = "spaceDelimited" -> <<" ">>
      [] p.style = "pipeDelimited" -> <<"|">>
      [] OTHER -> <<",">>

PropDelim(p) ==
    CASE p.style = "label" /\ p.explode -> <<".">>
      [] p.style = "matrix" /\ p.explode -> <<";">>
      [] OTHER -> <<",">>

ValueDelim(p) == IF p.explode THEN <<"=">> ELSE <<",">>

\* In a path an empty text counts as none.
Absent(p, w) == w.values = <<>> \/ (p.in = "path" /\ w.values[1] = <<>>)

DecodePrimitive(p, w, s) ==
    IF ~Supported(p, "primitive") THEN Decoded(FALSE, Bad)
    ELSE IF Absent(p, w) THEN NotShown
    ELSE LET raw == w.values[1]
             prefix == Prefix(p, "primitive")
         IN  Decoded(TRUE,
                IF ~IsPrefix(prefix, raw) THEN Bad
                ELSE IF s.type = "" /\ s.pattern THEN Ok(Primitive("string", raw))
                ELSE ParsePrimitive(CutPrefix(raw, prefix), s))

BadNil == [Bad EXCEPT !.value = TypedNil]

\* Exploded in a query an array has one text for each item, elsewhere one for all.
DecodeArray(p, w, s) ==
    IF ~Supported(p, "array") THEN Decoded(FALSE, BadNil)
    ELSE IF Absent(p, w) THEN Decoded(FALSE, Ok(TypedNil))
    ELSE LET raw == w.values[1]
             prefix == Prefix(p, "array")
             items == IF p.in = "query" /\ p.explode THEN w.values
                      ELSE Split(CutPrefix(raw, prefix), ItemDelim(p))
             item(v) == IF p.in = "query" THEN ParseValue(v)[s.items]
                                          ELSE ParsePrimitive(v, s.items)
         IN  Decoded(TRUE, IF ~IsPrefix(prefix, raw) THEN BadNil
                           ELSE ParseArray([i \in DOMAIN items |-> item(items[i])]))

\* The pattern name\[(.+?)\], found anywhere in a key: what is between the brackets,
\* or nothing.
BracketsEnd(key, i) == {j \in (i + 3)..Len(key) : key[j] = "]"}
Between(key, starts) ==
    IF starts = {} THEN <<>> ELSE SubSeq(key, Min(starts) + 2, Min(BracketsEnd(key, Min(starts))) - 1)
DeepProperty(key, name) ==
    Between(key, {i \in 1..(Len(key) - 3) :
                    key[i] = name /\ key[i + 1] = "[" /\ BracketsEnd(key, i) # {}})

\* The parameters of deepObject: their property and the key of each that is used.
DeepProps(params, deep) ==
    [n \in {deep[k] : k \in DOMAIN params} \ {<<>>} |->
        params[CHOOSE k \in DOMAIN params : deep[k] = n][1]]

\* The properties that a query shows: exploded, those of all its parameters.
Params(p, w) ==
    IF w.values = <<>> THEN w.others
    ELSE [name \in {<<p.name>>} \cup DOMAIN w.others |->
            IF name = <<p.name>> THEN w.values ELSE w.others[name]]

QueryProps(p, w) ==
    LET params == Params(p, w)
    IN  IF p.style = "deepObject"
        THEN [ok |-> TRUE, props |-> DeepProps(params, [k \in DOMAIN params |-> DeepProperty(k, p.name)])]
        ELSE IF p.explode THEN [ok |-> TRUE, props |-> [k \in DOMAIN params |-> params[k][1]]]
        ELSE IF w.values = <<>> THEN [ok |-> TRUE, props |-> <<>>]
        ELSE PropsFromString(w.values[1], <<",">>, <<",">>)

\* In a query an object is found if a property of its schema is.
FoundInQuery(props, s) == \E n \in DOMAIN s.props : <<n>> \in DOMAIN props

ObjectInQuery(q, s) ==
    IF ~q.ok THEN Decoded(FALSE, BadNil)
    ELSE IF DOMAIN q.props = {} THEN Decoded(FALSE, Ok(TypedNil))
    ELSE Decoded(FoundInQuery(q.props, s), MakeObject(q.props, s))

ObjectElsewhere(q, s) == IF q.ok THEN MakeObject(q.props, s) ELSE BadNil

DecodeObject(p, w, s) ==
    IF ~Supported(p, "object") THEN Decoded(FALSE, BadNil)
    ELSE IF p.in = "query" THEN ObjectInQuery(QueryProps(p, w), s)
    ELSE IF Absent(p, w) THEN Decoded(FALSE, Ok(TypedNil))
    ELSE LET raw == w.values[1]
             prefix == Prefix(p, "object")
         IN  Decoded(TRUE,
                IF ~IsPrefix(prefix, raw) THEN BadNil
                ELSE ObjectElsewhere(PropsFromString(CutPrefix(raw, prefix), PropDelim(p), ValueDelim(p)), s))

\* decodeValue of a schema that is not composed.
DecodePlain(p, w, s) ==
    CASE s.of = "not" -> Decoded(FALSE, Bad)
      [] s.of = "type" /\ s.type = "array" -> DecodeArray(p, w, s)
      [] s.of = "type" /\ s.type = "object" -> DecodeObject(p, w, s)
      [] s.of = "type" /\ s.type = "" /\ ~(s.pattern /\ p.in = "query") ->
            Decoded(w.values # <<>>, Ok(Nil))
      [] OTHER -> DecodePrimitive(p, w, s)

\* And of one that is composed.  An error is given up by anyOf and oneOf for the next
\* alternative, but the nil slice or map that comes with it is a value to them.
DecodeComposed(p, s, r) ==
    LET found(k) == \E i \in 1..k : r[i].found
        some == {i \in DOMAIN r : r[i].value # Nil \/ r[i].err = "panic"}
        fails == [value |-> Nil, err |-> IF p.required THEN "error" ELSE "none"]
    IN  CASE s.of = "allOf" ->
                LET stop == Stopping(r)
                    k == IF stop = {} THEN Len(r) ELSE Min(stop)
                IN  Decoded(found(k), r[k])
          [] s.of = "anyOf" ->
                IF some = {} THEN Decoded(found(Len(r)), fails)
                ELSE IF r[Min(some)].err = "panic" THEN Decoded(FALSE, Panic)
                ELSE Decoded(found(Min(some)), Ok(r[Min(some)].value))
          [] s.of = "oneOf" /\ Panics(r) -> Decoded(FALSE, Panic)
          [] s.of = "oneOf" /\ ~Panics(r) ->
                Decoded(found(Len(r)),
                    IF some = {} THEN fails
                    ELSE IF Cardinality(some) = 1 THEN Ok(r[Min(some)].value) ELSE Bad)

DecodeValue(p, w) ==
    LET value[s \in Schemas] ==
            IF IsComposed(s) THEN DecodeComposed(p, s, [i \in DOMAIN s.subs |-> value[s.subs[i]]])
            ELSE DecodePlain(p, w, s)
    IN  value[p.schema]

\* decodeStyledParameter: without any parameter of the path, or of the query, even
\* an array or an object is plain nil.
DecodeStyledParameter(p, w) ==
    IF p.in \in {"path", "query"} /\ w.values = <<>> /\ DOMAIN w.others = {}
    THEN NotShown ELSE DecodeValue(p, w)

-----------------------------------------------------------------------------
(* decodeContentParameter *)

\* A text that is no JSON document is taken as it is, unless an object is expected
\* or no schema is known.
Unmarshal(text, schemas) ==
    IF text \in DOMAIN Json THEN Ok(Json[text])
    ELSE IF \E s \in schemas : s.of # "type" \/ s.type # "object"
         THEN Ok(Primitive("string", text)) ELSE Bad

Items(s) == IF s.of = "type" /\ s.type = "array" THEN {s.items} ELSE {}

\* media: the content is application/json only.  Of a cookie that is not there the error
\* stays, whether it is required or not.
DecodeContentParameter(p, w) ==
    LET r == [i \in DOMAIN w.values |-> Unmarshal(w.values[i], Items(p.schema))]
    IN  IF w.values = <<>>
        THEN Decoded(FALSE, IF p.required \/ p.in = "cookie" THEN Bad ELSE Ok(Nil))
        ELSE Decoded(TRUE,
                IF ~p.media \/ (Len(w.values) > 1 /\ p.in # "query") THEN Bad
                ELSE IF Len(w.values) = 1 THEN Unmarshal(w.values[1], {p.schema})
                ELSE IF \E i \in DOMAIN r : r[i].err # "none" THEN Bad
                ELSE Ok(Array([i \in DOMAIN r |-> r[i].value])))

\* What the validation of a request is told of a parameter.  fits: whether its value
\* fits the schema.
ShownAs(d, fits) ==
    [found |-> d.found, value |->
        IF d.err = "panic" THEN "panics"
        ELSE IF d.err = "error" THEN "undecodable"
        ELSE IF d.value = Nil THEN "nil"
        ELSE IF d.value = TypedNil THEN "typed_nil"
        ELSE IF fits THEN "fits" ELSE "misfits"]
=============================================================================
