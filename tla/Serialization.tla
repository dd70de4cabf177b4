---------------------------- MODULE Serialization ----------------------------
(***************************************************************************)
(* How OpenAPI writes the value of a parameter in a request: a text, the   *)
(* items of a list, the properties of an object, in the styles of each     *)
(* place.  This is what the decoders of ParameterDecoding are to undo.     *)
(***************************************************************************)
EXTENDS ParameterDecoding

\* The texts with a delimiter between each two.
Join(parts, delim) ==
    LET from[k \in 1..Len(parts)] ==
            IF k = Len(parts) THEN parts[k] ELSE parts[k] \o delim \o from[k + 1]
    IN  IF parts = <<>> THEN <<>> ELSE from[1]

\* Of pairs of a name and a text: each as an assignment, or names and texts in turn.
Assignments(pairs) == [i \in DOMAIN pairs |-> <<pairs[i][1], "=">> \o pairs[i][2]]
Alternating(pairs) ==
    [k \in 1..(2 * Len(pairs)) |->
        IF k % 2 = 1 THEN <<pairs[(k + 1) \div 2][1]>> ELSE pairs[k \div 2][2]]

Alone(text) == [values |-> <<text>>, others |-> <<>>]
Spread(keys) == [values |-> <<>>, others |-> keys]

SerializeText(p, text) ==
    Alone(CASE p.style = "label" -> <<".">> \o text
            [] p.style = "matrix" -> <<";", p.name, "=">> \o text
            [] OTHER -> text)

Separator == [form |-> <<",">>, spaceDelimited |-> <<" ">>, pipeDelimited |-> <<"|">>]

SerializeItems(p, items) ==
    LET named == <<";", p.name, "=">>
    IN  CASE p.style = "simple" -> Alone(Join(items, <<",">>))
          [] p.style = "label" -> Alone(<<".">> \o Join(items, IF p.explode THEN <<".">> ELSE <<",">>))
          [] p.style = "matrix" -> Alone(named \o Join(items, IF p.explode THEN named ELSE <<",">>))
          [] p.style \in DOMAIN Separator /\ ~p.explode -> Alone(Join(items, Separator[p.style]))
          [] OTHER -> [values |-> items, others |-> <<>>]

\* Exploded in a query, an object has a name of its own for each property.
IsSpread(p) == p.in = "query" /\ (p.explode \/ p.style = "deepObject")

SerializePairs(p, pairs) ==
    LET textOf(key) == pairs[CHOOSE i \in DOMAIN pairs : pairs[i][1] = key][2]
        names == {pairs[i][1] : i \in DOMAIN pairs}
        deep(n) == <<p.name, "[", n, "]">>
        written == IF p.explode THEN Assignments(pairs) ELSE Alternating(pairs)
    IN  CASE p.style = "deepObject" ->
                Spread([k \in {deep(n) : n \in names} |-> <<textOf(k[3])>>])
          [] p.style = "label" -> Alone(<<".">> \o Join(written, IF p.explode THEN <<".">> ELSE <<",">>))
          [] p.style = "matrix" ->
                Alone(IF p.explode THEN <<";">> \o Join(written, <<";">>)
                      ELSE <<";", p.name, "=">> \o Join(written, <<",">>))
          [] p.style = "form" /\ p.in = "query" /\ p.explode ->
                Spread([k \in {<<n>> : n \in names} |-> <<textOf(k[1])>>])
          [] OTHER -> Alone(Join(written, <<",">>))

\* The pairs that show an object: its properties in any order.
PairsOf(v) == {[i \in DOMAIN s |-> <<s[i], v.props[s[i]].text>>] : s \in SetToSeqs(DOMAIN v.props)}

Shape(v) == IF v.kind = "primitive" \/ v.kind = "array" THEN v.kind ELSE "object"

Serializations(p, v) ==
    CASE v.kind = "primitive" -> {SerializeText(p, v.text)}
      [] v.kind = "array" -> {SerializeItems(p, [i \in DOMAIN v.items |-> v.items[i].text])}
      [] v.kind = "object" -> {SerializePairs(p, s) : s \in PairsOf(v)}

-----------------------------------------------------------------------------
(* The parameters and texts that statements are about *)

\* The tokens of the styles.
Delimiters == {",", ".", ";", "=", "[", "]", " ", "|"}

\* The ways to serialize a parameter that OpenAPI has for each place.
IsMethod(p) ==
    /\ p.explode \in BOOLEAN
    /\ \/ p.in = "path" /\ p.style \in {"simple", "label", "matrix"}
       \/ p.in = "query" /\ p.style \in {"form", "spaceDelimited", "pipeDelimited"}
       \/ p.in = "query" /\ p.style = "deepObject" /\ p.explode
       \/ p.in = "header" /\ p.style = "simple"
       \/ p.in = "cookie" /\ p.style = "form"

\* The parameter's schema is declared, and texts are made of these tokens.
IsWritten(p, Token) == p.schema \in Schemas /\ IsMethod(p) /\ Delimiters \cup {p.name} \subseteq Token

\* What a parameter carries: texts of these tokens.
IsWire(p, w, Token) ==
    /\ w.values \in Seq(Seq(Token))
    /\ DOMAIN Params(p, w) \subseteq Seq(Token)

-----------------------------------------------------------------------------
(* Values that are told apart when they are written *)

\* No part has the token c.
Without(parts, c) == \A k \in DOMAIN parts : \A j \in DOMAIN parts[k] : parts[k][j] # c

\* Texts for all the properties of an object that strconv reads, and that can be told
\* apart when they are written in one.
ArePropertyTexts(p, texts, Token) ==
    LET names == DOMAIN texts
        s == p.schema
    IN  /\ s.of = "type" /\ s.type = "object" /\ DOMAIN s.props = names
        /\ IsFiniteSet(names) /\ names # {} /\ names \subseteq Token /\ texts \in [names -> Seq(Token)]
        /\ \A n \in names :
              IsPrimitive(s.props[n]) /\ texts[n] # <<>> /\ Reads(s.props[n].type, texts[n])
        /\ \/ IsSpread(p)
           \/ \A n \in names, c \in {PropDelim(p)[1], ValueDelim(p)[1]} :
                n # c /\ \A j \in DOMAIN texts[n] : texts[n][j] # c

\* The object that texts for the properties of the schema stand for.
PropertiesOf(p, texts) == Object([n \in DOMAIN texts |-> Primitive(p.schema.props[n].type, texts[n])])

\* A value of a parameter's schema that can be written so that it is told apart: a text
\* that strconv reads, a list of such, or an object with one for each property.
IsPlainValue(p, v, Token) ==
    LET s == p.schema
    IN  \/ \E text \in Seq(Token) :
              /\ IsPrimitive(s) /\ text # <<>> /\ Reads(s.type, text)
              /\ v = Primitive(s.type, text)
        \/ \E texts \in Seq(Seq(Token)) :
              /\ s.of = "type" /\ s.type = "array" /\ IsPrimitive(s.items) /\ texts # <<>>
              /\ \A i \in DOMAIN texts : texts[i] # <<>> /\ Reads(s.items.type, texts[i])
              /\ (p.in = "query" /\ p.explode) \/ Without(texts, ItemDelim(p)[1])
              /\ v = Array([i \in DOMAIN texts |-> Primitive(s.items.type, texts[i])])
        \/ \E texts : ArePropertyTexts(p, texts, Token) /\ v = PropertiesOf(p, texts)

-----------------------------------------------------------------------------
(* Values with all that a request has for them *)

\* A value with all of the text that the request has for it, as OpenAPI writes it.
IsWholeText(p, w, v) == v.kind = "primitive" /\ w.values[1] = SerializeText(p, v.text).values[1]

\* The same of a list: its items, written as OpenAPI does, are the request's text.
IsWholeArray(p, w, v) ==
    LET x == SerializeItems(p, [i \in DOMAIN v.items |-> v.items[i].text])
    IN  /\ v.kind = "array" /\ \A i \in DOMAIN v.items : v.items[i].kind = "primitive"
        /\ IF p.in = "query" /\ p.explode THEN w.values = x.values ELSE w.values[1] = x.values[1]

\* What comes of pairs of a name and a text between the delimiters, names being any texts.
PairTexts(p, pairs) ==
    IF p.explode THEN [i \in DOMAIN pairs |-> (pairs[i][1] \o <<"=">>) \o pairs[i][2]]
    ELSE [k \in 1..(2 * Len(pairs)) |-> IF k % 2 = 1 THEN pairs[(k + 1) \div 2][1] ELSE pairs[k \div 2][2]]

\* The last of the pairs of a name.
LastText(pairs, name) == pairs[Max({i \in DOMAIN pairs : pairs[i][1] = name})][2]

\* A key that names the property in brackets after the parameter.
NamesProperty(key, name, n) ==
    \E i \in 1..Len(key) :
        i + 3 <= Len(key) /\ key[i] = name /\ key[i + 1] = "[" /\ key[i + 2] = n /\ key[i + 3] = "]"

\* The parameter that OpenAPI has for a property alone.
OwnName(p, n) == IF p.style = "deepObject" THEN <<p.name, "[", n, "]">> ELSE <<n>>

\* That a request shows the text by a parameter of its own for the property, the name of
\* which may have more tokens around it if the style is deepObject.
IsShownAlone(p, w, n, text) ==
    \E key \in DOMAIN Params(p, w) :
        /\ Params(p, w)[key][1] = text
        /\ IF p.style = "deepObject" THEN NamesProperty(key, p.name, n) ELSE key = <<n>>

\* An object with the properties of a schema: with all the text that the request has for
\* it as pairs, or with the texts that it has for its properties.  A property that is nil
\* is not shown, or shown with an empty text.  Of several texts of a name one is taken,
\* of several pairs the last.
IsWholeObject(p, w, v, Token) ==
    /\ v.kind = "object"
    /\ \E s \in Schemas : s.of = "type" /\ s.type = "object" /\ DOMAIN v.props = DOMAIN s.props
    /\ \/ /\ IsSpread(p)
          /\ \A n \in DOMAIN v.props :
                IF v.props[n] = Nil THEN OwnName(p, n) \in DOMAIN Params(p, w) => IsShownAlone(p, w, n, <<>>)
                ELSE IsShownAlone(p, w, n, v.props[n].text)
       \/ /\ ~IsSpread(p)
          /\ \E pairs \in Seq(Seq(Token) \X Seq(Token)) :
                /\ w.values[1] = Prefix(p, "object") \o Join(PairTexts(p, pairs), PropDelim(p))
                /\ \A n \in DOMAIN v.props :
                    LET named == \E i \in DOMAIN pairs : pairs[i][1] = <<n>>
                    IN  IF v.props[n] = Nil THEN named => LastText(pairs, <<n>>) = <<>>
                        ELSE named /\ v.props[n].text = LastText(pairs, <<n>>)

\* A value with all that the request has for it, and what stands for none.
IsWholeValue(p, w, v, Token) == IsWholeText(p, w, v) \/ IsWholeArray(p, w, v) \/ IsWholeObject(p, w, v, Token)
IsNothing(v) == v \in {Nil, TypedNil}
=============================================================================
