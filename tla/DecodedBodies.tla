---------------------------- MODULE DecodedBodies ----------------------------
(***************************************************************************)
(* Operations of RequestValidation with a body, and what its decoding and  *)
(* comparison give computed by BodyDecoding from what is sent.  Against it *)
(* stands what the body means: numbers as they are written, archives as    *)
(* they were packed, forms as OpenAPI serializes them.                     *)
(***************************************************************************)
EXTENDS DecodedParameters, BodyMeaning

\* decodeBody: the parts of a multipart body are bodies themselves, each of a declared
\* property.
RECURSIVE DecodeBody(_, _, _)
DecodeBody(b, s, enc) ==
    LET parts == Taken(b.data, s)
        part(i) == IF IsDeclared(parts[i].name, s)
                   THEN DecodeBody(parts[i].body, PartSchema(parts[i].name, s), enc) ELSE Bad
    IN  IF MediaType(b) # <<"multipart/form-data">> THEN DecodeSingle(b, s, enc)
        ELSE IF ~MultipartSupports(b.data, s) THEN Bad
        ELSE MultipartBody(parts, [i \in DOMAIN parts |-> part(i)], s)

\* decodeBody and the comparison with the schema.
Compared(b, s, enc) == LET r == DecodeBody(b, s, enc) IN Judged(r, Conforms(s, r.value))

\* An operation that requires a body of the sent type with this schema, and encodings
\* of its properties, of which value is what is compared.
Sending(plain, b, s, enc, value) ==
    [plain EXCEPT
        !.declaresBody = TRUE,
        !.body = [required |-> TRUE, content |-> "matches", schema |-> TRUE],
        !.data = [value |-> value, omits |-> FALSE, json |-> MediaType(b) = <<"application/json">>]]
    @@ [sent |-> b, schema |-> s, enc |-> enc]

Sends == "sent" \in DOMAIN op

-----------------------------------------------------------------------------
(* What a body means *)

\* The form shows the property by a serialization of the value.
IsSerialized(p, w, v) ==
    \E x \in Serializations(p, v) :
        IF v.kind = "array" /\ p.explode THEN w.values = x.values
                                         ELSE w.values # <<>> /\ w.values[1] = x.values[1]

\* A nil slice comes of an array that is not there, or has an empty item.
FormIsMeant(form, s, enc, value) ==
    \A n \in DOMAIN s.props :
        LET p == PropertyAs(n, s.props[n], enc)
            w == FormWire(form, n)
            v == value.props[n]
        IN  Conforms(s.props[n], v) /\ (v # TypedNil => IsSerialized(p, w, v))

IsText(b) == \E t \in TextTypes : MediaType(b) = <<t>>

\* What must be true of a body that is taken for a value of the schema.  value: what was
\* decoded.
Means(b, s, enc, value) ==
    CASE IsText(b) -> b.data.kind = "text" => value = Primitive("string", b.data.text)
      [] b.data.kind = "document" -> HasPlainNumbers(b.data.doc) => Conforms(s, YamlValue(b.data.doc))
      [] b.data.kind = "archive" -> BlocksHold(value.text, FlattenSeq(b.data.files))
      [] b.data.kind = "form" -> FormIsMeant(b.data.form, s, enc, value)
      [] OTHER -> ~CsvFails(b.data.records)

RECURSIVE IsMeant(_, _, _)
IsMeant(b, s, enc) ==
    LET parts == b.data.parts
        sameName(n) == {i \in DOMAIN parts : parts[i].name = n}
        partsAreMeant ==
            \A n \in {parts[i].name : i \in DOMAIN parts} :
                CASE n \notin DOMAIN s.props -> s.extra = "any" \/ n \in DOMAIN More(s)
                  [] TypeOf(s.props[n]) = "array" ->
                        \A i \in sameName(n) : IsMeant(parts[i].body, s.props[n].items, enc)
                  [] OTHER -> IsMeant(parts[Min(sameName(n))].body, s.props[n], enc)
    IN  IF b.data.kind = "parts" /\ ~IsText(b) THEN partsAreMeant
        ELSE Means(b, s, enc, DecodeBody(b, s, enc).value)

\* The body's bytes are of the kind its type says.
IsOfItsType(b) ==
    LET media == MediaType(b)
    IN  CASE b.data.kind = "document" -> \E t \in JsonTypes \cup YamlTypes : media = <<t>>
          [] b.data.kind = "text" -> IsText(b)
          [] b.data.kind = "parts" -> media = <<"multipart/form-data">>
          [] b.data.kind = "form" -> media = <<"application/x-www-form-urlencoded">>
          [] OTHER -> FALSE

\* What is enough to be taken for a value of the schema.
RECURSIVE IsPlainlyMeant(_, _, _)
IsPlainlyMeant(b, s, enc) ==
    LET data == b.data
        shows(n) == LET p == PropertyAs(n, s.props[n], enc)
                    IN  \E v \in Samples(p) :
                            /\ Conforms(p.schema, v) /\ Supported(p, Shape(v))
                            /\ IsSerialized(p, FormWire(data.form, n), v)
    IN  IsOfItsType(b) /\
        CASE data.kind = "document" -> HasPlainNumbers(data.doc) /\ Conforms(s, YamlValue(data.doc))
          [] data.kind = "text" -> Conforms(s, Primitive("string", data.text))
          [] data.kind = "form" -> FormSupports(s) /\ \A n \in DOMAIN s.props : shows(n)
          [] data.kind = "parts" ->
                TypeOf(s) = "object" /\
                \A i \in DOMAIN data.parts :
                    LET n == data.parts[i].name
                    IN  \/ n \in DOMAIN s.props /\ IsPlainlyMeant(data.parts[i].body, PartSchema(n, s), enc)
                        \/ n \notin DOMAIN s.props /\ s.extra = "any"
          [] OTHER -> FALSE

-----------------------------------------------------------------------------
(* Properties *)

\* A body that is accepted means what was compared with the schema: every number that is
\* written plainly, every part that a property takes, every text of a form, every byte
\* of an archive.
AcceptedBodyIsMeant ==
    result = "valid" /\ Sends => IsMeant(op.sent, op.schema, op.enc)

\* A body that plainly means a value of the schema, with all the properties of a form, is
\* accepted, whatever its type.
PlainBodyPasses ==
    pc = "done" /\ Sends /\ IsPlainlyMeant(op.sent, op.schema, op.enc) => result = "valid"

\* Whatever is accepted, a parameter or a body, is what was compared with its schema.
AcceptedIsMeant == AcceptedIsSerialized /\ AcceptedBodyIsMeant

\* Whatever is written as OpenAPI says, or as its media type does, and fits is accepted.
WrittenPasses == SerializedPasses /\ PlainBodyPasses

=============================================================================
