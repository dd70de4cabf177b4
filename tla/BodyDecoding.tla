---------------------------- MODULE BodyDecoding ----------------------------
(***************************************************************************)
(* The decoding of bodies: decodeBody and the registered decoders          *)
(* (internal/platform/validator/req_resp_decoder.go), and convertToMap     *)
(* (internal.go).                                                          *)
(*                                                                         *)
(* A body has a content type, as tokens; part says that it is a part of a  *)
(* multipart body; data is what its bytes are: a document, a form, the     *)
(* parts of a multipart body, the files of an archive, records, or just    *)
(* text.  A decoder of one kind fails on bytes of another.                 *)
(***************************************************************************)
EXTENDS ParameterDecoding

CONSTANTS
    Canonical,      \* of each way to write a number in a document, the shortest one
    BufferSize,     \* of the buffer for archives: 256 in the code
    MaxDepth,       \* how deep documents are nested: the library's limit is 300
    Docs            \* of each depth up to it: the documents that are nested no deeper

JsonTypes == {"application/json", "application/json-patch+json", "application/problem+json"}
YamlTypes == {"application/x-yaml", "application/yaml"}
TextTypes == {"text/plain", "application/octet-stream"}
Registered ==
    JsonTypes \cup YamlTypes \cup TextTypes
    \cup {"application/x-www-form-urlencoded", "application/zip", "multipart/form-data", "text/csv"}

\* What comes before the first semicolon; a space before it stays.
ParseMediaType(contentType) ==
    LET ends == {i \in DOMAIN contentType : contentType[i] = ";"}
    IN  IF ends = {} THEN contentType ELSE SubSeq(contentType, 1, Min(ends) - 1)

Text(tokens) == Ok(Primitive("string", tokens))

\* The types of properties: a schema that is composed has none.
TypeOf(s) == IF s.of = "type" THEN s.type ELSE ""

-----------------------------------------------------------------------------
(* Documents *)

Numeral(text) == [kind |-> "numeral", text |-> text]
IsWhole(text) == Canonical[text] \in Lexical["integer"]

\* GetInt64 of the JSON library reads digits only, and is zero for any other numeral.
GetInt64(text) == IF text = Canonical[text] THEN text ELSE <<"0">>

\* A number that is whole is taken as an integer, however it is written.
ConvertNumber(text) ==
    IF IsWhole(text) THEN Primitive("integer", GetInt64(text))
                     ELSE Primitive("number", Canonical[text])

\* What a list or an object has in it.
Inside(doc) ==
    CASE doc.kind = "array" -> {doc.items[i] : i \in DOMAIN doc.items}
      [] doc.kind = "object" -> {doc.props[n] : n \in DOMAIN doc.props}
      [] OTHER -> {}

\* What is inside of a document is less deep, and a number is written in one of the ways.
ASSUME DocsAssumption ==
    /\ MaxDepth \in Nat /\ DOMAIN Docs = 0..MaxDepth
    /\ \A n \in 0..MaxDepth : \A doc \in Docs[n] :
        /\ Inside(doc) \subseteq IF n = 0 THEN {} ELSE Docs[n - 1]
        /\ n < MaxDepth => doc \in Docs[n + 1]
        /\ doc.kind = "numeral" => doc.text \in DOMAIN Canonical

\* A document with a value for each number.  f: what comes of what is inside of it.
ConvertedFrom(number, f, doc) ==
    CASE doc.kind = "numeral" -> number[doc.text]
      [] doc.kind = "array" -> Array([i \in DOMAIN doc.items |-> f[doc.items[i]]])
      [] doc.kind = "object" -> Object([n \in DOMAIN doc.props |-> f[doc.props[n]]])
      [] OTHER -> doc

Converted(number) ==
    LET convert[doc \in Docs[MaxDepth]] == ConvertedFrom(number, convert, doc) IN convert

ConvertToMap(doc) == Converted([text \in DOMAIN Canonical |-> ConvertNumber(text)])[doc]

\* The YAML library makes numbers of what is written.
YamlNumber(text) == Primitive(IF IsWhole(text) THEN "integer" ELSE "number", Canonical[text])
YamlValue(doc) == Converted([text \in DOMAIN Canonical |-> YamlNumber(text)])[doc]

-----------------------------------------------------------------------------
(* Archives and records *)

ASSUME BufferAssumption == BufferSize \in Nat \ {0}

\* Each read fills the front of the buffer, and the whole buffer is appended.
AppendBuffer(read, chunk) ==
    LET buffer == chunk \o SubSeq(read.buffer, Len(chunk) + 1, BufferSize)
    IN  [buffer |-> buffer, content |-> read.content \o buffer]

\* chunks: what the reads give, file by file.
ZipContent(chunks) ==
    LET empty == [buffer |-> [i \in 1..BufferSize |-> "zero"], content |-> <<>>]
        read[k \in 0..Len(chunks)] == IF k = 0 THEN empty ELSE AppendBuffer(read[k - 1], chunks[k])
    IN  read[Len(chunks)].content

\* Every record has as many fields as the first.
CsvFails(records) == \E i \in DOMAIN records : Len(records[i]) # Len(records[1])

CsvLine(record) ==
    FoldLeft(LAMBDA line, field : line \o <<",">> \o field, Head(record), Tail(record)) \o <<"newline">>

CsvContent(records) == FlattenSeq([i \in DOMAIN records |-> CsvLine(records[i])])

-----------------------------------------------------------------------------
(* Forms.  enc says how the properties are written, where that is declared.      *)

PropertyAs(name, s, enc) ==
    LET method == IF name \in DOMAIN enc THEN enc[name] ELSE [style |-> "form", explode |-> TRUE]
    IN  [in |-> "query", name |-> name, required |-> FALSE, schema |-> s,
         style |-> method.style, explode |-> method.explode]

\* No objects among the properties, and arrays of primitive items only.
FormSupports(s) ==
    /\ TypeOf(s) = "object"
    /\ \A n \in DOMAIN s.props :
        /\ TypeOf(s.props[n]) # "object"
        /\ TypeOf(s.props[n]) = "array" => IsPrimitive(s.props[n].items)

\* What a form, a function from names to texts, shows of a property.
FormWire(form, n) ==
    [values |-> IF n \in DOMAIN form THEN form[n] ELSE <<>>,
     others |-> [k \in {<<m>> : m \in DOMAIN form \ {n}} |-> form[k[1]]]]

\* An error or a panic, of which one comes first in the order of a map.
Either == [value |-> Nil, err |-> "either"]

\* Each property of the schema gets a value, nil if it is not there.
FormObject(r) ==
    LET errs == {r[n].err : n \in DOMAIN r} \ {"none"}
    IN  CASE errs = {} -> Ok(Object([n \in DOMAIN r |-> r[n].value]))
          [] errs = {"error"} -> Bad
          [] errs = {"panic"} -> Panic
          [] OTHER -> Either

UrlencodedBody(data, s, enc) ==
    IF ~FormSupports(s) \/ data.kind # "form" THEN Bad
    ELSE FormObject([n \in DOMAIN s.props |-> DecodeValue(PropertyAs(n, s.props[n], enc), FormWire(data.form, n))])

-----------------------------------------------------------------------------
(* Multipart *)

\* An object that says something of additional properties: any, none, or a schema.
ObjectAnd(f, extra, more) == [ObjectOf(f) EXCEPT !.extra = extra] @@ [more |-> more]

More(s) == IF s.extra = "schema" /\ TypeOf(s.more) = "object" THEN s.more.props ELSE <<>>

IsDeclared(n, s) == n \in DOMAIN s.props \cup DOMAIN More(s)

\* A part that is not declared, where any are allowed, is not decoded.
Skipped(n, s) == n \notin DOMAIN s.props /\ s.extra = "any"

\* A part of a property that is an array has the type of its items.
PartSchema(n, s) ==
    LET p == IF n \in DOMAIN s.props THEN s.props[n] ELSE More(s)[n]
    IN  IF TypeOf(p) = "array" THEN p.items ELSE p

\* Mutant: an array takes the first part of its name only.
Collected_First(values, p) == IF TypeOf(p) = "array" THEN Array(<<values[1]>>) ELSE values[1]

\* The parts of a name: all of them for an array, else the first.
Collected(values, p) == IF TypeOf(p) = "array" THEN Array(values) ELSE values[1]

\* The parts that are decoded.
Taken(data, s) == SelectSeq(data.parts, LAMBDA x : ~Skipped(x.name, s))
MultipartSupports(data, s) == TypeOf(s) = "object" /\ data.kind = "parts"

\* r: what decoding gives for each of parts, which ends at the first that fails.
MultipartBody(parts, r, s) ==
    LET all == More(s) @@ s.props
        valuesOf(n) == LET of == SelectSeq([i \in DOMAIN parts |-> <<parts[i].name, r[i].value>>],
                                           LAMBDA x : x[1] = n)
                       IN  [i \in DOMAIN of |-> of[i][2]]
        failing == {i \in DOMAIN r : r[i].err # "none"}
    IN  IF failing # {} THEN r[Min(failing)]
        ELSE Ok(Object([n \in {m \in DOMAIN all : valuesOf(m) # <<>>} |-> Collected(valuesOf(n), all[n])]))

-----------------------------------------------------------------------------
(* decodeBody *)

\* A part without a type is text; a body without one has no decoder.
MediaType(b) ==
    ParseMediaType(IF b.type = <<>> /\ b.part THEN <<"text/plain">> ELSE b.type)

\* Of every type but multipart/form-data.
DecodeSingle(b, s, enc) ==
    LET media == MediaType(b)
        data == b.data
        Is(types) == \E t \in types : media = <<t>>
    IN  CASE Is(JsonTypes) -> IF data.kind = "document" THEN Ok(ConvertToMap(data.doc)) ELSE Bad
          [] Is(YamlTypes) -> IF data.kind = "document" THEN Ok(YamlValue(data.doc)) ELSE Bad
          [] Is(TextTypes) -> Text(IF data.kind = "text" THEN data.text ELSE <<data.kind>>)
          [] Is({"application/zip"}) ->
                IF data.kind = "archive" THEN Text(ZipContent(FlattenSeq(data.files))) ELSE Bad
          [] Is({"text/csv"}) ->
                IF data.kind = "records" /\ ~CsvFails(data.records) THEN Text(CsvContent(data.records)) ELSE Bad
          [] Is({"application/x-www-form-urlencoded"}) -> UrlencodedBody(data, s, enc)
          [] ~Is(Registered) -> Bad

\* What the validation may be told of a body.  fits: whether its value fits the schema.
Judged(r, fits) ==
    CASE r.err = "none" -> {IF fits THEN "fits" ELSE "misfits"}
      [] r.err = "error" -> {"undecodable"}
      [] r.err = "panic" -> {"panics"}
      [] OTHER -> {"undecodable", "panics"}
=============================================================================
