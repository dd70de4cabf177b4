----------------------------- MODULE BodyMeaning -----------------------------
(***************************************************************************)
(* What a body says, whatever is decoded of it: the numbers of a document  *)
(* as they are written, the bytes of an archive as they were packed, the   *)
(* properties of a form as OpenAPI writes them.  This is what the decoders *)
(* of BodyDecoding are held against.                                       *)
(***************************************************************************)
EXTENDS BodyDecoding, Serialization

\* No number of the document is whole and written with a fraction or an exponent:
\* whole ones written plainly would make the same document.
PlainNumeral(text) == Numeral(IF IsWhole(text) THEN Canonical[text] ELSE text)
HasPlainNumbers(doc) == Converted([text \in DOMAIN Canonical |-> PlainNumeral(text)])[doc] = doc

\* Each block of the text that was compared begins with what one read gave.
BlocksHold(text, chunks) ==
    /\ Len(text) = BufferSize * Len(chunks)
    /\ \A i \in DOMAIN chunks : IsPrefix(chunks[i], SubSeq(text, BufferSize * (i - 1) + 1, BufferSize * i))

-----------------------------------------------------------------------------
(* Forms *)

Form(texts) == [kind |-> "form", form |-> texts]

\* The texts of a form, of names that are tokens.  s: the schema of the body, of which
\* each property is written in one of the ways that OpenAPI has for a query.
IsForm(texts, s, enc, Token) ==
    /\ FormSupports(s) /\ DOMAIN texts \subseteq Token /\ texts \in [DOMAIN texts -> Seq(Seq(Token))]
    /\ \A n \in DOMAIN s.props : IsWritten(PropertyAs(n, s.props[n], enc), Token)

\* Each property is nothing, or the whole of what the form shows for it.
IsWholeForm(texts, s, enc, value, Token) ==
    /\ value.kind = "object" /\ DOMAIN value.props = DOMAIN s.props
    /\ \A n \in DOMAIN s.props :
        \/ IsNothing(value.props[n])
        \/ IsWholeValue(PropertyAs(n, s.props[n], enc), FormWire(texts, n), value.props[n], Token)

\* The form shows for each property of the schema a value that is told apart, as OpenAPI
\* writes it.
ShowsProperties(texts, s, enc, values, Token) ==
    /\ values = [n \in DOMAIN s.props |-> values[n]]
    /\ \A n \in DOMAIN s.props :
        LET p == PropertyAs(n, s.props[n], enc)
        IN  /\ IsPlainValue(p, values[n], Token) /\ Supported(p, Shape(values[n]))
            /\ \E x \in Serializations(p, values[n]) : FormWire(texts, n).values = x.values
=============================================================================
