-------------------------- MODULE ResponseValidation --------------------------
(***************************************************************************)
(* ValidateResponse (internal/platform/validator/validate_response.go)     *)
(* with the options openapiWafHandler gives it: IncludeResponseStatus is   *)
(* on, ExcludeResponseBody and MultiError are off.                         *)
(*                                                                         *)
(* Declarations: what an operation says of its responses, and a response   *)
(* to it.  Decoding and the test against a schema are facts of the         *)
(* response.  The loader of the specification resolves every reference, so *)
(* a declared response always has a value.                                 *)
(***************************************************************************)
EXTENDS Naturals, FiniteSets

CONSTANTS
    Headers,        \* names of headers, as numbers in the order of the names
    Declarations    \* operations' responses, each with a response

ContentType == 0    \* the name of the header Content-Type

\* A response object: which headers it declares, which of them it requires, and
\* its content: none, or with the response's type in it or not, and a schema.
Objects == [headers : SUBSET Headers, required : SUBSET Headers,
            content : {"none", "matches", "differs"}, schema : BOOLEAN]

\* A header of the response: whether it is found, and its value.
\* Decoding panics for a schema inside that is not of a primitive type, and for the
\* header that is declared by content, which has none.
Shown == [found : BOOLEAN, value : {"panics", "undecodable", "misfits", "fits"}]

Body == {"unreadable", "panics", "undecodable", "misfits", "fits"}

\* head: the method is HEAD; exempt: the status is 301, 304, 307 or 308;
\* keys: what the operation declares, by the status itself, by "default", or for
\* other statuses; object: what it declares for the first two.
ASSUME DeclarationAssumption ==
    /\ Headers \subseteq Nat
    /\ \A d \in Declarations :
        /\ {d.head, d.exempt} \subseteq BOOLEAN
        /\ d.keys \subseteq {"status", "default", "other"}
        /\ d.object \in [{"status", "default"} -> Objects]
        /\ d.shown \in [Headers -> Shown]
        /\ d.body \in Body

VARIABLES
    decl,       \* the declaration and the response
    pc,         \* "start", "headers", "content", "body" or "done"
    use,        \* the declared response in use: "none", "status" or "default"
    todo,       \* its headers not looked at yet
    input,      \* input.Body: "original", "nil" or "restored"
    result      \* "none", "valid", the error: "status", "header" or "body", or "panic"

vars == <<decl, pc, use, todo, input, result>>

Init ==
    /\ decl \in Declarations
    /\ pc = "start" /\ use = "none" /\ todo = {}
    /\ input = "original" /\ result = "none"

End(r) == result' = r /\ pc' = "done"

-----------------------------------------------------------------------------
(* The status *)

\* HEAD and some statuses are not validated, nor is anything without responses.
Skips ==
    /\ pc = "start" /\ (decl.head \/ decl.exempt \/ decl.keys = {})
    /\ End("valid") /\ UNCHANGED <<decl, use, todo, input>>

Validated == pc = "start" /\ ~decl.head /\ ~decl.exempt /\ decl.keys # {}

Undocumented ==
    /\ Validated /\ decl.keys = {"other"}
    /\ End("status") /\ UNCHANGED <<decl, use, todo, input>>

\* Mutant: the default is looked up first.
Chosen_DefaultFirst == IF "default" \in decl.keys THEN "default" ELSE "status"

\* The response declared for the status, else the default.
Chosen == IF "status" \in decl.keys THEN "status" ELSE "default"

\* Its headers, without Content-Type, are gone through in the order of their names.
Choose ==
    /\ Validated /\ decl.keys # {"other"}
    /\ use' = Chosen
    /\ todo' = decl.object[Chosen].headers \ {ContentType}
    /\ pc' = "headers"
    /\ UNCHANGED <<decl, input, result>>

-----------------------------------------------------------------------------
(* validateResponseHeader *)

Object == decl.object[use]

Panics(h) == decl.shown[h].value = "panics"

\* It cannot be decoded, also one that is not found; it is found and does not
\* fit; or it is required and not found.
HeaderFails(h) ==
    LET v == decl.shown[h]
    IN  /\ ~Panics(h)
        /\ \/ v.value = "undecodable"
           \/ v.found /\ v.value = "misfits"
           \/ ~v.found /\ h \in Object.required

InOrder(h) == ~HeaderFails(h) /\ ~Panics(h)

NextHeader(h) == pc = "headers" /\ h \in todo /\ \A g \in todo : h <= g

\* Mutant: a header that passes ends the loop.
HeaderPasses_Ends(h) ==
    /\ NextHeader(h) /\ InOrder(h)
    /\ todo' = {}
    /\ UNCHANGED <<decl, pc, use, input, result>>

HeaderPasses(h) ==
    /\ NextHeader(h) /\ InOrder(h)
    /\ todo' = todo \ {h}
    /\ UNCHANGED <<decl, pc, use, input, result>>

HeaderRefused(h) ==
    /\ NextHeader(h) /\ HeaderFails(h)
    /\ End("header") /\ UNCHANGED <<decl, use, todo, input>>

HeaderPanics(h) ==
    /\ NextHeader(h) /\ Panics(h)
    /\ End("panic") /\ UNCHANGED <<decl, use, todo, input>>

HeadersEnd ==
    /\ pc = "headers" /\ todo = {}
    /\ pc' = "content"
    /\ UNCHANGED <<decl, use, todo, input, result>>

-----------------------------------------------------------------------------
(* The body *)

\* No content, or its type has no schema: the body is not looked at.
Unspecified ==
    /\ pc = "content"
    /\ Object.content = "none" \/ (Object.content = "matches" /\ ~Object.schema)
    /\ End("valid") /\ UNCHANGED <<decl, use, todo, input>>

UnexpectedType ==
    /\ pc = "content" /\ Object.content = "differs"
    /\ End("body") /\ UNCHANGED <<decl, use, todo, input>>

\* The body is taken from the input while it is read...
TakeBody ==
    /\ pc = "content" /\ Object.content = "matches" /\ Object.schema
    /\ input' = "nil" /\ pc' = "body"
    /\ UNCHANGED <<decl, use, todo, result>>

ReadFails ==
    /\ pc = "body" /\ decl.body = "unreadable"
    /\ End("body") /\ UNCHANGED <<decl, use, todo, input>>

\* Mutant: what was read is not put back.
Decode_NotRestored ==
    /\ pc = "body" /\ decl.body \notin {"unreadable", "panics"}
    /\ End(IF decl.body = "fits" THEN "valid" ELSE "body")
    /\ UNCHANGED <<decl, use, todo, input>>

\* ... and what was read is put back before it is decoded and compared.
Decode ==
    /\ pc = "body" /\ decl.body \notin {"unreadable", "panics"}
    /\ End(IF decl.body = "fits" THEN "valid" ELSE "body")
    /\ input' = "restored"
    /\ UNCHANGED <<decl, use, todo>>

DecodingPanics ==
    /\ pc = "body" /\ decl.body = "panics"
    /\ End("panic") /\ input' = "restored"
    /\ UNCHANGED <<decl, use, todo>>

Next ==
    \/ Skips \/ Undocumented \/ Choose
    \/ \E h \in Headers : HeaderPasses(h) \/ HeaderRefused(h) \/ HeaderPanics(h)
    \/ HeadersEnd
    \/ Unspecified \/ UnexpectedType \/ TakeBody \/ ReadFails
    \/ Decode \/ DecodingPanics

Spec == Init /\ [][Next]_vars

-----------------------------------------------------------------------------
(* Properties *)

TypeOK ==
    /\ pc \in {"start", "headers", "content", "body", "done"}
    /\ use \in {"none", "status", "default"}
    /\ todo \subseteq Headers \ {ContentType}
    /\ input \in {"original", "nil", "restored"}
    /\ result \in {"none", "valid", "status", "header", "body", "panic"}
    /\ input = "nil" => pc = "body" \/ (result = "body" /\ decl.body = "unreadable")

\* What OpenAPI asks of a response, without the order of the code, given the
\* object that is declared for it.
Conforms(o) ==
    /\ \A h \in o.headers \ {ContentType} :
          decl.shown[h].value \notin {"undecodable", "panics"}
          /\ IF decl.shown[h].found THEN decl.shown[h].value = "fits" ELSE h \notin o.required
    /\ o.content # "differs"
    /\ o.content = "matches" /\ o.schema => decl.body = "fits"

\* A response passes exactly when it is exempt or conforms to what is declared for
\* its status, or by default for lack of that: a default that is less strict does
\* not let it pass, nor does one that is stricter refuse it.
PassesIfItConforms ==
    pc = "done" =>
        (result = "valid" <=>
            \/ decl.head \/ decl.exempt \/ decl.keys = {}
            \/ "status" \in decl.keys /\ Conforms(decl.object["status"])
            \/ /\ "default" \in decl.keys /\ "status" \notin decl.keys
               /\ Conforms(decl.object["default"]))

\* The body is blamed only when the status is documented and no header is at fault.
BodyIsBlamedLast ==
    result = "body" =>
        /\ decl.keys \cap {"status", "default"} # {}
        /\ \A h \in Object.headers \ {ContentType} : InOrder(h)
=============================================================================
