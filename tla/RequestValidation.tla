-------------------------- MODULE RequestValidation --------------------------
(***************************************************************************)
(* ValidateRequest (internal/platform/validator/validate_request.go) with  *)
(* the options openapiWafHandler gives it: MultiError, SkipSettingDefaults *)
(* and ExcludeRequestBody are off, and the authentication function is the  *)
(* one of openapi.go.                                                      *)
(*                                                                         *)
(* An operation of the API specification is reduced to its security        *)
(* requirements, its parameters and its body; a request to what it shows   *)
(* for each of them.  The decoding of values and the test of a value       *)
(* against a schema are facts of the request (fields shown and body).      *)
(***************************************************************************)
EXTENDS Naturals, Sequences, FiniteSets, SequencesExt

CONSTANTS
    Schemes,       \* names of security schemes, as numbers in the order of the names
    Names,         \* names of parameters
    Operations     \* operations of the specification, each with a request for it

SchemeTypes == {"basic", "bearer", "digest", "oauth2", "apiKey", "undeclared"}

\* A parameter has a schema, or content with one, or neither; the default of its
\* schema fits that schema or does not.
Parameters == [in : {"path", "query", "header", "cookie"}, name : Names,
               kind : {"schema", "content", "none"}, required : BOOLEAN,
               allowEmpty : BOOLEAN, default : {"none", "fits", "misfits"}]

\* A body the operation declares: its content types are none, or one of them is
\* the request's, or none is; that one has a schema or not.
Bodies == [required : BOOLEAN, content : {"none", "matches", "differs"}, schema : BOOLEAN]
NoBody == [required |-> FALSE, content |-> "none", schema |-> FALSE]

\* What the decoder makes of a parameter: whether it is found, and its value.  An
\* array or an object that is not there, or is empty, comes as a nil slice or map,
\* "typed_nil", which is not equal to nil; an object of an exploded form has a
\* value also when none of its properties is found.
Shown == [found : BOOLEAN, value : {"panics", "undecodable", "nil", "typed_nil", "fits", "misfits"}]

\* The body: omits says that it fits but leaves out a property with a default,
\* json that its media type is application/json.
Data == [value : {"unreadable", "absent", "empty", "panics", "undecodable", "misfits", "fits"},
         omits : BOOLEAN, json : BOOLEAN]

\* type: the schemes' types; oauth: an OAuth validator is configured; inherits:
\* the operation has no requirements of its own and the specification's hold;
\* path: the parameters of its path item; creds: the schemes whose credentials
\* the request shows, and the validator accepts; shown, data: the request.  A list
\* has no two parameters of one place and name: the specification was validated
\* when the router was made of it.
ASSUME OperationAssumption ==
    /\ Schemes \subseteq Nat
    /\ \A o \in Operations :
        /\ o.type \in [Schemes -> SchemeTypes]
        /\ {o.oauth, o.inherits, o.declaresBody} \subseteq BOOLEAN
        /\ {o.security, o.global} \subseteq Seq(SUBSET Schemes)
        /\ {o.path, o.params} \subseteq Seq(Parameters)
        /\ o.body \in Bodies
        /\ o.creds \subseteq Schemes
        /\ o.data \in Data
        /\ \A s \in {o.path, o.params} : \A k \in DOMAIN s :
              LET v == o.shown[<<s[k].in, s[k].name>>]
              IN  v \in Shown /\ (s[k].kind = "content" /\ ~v.found => v.value \in {"nil", "undecodable"})
        /\ \A s \in {o.path, o.params} : \A j, k \in DOMAIN s :
              s[j].in = s[k].in /\ s[j].name = s[k].name => j = k

VARIABLES
    op,         \* the operation and the request
    pc,         \* "security", "path", "params", "body" or "done"
    pos,        \* the requirement or parameter at hand
    todo,       \* the schemes of the requirement not yet asked
    asked,      \* history: the schemes the authentication function was called for
    written,    \* the parameters whose default was written into the request
    body,       \* the request's body: "original", "restored" or "rewritten"
    result      \* "none", "valid", the error: "security", "parameter", "body", or "panic"

vars == <<op, pc, pos, todo, asked, written, body, result>>

Requirements == IF op.inherits THEN op.global ELSE op.security

\* What the code starts with: the schemes of the first requirement.
FirstSchemes == IF Requirements = <<>> THEN {} ELSE Requirements[1]

\* validateSecurityRequirement asks the schemes in the order of their names.
NextScheme(s) == pc = "security" /\ s \in todo /\ \A t \in todo : s <= t

Init ==
    /\ op \in Operations
    /\ pc = "security" /\ pos = 1
    /\ todo = FirstSchemes
    /\ asked = {} /\ written = {}
    /\ body = "original" /\ result = "none"

-----------------------------------------------------------------------------
(* ValidateSecurityRequirements *)

\* The authentication function: for Basic and Bearer and API keys whether the
\* credential is there, for OAuth what the validator says; for any other HTTP
\* scheme nothing.
Authenticates(s) ==
    CASE op.type[s] = "digest" -> TRUE
      [] op.type[s] = "oauth2" -> op.oauth /\ s \in op.creds
      [] op.type[s] = "undeclared" -> FALSE
      [] OTHER -> s \in op.creds

Ask(s) == asked' = IF op.type[s] = "undeclared" THEN asked ELSE asked \cup {s}

SchemePasses(s) ==
    /\ NextScheme(s) /\ Authenticates(s)
    /\ Ask(s)
    /\ todo' = todo \ {s}
    /\ UNCHANGED <<op, pc, pos, written, body, result>>

\* Mutant: a failed scheme leaves the others of its requirement to decide.
SchemeFails_Skipped(s) ==
    /\ NextScheme(s) /\ ~Authenticates(s)
    /\ Ask(s)
    /\ IF todo = {s} /\ pos = Len(Requirements)
       THEN /\ result' = "security" /\ pc' = "done"
            /\ UNCHANGED <<pos, todo>>
       ELSE /\ todo' = IF todo # {s} THEN todo \ {s} ELSE Requirements[pos + 1]
            /\ pos' = IF todo # {s} THEN pos ELSE pos + 1
            /\ UNCHANGED <<pc, result>>
    /\ UNCHANGED <<op, written, body>>

\* A scheme fails or is not declared: the next requirement, or the error.
SchemeFails(s) ==
    /\ NextScheme(s) /\ ~Authenticates(s)
    /\ Ask(s)
    /\ IF pos = Len(Requirements)
       THEN /\ result' = "security" /\ pc' = "done"
            /\ UNCHANGED <<pos, todo>>
       ELSE /\ pos' = pos + 1
            /\ todo' = Requirements[pos + 1]
            /\ UNCHANGED <<pc, result>>
    /\ UNCHANGED <<op, written, body>>

\* Mutant: every requirement has to be met.
RequirementMet_All ==
    /\ pc = "security" /\ todo = {}
    /\ IF pos < Len(Requirements)
       THEN pos' = pos + 1 /\ todo' = Requirements[pos + 1] /\ UNCHANGED pc
       ELSE pos' = 1 /\ pc' = "path" /\ UNCHANGED todo
    /\ UNCHANGED <<op, asked, written, body, result>>

\* The first requirement that is met decides; an empty one is, and no
\* requirements at all are too.
RequirementMet ==
    /\ pc = "security" /\ todo = {}
    /\ pc' = "path" /\ pos' = 1
    /\ UNCHANGED <<op, todo, asked, written, body, result>>

-----------------------------------------------------------------------------
(* ValidateParameter *)

ShownFor(p) == op.shown[<<p.in, p.name>>]

IsNil(p) == ShownFor(p).value \in {"nil", "typed_nil"}

\* The default stands in for a nil that has no type; of a parameter with content
\* the schema is not known unless the parameter is there.
TakesDefault(p) ==
    /\ p.default # "none" /\ ShownFor(p).value = "nil"
    /\ p.kind = "schema" \/ ShownFor(p).found

\* It is written into the request, unless the parameter is in the path.
WritesDefault(p) == p.kind # "none" /\ TakesDefault(p) /\ p.in # "path"

\* The value cannot be decoded or does not fit; it is required and not there, even
\* with a default; it is nil though there; or the default taken does not fit.
ParameterFails(p) ==
    /\ p.kind # "none"
    /\ \/ ShownFor(p).value \in {"undecodable", "misfits"}
       \/ p.required /\ ~ShownFor(p).found
       \/ ~p.allowEmpty /\ ShownFor(p).found /\ IsNil(p) /\ ~TakesDefault(p)
       \/ p.default = "misfits" /\ TakesDefault(p)

\* parsePrimitive panics for a schema inside that is not of a primitive type.
ParameterPanics(p) == p.kind # "none" /\ ShownFor(p).value = "panics"

ValidateParameter(p) ==
    /\ written' = IF WritesDefault(p) THEN written \cup {p} ELSE written
    /\ IF ParameterFails(p) \/ ParameterPanics(p)
       THEN /\ result' = IF ParameterPanics(p) THEN "panic" ELSE "parameter"
            /\ pc' = "done" /\ UNCHANGED pos
       ELSE pos' = pos + 1 /\ UNCHANGED <<pc, result>>
    /\ UNCHANGED <<op, todo, asked, body>>

\* Mutant: a parameter of the same name replaces it, wherever it is.
Overridden_ByName(p) == \E k \in DOMAIN op.params : op.params[k].name = p.name

\* Mutant: the parameters of the path hold whatever the operation says.
Overridden_Never(p) == FALSE

\* An operation's parameter replaces the path's of the same place and name.
Overridden(p) ==
    \E k \in DOMAIN op.params : op.params[k].in = p.in /\ op.params[k].name = p.name

PathParameter ==
    /\ pc = "path" /\ pos <= Len(op.path) /\ ~Overridden(op.path[pos])
    /\ ValidateParameter(op.path[pos])

PathParameterOverridden ==
    /\ pc = "path" /\ pos <= Len(op.path) /\ Overridden(op.path[pos])
    /\ pos' = pos + 1
    /\ UNCHANGED <<op, pc, todo, asked, written, body, result>>

PathParametersEnd ==
    /\ pc = "path" /\ pos > Len(op.path)
    /\ pc' = "params" /\ pos' = 1
    /\ UNCHANGED <<op, todo, asked, written, body, result>>

OperationParameter ==
    /\ pc = "params" /\ pos <= Len(op.params)
    /\ ValidateParameter(op.params[pos])

OperationParametersEnd ==
    /\ pc = "params" /\ pos > Len(op.params)
    /\ pc' = "body"
    /\ UNCHANGED <<op, pos, todo, asked, written, body, result>>

-----------------------------------------------------------------------------
(* ValidateRequestBody *)

Fail == result' = "body" /\ pc' = "done" /\ UNCHANGED <<op, pos, todo, asked, written>>
Pass == result' = "valid" /\ pc' = "done" /\ UNCHANGED <<op, pos, todo, asked, written>>

NotDeclared ==
    /\ pc = "body" /\ ~op.declaresBody
    /\ Pass /\ UNCHANGED body

\* Reading fails, as a compressed body that is cut short does.
ReadFails ==
    /\ pc = "body" /\ op.declaresBody /\ op.data.value = "unreadable"
    /\ Fail /\ UNCHANGED body

\* What was read is put back, so that the body can be read again.
Read == /\ pc = "body" /\ op.declaresBody
        /\ op.data.value \notin {"unreadable", "absent"}

Empty ==
    /\ pc = "body" /\ op.declaresBody /\ op.data.value \in {"absent", "empty"}
    /\ IF op.body.required THEN Fail ELSE Pass
    /\ body' = IF op.data.value = "absent" THEN body ELSE "restored"

HasData == Read /\ op.data.value # "empty"

\* No content is declared, or its type has no schema: nothing to compare with.
Unspecified ==
    /\ HasData
    /\ op.body.content = "none" \/ (op.body.content = "matches" /\ ~op.body.schema)
    /\ Pass /\ body' = "restored"

UnexpectedType ==
    /\ HasData /\ op.body.content = "differs"
    /\ Fail /\ body' = "restored"

Specified == HasData /\ op.body.content = "matches" /\ op.body.schema

\* decodeBody fails, or the value does not fit.
Misfits ==
    /\ Specified /\ op.data.value \in {"undecodable", "misfits"}
    /\ Fail /\ body' = "restored"

\* decodeBody panics, as for parameters, in the values of a form.
DecodingPanics ==
    /\ Specified /\ op.data.value = "panics"
    /\ result' = "panic" /\ pc' = "done" /\ body' = "restored"
    /\ UNCHANGED <<op, pos, todo, asked, written>>

Fits ==
    /\ Specified /\ op.data.value = "fits" /\ ~op.data.omits
    /\ Pass /\ body' = "restored"

\* Defaults were set in the value; encodeBody knows application/json only.
Rewrite ==
    /\ Specified /\ op.data.value = "fits" /\ op.data.omits /\ op.data.json
    /\ Pass /\ body' = "rewritten"

RewriteFails ==
    /\ Specified /\ op.data.value = "fits" /\ op.data.omits /\ ~op.data.json
    /\ Fail /\ body' = "restored"

ValidateRequestBody ==
    \/ NotDeclared \/ ReadFails \/ Empty \/ Unspecified \/ UnexpectedType
    \/ Misfits \/ DecodingPanics \/ Fits \/ Rewrite \/ RewriteFails

Next ==
    \/ \E s \in Schemes : SchemePasses(s) \/ SchemeFails(s)
    \/ RequirementMet
    \/ PathParameter \/ PathParameterOverridden \/ PathParametersEnd
    \/ OperationParameter \/ OperationParametersEnd
    \/ ValidateRequestBody

Spec == Init /\ [][Next]_vars

-----------------------------------------------------------------------------
(* Properties *)

TypeOK ==
    /\ pc \in {"security", "path", "params", "body", "done"}
    /\ pos \in 1..(1 + Len(Requirements) + Len(op.path) + Len(op.params))
    /\ todo \subseteq Schemes
    /\ asked \subseteq Schemes
    /\ written \subseteq Parameters
    /\ body \in {"original", "restored", "rewritten"}
    /\ result \in {"none", "valid", "security", "parameter", "panic", "body"}
    /\ result # "none" <=> pc = "done"

\* What OpenAPI asks of the request, without the order of the code: one of the
\* requirements, each of its schemes; the parameters of the operation and those of
\* the path it does not redefine; and the body.
Authorized ==
    \/ Requirements = <<>>
    \/ \E r \in Range(Requirements) : \A s \in r : Authenticates(s)

Declared ==
    LET own == Range(op.params)
    IN  own \cup {p \in Range(op.path) : <<p.in, p.name>> \notin {<<q.in, q.name>> : q \in own}}

\* A parameter that is there has a value that fits, or none where an empty one is
\* allowed or a default stands in; one that is not there is not required.
Acceptable(p) ==
    LET v == ShownFor(p)
    IN  \/ p.kind = "none"
        \/ /\ v.found \/ ~p.required
           /\ \/ v.value = "fits"
              \/ IsNil(p) /\ (~v.found \/ p.allowEmpty)
              \/ v.value = "nil" /\ p.default = "fits"

Described == op.body.content # "none" /\ (op.body.content = "matches" => op.body.schema)

AcceptableBody ==
    op.declaresBody =>
        IF op.data.value \in {"absent", "empty"} THEN ~op.body.required
        ELSE /\ op.data.value # "unreadable"
             /\ Described => op.body.content = "matches" /\ op.data.value = "fits"

\* A request that passes satisfies its whole declaration: no requirement of which
\* one scheme fails let it in, no parameter was skipped for another of its name,
\* and no body passed unread.
AcceptedIsAllowed ==
    result = "valid" =>
        Authorized /\ (\A p \in Declared : Acceptable(p)) /\ AcceptableBody

\* A request is refused by the first part that it fails: not for its credentials
\* if one requirement is met, for a parameter only with its credentials in order
\* and if a declared one is at fault, for its body only with both in order; a panic
\* is of the one or of the other.
FirstFailureDecides ==
    /\ result = "security" => ~Authorized
    /\ result \in {"parameter", "panic", "body"} => Authorized
    /\ result = "parameter" =>
          \E p \in Declared : ~Acceptable(p) \/ (IsNil(p) /\ p.default = "misfits")
    /\ result = "body" => \A p \in Declared : Acceptable(p)
    /\ result = "panic" =>
          \/ \E p \in Declared : ShownFor(p).value = "panics"
          \/ op.declaresBody /\ op.data.value = "panics" /\ \A p \in Declared : Acceptable(p)

\* A scheme is asked (and with it an OAuth provider) only if it can decide: in
\* one requirement of those before and at the first that is met, where the
\* schemes with lesser names pass.
AskedOnlyIfItDecides ==
    \A s \in asked : \E k \in DOMAIN Requirements :
        /\ s \in Requirements[k]
        /\ \A t \in Requirements[k] : t < s => Authenticates(t)
        /\ \A j \in 1..(k - 1) : \E t \in Requirements[j] : ~Authenticates(t)

\* A default is written only for a parameter that holds for the operation and
\* that the request does not show, and for no parameter twice.
DefaultsFillGaps ==
    /\ written \subseteq {p \in Declared : ShownFor(p).value = "nil"}
    /\ \A p, q \in written : p.in = q.in /\ p.name = q.name => p = q

-----------------------------------------------------------------------------
(* What the comments say, and the code does not do *)

\* The comment of ValidateRequestBody: an error "when a value is required but not
\* defined" or "invalid by JSON schema".  A body that fits is also refused if a
\* default was set in it and its type is not application/json.
FittingBodyPasses ==
    result = "body" => ~AcceptableBody
=============================================================================
