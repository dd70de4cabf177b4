------------------------ MODULE RequestValidationProofs ------------------------
(***************************************************************************)
(* What ValidateRequest accepts satisfies the whole declaration, and what  *)
(* it refuses is refused by the first part that fails, for any number of   *)
(* schemes, requirements and parameters; and what the decoders make of a   *)
(* parameter or a body is what the request carries for it, for texts of    *)
(* any length and schemas composed to any depth.                           *)
(*                                                                         *)
(* The first part is about the validation.  The properties compare the     *)
(* result with the declaration as a whole; what carries the induction is   *)
(* how far each loop has come: the requirements before pos are not met and *)
(* the schemes that left todo pass (Securing), the parameters before pos   *)
(* that hold are in order (InOrder).                                       *)
(*                                                                         *)
(* The second part is about the decoders of ParameterDecoding, as          *)
(* operators.  strings.Split and the joining of texts undo each other, by  *)
(* induction over positions; decodeValue and parseValue are functions that *)
(* satisfy the equations they are defined by, by induction over what       *)
(* schemas are composed of.  From these, what is written is decoded, and   *)
(* what is decoded is all that was written.                                *)
(*                                                                         *)
(* The third part says what this means for the requests that pass.         *)
(*                                                                         *)
(* The last part is about the decoders of BodyDecoding that do not call    *)
(* each other: documents of numbers and their conversion, by induction     *)
(* over how deep they are; archives, by induction over the reads; forms,   *)
(* by what the second part says of a parameter.                            *)
(***************************************************************************)
EXTENDS RequestValidation, BodyMeaning, WellFoundedInduction, SequenceTheorems,
        FiniteSetTheorems, TLAPS

MetSoFar(r, left) == \A s \in r : s \in left \/ Authenticates(s)

Securing ==
    pc = "security" =>
        /\ Requirements = <<>> => todo = {}
        /\ Requirements # <<>> =>
              /\ pos \in DOMAIN Requirements
              /\ todo \subseteq Requirements[pos]
              /\ MetSoFar(Requirements[pos], todo)
              /\ \A j \in 1..(pos - 1) : \E t \in Requirements[j] : ~Authenticates(t)

\* A parameter that was validated without an error.
Fine(p) == ~ParameterFails(p) /\ ~ParameterPanics(p)

PathFine(n) == \A k \in DOMAIN op.path : k < n => Overridden(op.path[k]) \/ Fine(op.path[k])
ParamsFine(n) == \A k \in DOMAIN op.params : k < n => Fine(op.params[k])

AllFine == PathFine(Len(op.path) + 1) /\ ParamsFine(Len(op.params) + 1)

\* How far the parts after the security requirements have come.
InOrder ==
    /\ pc \notin {"security", "done"} => Authorized
    /\ pc = "path" => pos \in 1..(Len(op.path) + 1) /\ PathFine(pos)
    /\ pc = "params" =>
          pos \in 1..(Len(op.params) + 1) /\ PathFine(Len(op.path) + 1) /\ ParamsFine(pos)
    /\ pc = "body" => AllFine

\* The body is not acceptable, or a default was set in it that cannot be written back.
BodyRefused ==
    \/ ~AcceptableBody
    \/ /\ op.declaresBody /\ op.body.content = "matches" /\ op.body.schema
       /\ op.data.value = "fits" /\ op.data.omits /\ ~op.data.json

\* The decoder panics for the body, which is not acceptable then.
BodyPanics ==
    /\ op.declaresBody /\ op.body.content = "matches" /\ op.body.schema
    /\ op.data.value = "panics"

\* What each result means.
Justified ==
    /\ result = "none" <=> pc # "done"
    /\ result = "security" => ~Authorized
    /\ result = "parameter" => Authorized /\ \E p \in Declared : ~Fine(p)
    /\ result = "panic" =>
          Authorized /\ ((\E p \in Declared : ParameterPanics(p)) \/ (AllFine /\ BodyPanics))
    /\ result = "body" => Authorized /\ AllFine /\ BodyRefused
    /\ result = "valid" => Authorized /\ AllFine /\ ~BodyRefused

\* The parameters whose defaults are written hold and are not shown.
Written == written \subseteq {p \in Declared : ShownFor(p).value = "nil"}

IInv == /\ op \in Operations /\ TypeOK
        /\ Securing /\ InOrder /\ Justified /\ AskedOnlyIfItDecides /\ Written

-----------------------------------------------------------------------------
(* The declaration *)

\* The requirements are sets of schemes, the parameters are parameters.
LEMMA OperationType ==
    ASSUME op \in Operations
    PROVE  /\ Requirements \in Seq(SUBSET Schemes)
           /\ op.path \in Seq(Parameters) /\ op.params \in Seq(Parameters)
           /\ op.body \in Bodies /\ op.data \in Data /\ op.declaresBody \in BOOLEAN
           /\ Len(Requirements) \in Nat /\ Len(op.path) \in Nat /\ Len(op.params) \in Nat
<1>1. /\ Requirements \in Seq(SUBSET Schemes)
      /\ op.path \in Seq(Parameters) /\ op.params \in Seq(Parameters)
      /\ op.body \in Bodies /\ op.data \in Data /\ op.declaresBody \in BOOLEAN
  BY OperationAssumption DEF Requirements
<1>2. \A S, s : s \in Seq(S) => Len(s) \in Nat OBVIOUS
<1> QED BY <1>1, <1>2

\* The parameters of either list hold, those of the path unless overridden.
LEMMA DeclaredMeaning ==
    ASSUME op \in Operations
    PROVE  /\ \A p : p \in Declared <=>
                \/ \E k \in DOMAIN op.params : p = op.params[k]
                \/ \E k \in DOMAIN op.path : p = op.path[k] /\ ~Overridden(p)
           /\ AllFine <=> \A p \in Declared : Fine(p)
<1>1. ASSUME NEW p
      PROVE  p \in Declared <=>
                \/ \E k \in DOMAIN op.params : p = op.params[k]
                \/ \E k \in DOMAIN op.path : p = op.path[k] /\ ~Overridden(p)
  BY DEF Declared, Overridden, Range
<1>2. /\ \A k \in DOMAIN op.path : k < Len(op.path) + 1
      /\ \A k \in DOMAIN op.params : k < Len(op.params) + 1
  BY OperationType
<1>3. AllFine <=> /\ \A k \in DOMAIN op.path : Overridden(op.path[k]) \/ Fine(op.path[k])
                  /\ \A k \in DOMAIN op.params : Fine(op.params[k])
  BY <1>2 DEF AllFine, PathFine, ParamsFine
<1> QED BY <1>1, <1>3

\* What the code tests of a parameter, and what OpenAPI asks of it.
LEMMA FineIsAcceptable ==
    ASSUME op \in Operations, NEW p \in Declared
    PROVE  /\ Fine(p) => Acceptable(p)
           /\ ~Fine(p) => ~Acceptable(p) \/ (IsNil(p) /\ p.default = "misfits")
<1>1. PICK s \in {op.path, op.params} : \E i \in DOMAIN s : p = s[i]
  BY DeclaredMeaning
<1> PICK k \in DOMAIN s : p = s[k] BY <1>1
<1>2. /\ p \in Parameters /\ ShownFor(p) \in Shown
      /\ p.kind = "content" /\ ~ShownFor(p).found => ShownFor(p).value \in {"nil", "undecodable"}
  <2>1. p \in Parameters BY OperationType
  <2>2. LET v == op.shown[<<p.in, p.name>>]
        IN  v \in Shown /\ (p.kind = "content" /\ ~v.found => v.value \in {"nil", "undecodable"})
    BY OperationAssumption
  <2> QED BY <2>1, <2>2 DEF ShownFor
<1>3. /\ p.kind \in {"schema", "content", "none"}
      /\ p.default \in {"none", "fits", "misfits"}
      /\ ShownFor(p).value \in {"panics", "undecodable", "nil", "typed_nil", "fits", "misfits"}
  BY <1>2 DEF Parameters, Shown
<1> QED BY <1>2, <1>3 DEF Fine, ParameterFails, ParameterPanics, TakesDefault, IsNil, Acceptable

\* A body that makes the decoder panic is not acceptable.
LEMMA PanicIsRefused == BodyPanics => BodyRefused
BY DEF BodyPanics, BodyRefused, AcceptableBody, Described

\* A requirement is met when no scheme of it is left.
LEMMA AuthorizedMeaning ==
    Authorized <=> \/ Requirements = <<>>
                   \/ \E k \in DOMAIN Requirements : \A s \in Requirements[k] : Authenticates(s)
BY DEF Authorized, Range

-----------------------------------------------------------------------------
(* The steps *)

\* The bounds of pos in each phase lie within those of its type.
LEMMA PositionBounds ==
    \A a, b, c, i \in Nat :
        1 <= i /\ (i <= a + 1 \/ i <= b + 1 \/ i <= c + 1) => i \in 1..(1 + a + b + c)
OBVIOUS

LEMMA PositionFits ==
    \A a, b, c \in Nat : 1..(b + 1) \cup 1..(c + 1) \subseteq 1..(1 + a + b + c)
OBVIOUS

LEMMA FirstPosition == \A a, b, c \in Nat : 1 \in 1..(1 + a + b + c)
OBVIOUS

\* Everything holds at the start: the first requirement is at hand with all its schemes.
LEMMA InitIInv == Init => IInv
<1> SUFFICES ASSUME Init PROVE IInv OBVIOUS
<1> USE DEF Init
<1>1. Requirements \in Seq(SUBSET Schemes) /\ op.path \in Seq(Parameters) /\ op.params \in Seq(Parameters)
  BY OperationType
<1>2. Requirements # <<>> => 1 \in DOMAIN Requirements BY <1>1
<1>3. todo \subseteq Schemes BY <1>1, <1>2 DEF FirstSchemes
<1>4. TypeOK
  <2>1. pos \in 1..(1 + Len(Requirements) + Len(op.path) + Len(op.params))
    BY OperationType, FirstPosition
  <2> QED BY <1>3, <2>1 DEF TypeOK
<1>5. Securing BY <1>2 DEF Securing, FirstSchemes, MetSoFar
<1>6. InOrder /\ Justified /\ AskedOnlyIfItDecides /\ Written
  BY DEF InOrder, Justified, AskedOnlyIfItDecides, Written
<1> QED BY <1>4, <1>5, <1>6 DEF IInv

\* What depends on the operation only.
LEMMA OperationStays ==
    ASSUME op' = op
    PROVE  /\ Requirements' = Requirements /\ Authorized' = Authorized /\ Declared' = Declared
           /\ AllFine' = AllFine /\ BodyRefused' = BodyRefused /\ BodyPanics' = BodyPanics
           /\ \A s : Authenticates(s)' = Authenticates(s)
           /\ \A p : Fine(p)' = Fine(p) /\ Overridden(p)' = Overridden(p) /\ ShownFor(p)' = ShownFor(p)
           /\ \A p : ParameterPanics(p)' = ParameterPanics(p)
           /\ \A n : PathFine(n)' = PathFine(n) /\ ParamsFine(n)' = ParamsFine(n)
<1>1. Requirements' = Requirements BY DEF Requirements
<1>2. \A s : Authenticates(s)' = Authenticates(s) BY DEF Authenticates
<1>3. \A p : ShownFor(p)' = ShownFor(p) /\ Overridden(p)' = Overridden(p)
  BY DEF ShownFor, Overridden
<1>4. \A p : Fine(p)' = Fine(p) /\ ParameterPanics(p)' = ParameterPanics(p)
  BY <1>3 DEF Fine, ParameterFails, ParameterPanics, TakesDefault, IsNil
<1>5. \A n : PathFine(n)' = PathFine(n) /\ ParamsFine(n)' = ParamsFine(n)
  BY <1>3, <1>4 DEF PathFine, ParamsFine
<1>6. Authorized' = Authorized BY <1>1, <1>2 DEF Authorized
<1>7. Declared' = Declared BY DEF Declared
<1>8. BodyRefused' = BodyRefused /\ BodyPanics' = BodyPanics
  BY DEF BodyRefused, BodyPanics, AcceptableBody, Described
<1>9. AllFine' = AllFine BY <1>5 DEF AllFine
<1> QED BY <1>1, <1>2, <1>3, <1>4, <1>5, <1>6, <1>7, <1>8, <1>9

\* The schemes of a requirement, and the next requirement when one fails.
LEMMA SchemesKeepIInv ==
    ASSUME IInv, NEW s \in Schemes, SchemePasses(s) \/ SchemeFails(s)
    PROVE  IInv'
<1> USE DEF IInv
<1>1. /\ pc = "security" /\ s \in todo /\ \A t \in todo : s <= t
      /\ op' = op /\ written' = written /\ body' = body /\ asked' \subseteq asked \cup {s}
  BY DEF SchemePasses, SchemeFails, NextScheme, Ask
<1>2. /\ pos \in DOMAIN Requirements /\ todo \subseteq Requirements[pos]
      /\ MetSoFar(Requirements[pos], todo)
      /\ \A j \in 1..(pos - 1) : \E t \in Requirements[j] : ~Authenticates(t)
      /\ result = "none"
  BY <1>1 DEF Securing, Justified
<1>3. /\ Requirements \in Seq(SUBSET Schemes) /\ Len(Requirements) \in Nat
      /\ Len(op.path) \in Nat /\ Len(op.params) \in Nat
      /\ DOMAIN Requirements = 1..Len(Requirements)
  BY OperationType
<1>4. AskedOnlyIfItDecides'
  <2>1. ASSUME NEW t \in Requirements[pos], t < s PROVE Authenticates(t)
    <3>0. Requirements[pos] \subseteq Schemes BY <1>2, <1>3
    <3>1. t \in Nat /\ s \in Nat BY <3>0, OperationAssumption
    <3>2. t \notin todo BY <1>1, <2>1, <3>1
    <3> QED BY <1>2, <3>2 DEF MetSoFar
  <2>2. \E k \in DOMAIN Requirements :
          /\ s \in Requirements[k]
          /\ \A t \in Requirements[k] : t < s => Authenticates(t)
          /\ \A j \in 1..(k - 1) : \E t \in Requirements[j] : ~Authenticates(t)
    BY <1>1, <1>2, <2>1
  <2> QED BY <1>1, <2>2, OperationStays DEF AskedOnlyIfItDecides
<1>5. Written' BY <1>1, OperationStays DEF Written
<1>6. asked' \subseteq Schemes BY <1>1 DEF TypeOK
<1>7. CASE SchemePasses(s)
  <2>1. Authenticates(s) /\ todo' = todo \ {s} /\ UNCHANGED <<pc, pos, result>>
    BY <1>7 DEF SchemePasses
  <2>2. Securing' BY <1>1, <1>2, <2>1, OperationStays DEF Securing, MetSoFar
  <2>3. TypeOK' BY <1>1, <1>6, <2>1, OperationStays DEF TypeOK
  <2>4. InOrder' /\ Justified' BY <1>1, <1>2, <2>1 DEF InOrder, Justified
  <2> QED BY <1>1, <1>4, <1>5, <2>2, <2>3, <2>4
<1>8. CASE SchemeFails(s) /\ pos = Len(Requirements)
  <2>1. ~Authenticates(s) /\ result' = "security" /\ pc' = "done" /\ UNCHANGED <<pos, todo>>
    BY <1>8 DEF SchemeFails
  <2>2. ~Authorized
    <3>1. ASSUME NEW k \in DOMAIN Requirements
          PROVE  \E t \in Requirements[k] : ~Authenticates(t)
      <4>1. CASE k = pos BY <1>1, <1>2, <2>1, <4>1
      <4>2. CASE k # pos
        <5>1. k \in 1..(pos - 1) BY <1>2, <1>3, <1>8, <4>2
        <5> QED BY <1>2, <5>1
      <4> QED BY <4>1, <4>2
    <3>2. Requirements # <<>> BY <1>2, <1>3
    <3> QED BY <3>1, <3>2, AuthorizedMeaning
  <2>3. TypeOK' BY <1>1, <1>6, <2>1, OperationStays DEF TypeOK
  <2>4. Securing' /\ InOrder' BY <2>1 DEF Securing, InOrder
  <2>5. Justified' BY <1>1, <2>1, <2>2, OperationStays DEF Justified
  <2> QED BY <1>1, <1>4, <1>5, <2>3, <2>4, <2>5
<1>9. CASE SchemeFails(s) /\ pos # Len(Requirements)
  <2>1. ~Authenticates(s) /\ pos' = pos + 1 /\ todo' = Requirements[pos + 1] /\ UNCHANGED <<pc, result>>
    BY <1>9 DEF SchemeFails
  <2>2. pos + 1 \in DOMAIN Requirements /\ pos \in Nat BY <1>2, <1>3, <1>9
  <2>3. Requirements[pos + 1] \subseteq Schemes BY <1>3, <2>2
  <2>4. TypeOK'
    <3>1. pos' \in 1..(1 + Len(Requirements) + Len(op.path) + Len(op.params))
      <4>1. pos' \in Nat /\ 1 <= pos' /\ pos' <= Len(Requirements) + 1 BY <1>3, <2>1, <2>2
      <4> QED BY <1>3, <4>1, PositionBounds
    <3> QED BY <1>1, <1>6, <2>1, <2>3, <3>1, OperationStays DEF TypeOK
  <2>5. Securing'
    <3>1. ASSUME NEW j \in 1..pos PROVE \E t \in Requirements[j] : ~Authenticates(t)
      <4>1. CASE j = pos BY <1>1, <1>2, <2>1, <4>1
      <4>2. CASE j # pos
        <5>1. j \in 1..(pos - 1) BY <2>2, <4>2
        <5> QED BY <1>2, <5>1
      <4> QED BY <4>1, <4>2
    <3>2. pos' - 1 = pos BY <2>1, <2>2
    <3>3. \A j \in 1..(pos' - 1) : \E t \in Requirements[j] : ~Authenticates(t) BY <3>1, <3>2
    <3>4. MetSoFar(Requirements[pos], todo)' BY <1>1, <2>1, OperationStays DEF MetSoFar
    <3> QED BY <1>1, <1>2, <2>1, <2>2, <3>3, <3>4, OperationStays DEF Securing, MetSoFar
  <2>6. InOrder' /\ Justified' BY <1>1, <1>2, <2>1 DEF InOrder, Justified
  <2> QED BY <1>1, <1>4, <1>5, <2>4, <2>5, <2>6
<1> QED BY <1>7, <1>8, <1>9

\* A requirement of which no scheme is left is met.
LEMMA RequirementKeepsIInv ==
    ASSUME IInv, RequirementMet
    PROVE  IInv'
<1> USE DEF IInv, RequirementMet
<1>1. Authorized
  <2>1. CASE Requirements = <<>> BY <2>1, AuthorizedMeaning
  <2>2. CASE Requirements # <<>>
    BY <2>2, AuthorizedMeaning DEF Securing, MetSoFar
  <2> QED BY <2>1, <2>2
<1>2. op' = op /\ pos' = 1 /\ Len(op.path) \in Nat /\ Len(op.params) \in Nat /\ Len(Requirements) \in Nat
      /\ op.path \in Seq(Parameters)
  BY OperationType
<1>3. TypeOK'
  <2>1. pos' \in 1..(1 + Len(Requirements) + Len(op.path) + Len(op.params))
    BY <1>2, FirstPosition
  <2> QED BY <1>2, <2>1, OperationStays DEF TypeOK, Justified
<1>4. PathFine(1) BY <1>2 DEF PathFine
<1>5. InOrder' BY <1>1, <1>2, <1>4, OperationStays DEF InOrder
<1>6. Justified' /\ Securing' BY DEF Justified, Securing
<1>7. AskedOnlyIfItDecides' /\ Written' BY OperationStays DEF AskedOnlyIfItDecides, Written
<1> QED BY <1>3, <1>5, <1>6, <1>7

\* What the validation of one parameter that holds establishes.
LEMMA ParameterMeaning ==
    ASSUME IInv, NEW p \in Declared, ValidateParameter(p)
    PROVE  /\ UNCHANGED <<op, todo, asked, body>>
           /\ Written' /\ written' \subseteq Parameters
           /\ \/ /\ Fine(p) /\ pos' = pos + 1 /\ UNCHANGED <<pc, result>>
              \/ /\ ~Fine(p) /\ pos' = pos /\ pc' = "done" /\ result' \in {"parameter", "panic"}
                 /\ result' = "panic" => ParameterPanics(p)
<1> USE DEF IInv, ValidateParameter
<1>1. UNCHANGED <<op, todo, asked, body>> OBVIOUS
<1>2. Declared \subseteq Parameters
  BY DeclaredMeaning, OperationType
<1>3. written' \subseteq written \cup {p} /\ (p \in written' => p \in written \/ WritesDefault(p))
  OBVIOUS
<1>4. WritesDefault(p) => ShownFor(p).value = "nil" BY DEF WritesDefault, TakesDefault
<1>5. Written' BY <1>1, <1>3, <1>4, OperationStays DEF Written
<1>6. written' \subseteq Parameters BY <1>2, <1>3 DEF TypeOK
<1>7. CASE Fine(p) BY <1>1, <1>5, <1>6, <1>7 DEF Fine
<1>8. CASE ~Fine(p)
  <2>1. ParameterFails(p) \/ ParameterPanics(p) BY <1>8 DEF Fine
  <2> QED BY <1>1, <1>5, <1>6, <1>8, <2>1
<1> QED BY <1>7, <1>8

\* The parameters of the path item, in their order.
LEMMA PathKeepsIInv ==
    ASSUME IInv, PathParameter \/ PathParameterOverridden \/ PathParametersEnd
    PROVE  IInv'
<1> USE DEF IInv
<1>1. /\ pc = "path" /\ Authorized /\ pos \in 1..(Len(op.path) + 1) /\ PathFine(pos)
      /\ UNCHANGED <<op, todo, asked, body>> /\ result = "none"
  BY DEF PathParameter, PathParameterOverridden, PathParametersEnd, ValidateParameter, InOrder, Justified
<1>2. /\ Len(Requirements) \in Nat /\ Len(op.path) \in Nat /\ Len(op.params) \in Nat
      /\ DOMAIN op.path = 1..Len(op.path) /\ DOMAIN op.params = 1..Len(op.params)
  BY OperationType
<1>3. AskedOnlyIfItDecides' /\ Securing'
  BY <1>1, OperationStays
     DEF AskedOnlyIfItDecides, Securing, PathParameter, PathParameterOverridden, PathParametersEnd,
         ValidateParameter
<1>4. CASE PathParameter
  <2>1. pos \in DOMAIN op.path /\ ~Overridden(op.path[pos]) /\ ValidateParameter(op.path[pos])
    BY <1>1, <1>2, <1>4 DEF PathParameter
  <2>2. op.path[pos] \in Declared BY <2>1, DeclaredMeaning
  <2>3. CASE Fine(op.path[pos])
    <3>1. pos' = pos + 1 /\ UNCHANGED <<pc, result>> /\ Written' /\ written' \subseteq Parameters
      BY <2>1, <2>2, <2>3, ParameterMeaning
    <3>2. pos' \in 1..(Len(op.path) + 1) BY <1>1, <1>2, <2>1, <3>1
    <3>3. PathFine(pos') BY <1>1, <1>2, <2>1, <2>3, <3>1 DEF PathFine
    <3>4. PathFine(pos)' BY <1>1, <3>3, OperationStays DEF PathFine
    <3>5. InOrder' /\ Justified' BY <1>1, <3>1, <3>2, <3>4, OperationStays DEF InOrder, Justified
    <3>6. pos' \in 1..(1 + Len(Requirements) + Len(op.path) + Len(op.params))
      BY <1>2, <3>2, PositionFits
    <3>7. TypeOK' BY <1>1, <3>1, <3>6, OperationStays DEF TypeOK
    <3> QED BY <1>1, <1>3, <3>1, <3>5, <3>7
  <2>4. CASE ~Fine(op.path[pos])
    <3>1. /\ pos' = pos /\ pc' = "done" /\ result' \in {"parameter", "panic"}
          /\ result' = "panic" => \E p \in Declared : ParameterPanics(p)
          /\ Written' /\ written' \subseteq Parameters
      BY <2>1, <2>2, <2>4, ParameterMeaning
    <3>2. InOrder' BY <3>1 DEF InOrder
    <3>3. Justified' BY <1>1, <2>2, <2>4, <3>1, OperationStays DEF Justified
    <3>4. TypeOK' BY <1>1, <3>1, OperationStays DEF TypeOK
    <3> QED BY <1>1, <1>3, <3>1, <3>2, <3>3, <3>4
  <2> QED BY <2>3, <2>4
<1>5. CASE PathParameterOverridden
  <2>1. /\ pos \in DOMAIN op.path /\ Overridden(op.path[pos]) /\ pos' = pos + 1
        /\ UNCHANGED <<pc, result, written>>
    BY <1>1, <1>2, <1>5 DEF PathParameterOverridden
  <2>2. pos' \in 1..(Len(op.path) + 1) BY <1>1, <1>2, <2>1
  <2>3. PathFine(pos') BY <1>1, <1>2, <2>1 DEF PathFine
  <2>4. PathFine(pos)' BY <1>1, <2>3, OperationStays DEF PathFine
  <2>5. InOrder' /\ Justified' BY <1>1, <2>1, <2>2, <2>4, OperationStays DEF InOrder, Justified
  <2>6. pos' \in 1..(1 + Len(Requirements) + Len(op.path) + Len(op.params))
    BY <1>2, <2>2, PositionFits
  <2>7. TypeOK' /\ Written' BY <1>1, <2>1, <2>6, OperationStays DEF TypeOK, Written
  <2> QED BY <1>1, <1>3, <2>5, <2>7
<1>6. CASE PathParametersEnd
  <2>1. pc' = "params" /\ pos' = 1 /\ UNCHANGED <<written, result>> /\ pos = Len(op.path) + 1
    BY <1>1, <1>2, <1>6 DEF PathParametersEnd
  <2>2. PathFine(Len(op.path) + 1) /\ ParamsFine(1) BY <1>1, <1>2, <2>1 DEF ParamsFine
  <2>3. InOrder' /\ Justified' BY <1>1, <1>2, <2>1, <2>2, OperationStays DEF InOrder, Justified
  <2>4. pos' \in 1..(1 + Len(Requirements) + Len(op.path) + Len(op.params))
    BY <1>2, <2>1, FirstPosition
  <2>5. TypeOK' /\ Written' BY <1>1, <2>1, <2>4, OperationStays DEF TypeOK, Written
  <2> QED BY <1>1, <1>3, <2>3, <2>5
<1> QED BY <1>4, <1>5, <1>6

\* The operation's own parameters.
LEMMA ParamsKeepIInv ==
    ASSUME IInv, OperationParameter \/ OperationParametersEnd
    PROVE  IInv'
<1> USE DEF IInv
<1>1. /\ pc = "params" /\ Authorized /\ pos \in 1..(Len(op.params) + 1)
      /\ PathFine(Len(op.path) + 1) /\ ParamsFine(pos)
      /\ UNCHANGED <<op, todo, asked, body>> /\ result = "none"
  BY DEF OperationParameter, OperationParametersEnd, ValidateParameter, InOrder, Justified
<1>2. /\ Len(Requirements) \in Nat /\ Len(op.path) \in Nat /\ Len(op.params) \in Nat
      /\ DOMAIN op.params = 1..Len(op.params)
  BY OperationType
<1>3. AskedOnlyIfItDecides' /\ Securing'
  BY <1>1, OperationStays
     DEF AskedOnlyIfItDecides, Securing, OperationParameter, OperationParametersEnd, ValidateParameter
<1>4. CASE OperationParameter
  <2>1. pos \in DOMAIN op.params /\ ValidateParameter(op.params[pos])
    BY <1>1, <1>2, <1>4 DEF OperationParameter
  <2>2. op.params[pos] \in Declared BY <2>1, DeclaredMeaning
  <2>3. CASE Fine(op.params[pos])
    <3>1. pos' = pos + 1 /\ UNCHANGED <<pc, result>> /\ Written' /\ written' \subseteq Parameters
      BY <2>1, <2>2, <2>3, ParameterMeaning
    <3>2. pos' \in 1..(Len(op.params) + 1) BY <1>1, <1>2, <2>1, <3>1
    <3>3. ParamsFine(pos') BY <1>1, <1>2, <2>1, <2>3, <3>1 DEF ParamsFine
    <3>4. ParamsFine(pos)' BY <1>1, <3>3, OperationStays DEF ParamsFine
    <3>5. InOrder' /\ Justified' BY <1>1, <3>1, <3>2, <3>4, OperationStays DEF InOrder, Justified
    <3>6. pos' \in 1..(1 + Len(Requirements) + Len(op.path) + Len(op.params))
      BY <1>2, <3>2, PositionFits
    <3>7. TypeOK' BY <1>1, <3>1, <3>6, OperationStays DEF TypeOK
    <3> QED BY <1>1, <1>3, <3>1, <3>5, <3>7
  <2>4. CASE ~Fine(op.params[pos])
    <3>1. /\ pos' = pos /\ pc' = "done" /\ result' \in {"parameter", "panic"}
          /\ result' = "panic" => \E p \in Declared : ParameterPanics(p)
          /\ Written' /\ written' \subseteq Parameters
      BY <2>1, <2>2, <2>4, ParameterMeaning
    <3>2. InOrder' BY <3>1 DEF InOrder
    <3>3. Justified' BY <1>1, <2>2, <2>4, <3>1, OperationStays DEF Justified
    <3>4. TypeOK' BY <1>1, <3>1, OperationStays DEF TypeOK
    <3> QED BY <1>1, <1>3, <3>1, <3>2, <3>3, <3>4
  <2> QED BY <2>3, <2>4
<1>5. CASE OperationParametersEnd
  <2>1. pc' = "body" /\ UNCHANGED <<pos, written, result>> /\ pos = Len(op.params) + 1
    BY <1>1, <1>2, <1>5 DEF OperationParametersEnd
  <2>2. AllFine BY <1>1, <2>1 DEF AllFine
  <2>3. InOrder' /\ Justified' BY <1>1, <2>1, <2>2, OperationStays DEF InOrder, Justified
  <2>4. TypeOK' /\ Written' BY <1>1, <2>1, OperationStays DEF TypeOK, Written
  <2> QED BY <1>1, <1>3, <2>3, <2>4
<1> QED BY <1>4, <1>5

\* The body is accepted only when OpenAPI accepts it.
LEMMA BodyKeepsIInv ==
    ASSUME IInv, ValidateRequestBody
    PROVE  IInv'
<1> USE DEF IInv
<1>1. /\ pc = "body" /\ pc' = "done" /\ result' \in {"valid", "panic", "body"}
      /\ UNCHANGED <<op, pos, todo, asked, written>> /\ body' \in {body, "restored", "rewritten"}
  BY DEF ValidateRequestBody, NotDeclared, ReadFails, Empty, Unspecified, UnexpectedType, Misfits, Fits,
         DecodingPanics, Rewrite, RewriteFails, Specified, HasData, Read, Pass, Fail
<1>2. op.data.value \in {"unreadable", "absent", "empty", "panics", "undecodable", "misfits", "fits"}
      /\ op.body.content \in {"none", "matches", "differs"}
  BY OperationType DEF Data, Bodies
<1>3. (result' = "valid" <=> ~BodyRefused) /\ (result' = "panic" => BodyPanics)
  BY <1>2
     DEF ValidateRequestBody, NotDeclared, ReadFails, Empty, Unspecified, UnexpectedType, Misfits, Fits,
         DecodingPanics, Rewrite, RewriteFails, Specified, HasData, Read, Pass, Fail, AcceptableBody, Described,
         BodyRefused, BodyPanics
<1>4. Authorized /\ AllFine BY <1>1 DEF InOrder
<1>5. Justified' BY <1>1, <1>3, <1>4, OperationStays DEF Justified
<1>6. TypeOK' BY <1>1, OperationStays DEF TypeOK
<1>7. Securing' /\ InOrder' BY <1>1 DEF Securing, InOrder
<1>8. AskedOnlyIfItDecides' /\ Written' BY <1>1, OperationStays DEF AskedOnlyIfItDecides, Written
<1> QED BY <1>1, <1>5, <1>6, <1>7, <1>8

-----------------------------------------------------------------------------
(* The theorems *)

\* The conjunction is an invariant, for every operation and every request to it.
THEOREM Inductive == Spec => []IInv
<1>1. ASSUME IInv, [Next]_vars PROVE IInv'
  <2>1. CASE Next
    BY <1>1, <2>1, SchemesKeepIInv, RequirementKeepsIInv, PathKeepsIInv, ParamsKeepIInv, BodyKeepsIInv
    DEF Next
  <2>2. CASE UNCHANGED vars
    <3>1. UNCHANGED <<op, pc, pos, todo, asked, written, body, result>> BY <2>2 DEF vars
    <3>2. Justified' /\ Written' /\ AskedOnlyIfItDecides'
      BY <1>1, <3>1, OperationStays DEF IInv, Justified, Written, AskedOnlyIfItDecides
    <3>3. Securing' BY <1>1, <3>1, OperationStays DEF IInv, Securing, MetSoFar
    <3>4. InOrder' BY <1>1, <3>1, OperationStays DEF IInv, InOrder, PathFine, ParamsFine
    <3>5. TypeOK' BY <1>1, <3>1, OperationStays DEF IInv, TypeOK
    <3> QED BY <1>1, <3>1, <3>2, <3>3, <3>4, <3>5 DEF IInv
  <2> QED BY <1>1, <2>1, <2>2
<1> QED BY InitIInv, <1>1, PTL DEF Spec

\* The types of the state; there is a result exactly at the end.
THEOREM TypeCorrect == Spec => []TypeOK
BY Inductive, PTL DEF IInv

\* A request that passes satisfies its whole declaration.
THEOREM AcceptsTheAllowed == Spec => []AcceptedIsAllowed
<1>1. ASSUME IInv PROVE AcceptedIsAllowed
  BY <1>1, DeclaredMeaning, FineIsAcceptable DEF IInv, Justified, BodyRefused, AcceptedIsAllowed
<1> QED BY Inductive, <1>1, PTL

\* A request that satisfies its whole declaration passes: none is refused but for what
\* AcceptedIsAllowed asks of it, a default that does not fit, or one that is set in a body
\* that cannot be encoded again.
THEOREM AllowedIsAccepted ==
    Spec => [](/\ pc = "done" /\ Authorized /\ ~BodyRefused
               /\ \A p \in Declared : Acceptable(p) /\ ~(IsNil(p) /\ p.default = "misfits")
               => result = "valid")
<1>1. IInv => (/\ pc = "done" /\ Authorized /\ ~BodyRefused
               /\ \A p \in Declared : Acceptable(p) /\ ~(IsNil(p) /\ p.default = "misfits")
               => result = "valid")
  BY DeclaredMeaning, FineIsAcceptable, PanicIsRefused DEF IInv, Justified, TypeOK, Fine
<1> QED BY Inductive, <1>1, PTL

\* A request is refused by the first part that it fails.
THEOREM FirstFailureRefuses == Spec => []FirstFailureDecides
<1>1. ASSUME IInv PROVE FirstFailureDecides
  BY <1>1, DeclaredMeaning, FineIsAcceptable
     DEF IInv, Justified, FirstFailureDecides, BodyPanics, ParameterPanics
<1> QED BY Inductive, <1>1, PTL

\* A scheme, and with it an OAuth provider, is asked only if it can decide.
THEOREM AskedIfItDecides == Spec => []AskedOnlyIfItDecides
BY Inductive, PTL DEF IInv

\* Two parameters that hold have different places or names.
LEMMA DeclaredOnce ==
    ASSUME op \in Operations, NEW p \in Declared, NEW q \in Declared, p.in = q.in, p.name = q.name
    PROVE  p = q
<1>1. ASSUME NEW j \in DOMAIN op.path, NEW k \in DOMAIN op.path,
             op.path[j].in = op.path[k].in, op.path[j].name = op.path[k].name
      PROVE  op.path[j] = op.path[k]
  BY <1>1, OperationAssumption
<1>2. ASSUME NEW j \in DOMAIN op.params, NEW k \in DOMAIN op.params,
             op.params[j].in = op.params[k].in, op.params[j].name = op.params[k].name
      PROVE  op.params[j] = op.params[k]
  BY <1>2, OperationAssumption
<1> QED BY <1>1, <1>2, DeclaredMeaning DEF Overridden

\* A default is written only for a parameter that holds and is not shown, and for none
\* twice.
THEOREM DefaultsOnlyFillGaps == Spec => []DefaultsFillGaps
<1>1. ASSUME IInv PROVE DefaultsFillGaps
  BY <1>1, DeclaredOnce DEF IInv, Written, DefaultsFillGaps
<1> QED BY Inductive, <1>1, PTL

-----------------------------------------------------------------------------
(* The decoders: the least number, induction, recursion from the end *)

\* A set of numbers that is not empty has a least one.
LEMMA LeastNumber ==
    ASSUME NEW T \in SUBSET Nat, T # {}
    PROVE  \E x \in T : \A y \in T : x <= y
<1> DEFINE R == {p \in Nat \X Nat : p[1] < p[2]}
<1>1. IsWellFoundedOn(R, Nat)
    BY NatLessThanWellFounded DEF OpToRel
<1>2. PICK x \in T : \A y \in T : ~(<<y, x>> \in R)
  <2> HIDE DEF R
  <2> QED BY <1>1, WFMin
<1>3. x \in Nat /\ \A y \in T : y \in Nat /\ ~(y < x)
    BY <1>2
<1> QED BY <1>3

\* Induction, for a set of numbers.
LEMMA Induction ==
    ASSUME NEW S, 0 \in S, \A n \in Nat : n \in S => n + 1 \in S
    PROVE  Nat \subseteq S
<1> SUFFICES ASSUME Nat \ S # {} PROVE FALSE
    OBVIOUS
<1>1. PICK x \in Nat \ S : \A y \in Nat \ S : x <= y
    BY LeastNumber
<1>2. x # 0 /\ x - 1 \in Nat /\ x - 1 \notin Nat \ S
    BY <1>1
<1> QED BY <1>1, <1>2

\* Min gives it.
LEMMA MinIsLeast ==
    ASSUME NEW S \in SUBSET Nat, S # {}
    PROVE  Min(S) \in S /\ \A y \in S : Min(S) <= y
BY LeastNumber DEF Min

\* A number of a set that no other is below is its Min.
LEMMA MinIs ==
    ASSUME NEW S \in SUBSET Nat, NEW x \in S, \A y \in S : x <= y
    PROVE  Min(S) = x
<1>1. Min(S) \in S /\ \A y \in S : Min(S) <= y
    BY MinIsLeast
<1>2. Min(S) \in Nat /\ x \in Nat /\ Min(S) <= x /\ x <= Min(S)
    BY <1>1
<1> QED BY <1>2

\* A function defined from the end of its domain: the equation has a solution.
Unrolled(f, n, next, base, head) ==
    f = [i \in 1..n |-> IF next[i] > n THEN base[i] ELSE head[i] \o f[next[i]]]

\* A function that each place gives from a later one exists, as strings.Split and the
\* serialization of a list are defined: the equation that defines it can be used.
LEMMA Unrolls ==
    ASSUME NEW n \in Nat, NEW next \in [1..n -> Nat], NEW base, NEW head,
           \A i \in 1..n : next[i] > i
    PROVE  \E f : Unrolled(f, n, next, base, head)
<1> DEFINE Body(f, i) == IF next[i] > n THEN base[i] ELSE head[i] \o f[next[i]]
           Solves(f, m) == \A i \in 1..n : i > n - m => f[i] = Body(f, i)
           S == {m \in Nat : m <= n => \E f : Solves(f, m)}
<1>1. 0 \in S
  <2>1. \A i \in 1..n : ~(i > n - 0)
      OBVIOUS
  <2>2. Solves([i \in 1..n |-> 0], 0)
      BY <2>1
  <2> QED BY <2>2
<1>2. ASSUME NEW m \in Nat, m \in S PROVE m + 1 \in S
  <2> SUFFICES ASSUME m + 1 <= n PROVE \E f : Solves(f, m + 1)
      OBVIOUS
  <2>1. PICK f : Solves(f, m)
      BY <1>2
  <2> DEFINE k == n - m
             g == [i \in 1..n |-> IF i = k THEN Body(f, k) ELSE f[i]]
  <2>2. k \in 1..n /\ \A i \in 1..n : i > n - (m + 1) => i = k \/ i > n - m
      BY <2>1
  <2>3. ASSUME NEW i \in 1..n, i > n - (m + 1) PROVE g[i] = Body(g, i)
    <3>1. next[i] > n \/ (next[i] \in 1..n /\ next[i] # k)
        BY <2>2, <2>3
    <3>2. Body(g, i) = Body(f, i)
        BY <3>1
    <3>3. CASE i = k
        BY <3>2, <3>3
    <3>4. CASE i # k
        BY <3>2, <3>4, <2>1, <2>2, <2>3
    <3> QED BY <3>3, <3>4
  <2> HIDE DEF g
  <2> QED BY <2>3
<1>3. n \in S
  <2> HIDE DEF S
  <2> QED BY <1>1, <1>2, Induction
<1>4. PICK f : Solves(f, n)
    BY <1>3
<1> DEFINE h == [i \in 1..n |-> f[i]]
<1>5. \A i \in 1..n : i > n - n
    OBVIOUS
<1>6. \A i \in 1..n : f[i] = Body(f, i)
    BY <1>4, <1>5
<1>7. \A i \in 1..n : next[i] > n \/ next[i] \in 1..n
    OBVIOUS
<1>8. \A i \in 1..n : h[i] = Body(h, i)
    BY <1>6, <1>7
<1>9. h = [i \in 1..n |-> Body(h, i)]
    BY <1>8
<1> QED BY <1>9 DEF Unrolled

\* Induction from the last position of a sequence to its first.
LEMMA DownInduction ==
    ASSUME NEW n \in Nat, NEW S, n > 0 => n \in S,
           \A k \in 1..n : k < n /\ k + 1 \in S => k \in S
    PROVE  1..n \subseteq S
<1> DEFINE D == {m \in Nat : m < n => n - m \in S}
<1>1. 0 \in D
    OBVIOUS
<1>2. \A m \in Nat : m \in D => m + 1 \in D
  <2> SUFFICES ASSUME NEW m \in Nat, m \in D, m + 1 < n PROVE n - (m + 1) \in S
      OBVIOUS
  <2>1. n - m \in S /\ n - (m + 1) \in 1..n /\ n - (m + 1) < n /\ (n - (m + 1)) + 1 = n - m
      OBVIOUS
  <2> QED BY <2>1
<1>3. Nat \subseteq D
  <2> HIDE DEF D
  <2> QED BY <1>1, <1>2, Induction
<1>4. ASSUME NEW k \in 1..n PROVE k \in S
  <2>1. n - k \in Nat /\ n - k < n /\ n - (n - k) = k
      OBVIOUS
  <2>2. n - k \in D
      BY <2>1, <1>3
  <2> QED BY <2>1, <2>2
<1> QED BY <1>4

\* Induction to the first position, from all that come after one.
LEMMA StrongDownInduction ==
    ASSUME NEW n \in Nat, NEW S, \A k \in 1..n : (k + 1)..n \subseteq S => k \in S
    PROVE  1..n \subseteq S
<1> DEFINE D == {k \in 1..n : k..n \subseteq S}
<1>1. n > 0 => n \in D
  <2> SUFFICES ASSUME n > 0 PROVE n \in D
      OBVIOUS
  <2>1. n \in 1..n /\ (n + 1)..n = {} /\ n..n = {n}
      OBVIOUS
  <2> QED BY <2>1
<1>2. ASSUME NEW k \in 1..n, k < n, k + 1 \in D PROVE k \in D
  <2>1. k..n = {k} \cup (k + 1)..n
      OBVIOUS
  <2>2. k \in S
      BY <1>2
  <2> QED BY <1>2, <2>1, <2>2
<1>3. 1..n \subseteq D
  <2> HIDE DEF D
  <2> QED BY <1>1, <1>2, DownInduction
<1> QED BY <1>3

-----------------------------------------------------------------------------
(* Splitting and joining *)

\* What Split leaves to be split from a place on.
SplitFrom(text, delim, f, i) ==
    LET cuts == Occurrences(text, delim, i)
    IN  IF cuts = {} THEN <<SubSeq(text, i, Len(text))>>
        ELSE <<SubSeq(text, i, Min(cuts) - 1)>> \o f[Min(cuts) + Len(delim)]

\* The first delimiter from a place on: it is one, none is before it, and it ends in
\* the text.
LEMMA FirstOccurrence ==
    ASSUME NEW Token, NEW text \in Seq(Token), NEW delim \in Seq(Token), delim # <<>>,
           NEW i \in 1..(Len(text) + 1), Occurrences(text, delim, i) # {}
    PROVE  LET c == Min(Occurrences(text, delim, i))
           IN  /\ c \in Occurrences(text, delim, i)
               /\ \A j \in Occurrences(text, delim, i) : c <= j
               /\ c \in Nat /\ c >= i /\ c + Len(delim) \in (i + 1)..(Len(text) + 1)
<1>1. Len(text) \in Nat /\ Len(delim) \in Nat /\ Len(delim) > 0
    OBVIOUS
<1>2. Occurrences(text, delim, i) \in SUBSET Nat
    BY <1>1 DEF Occurrences
<1> DEFINE c == Min(Occurrences(text, delim, i))
<1>3. c \in Occurrences(text, delim, i) /\ \A j \in Occurrences(text, delim, i) : c <= j
    BY <1>2, MinIsLeast
<1>4. c \in i..(Len(text) - Len(delim) + 1)
    BY <1>3 DEF Occurrences
<1> HIDE DEF c
<1> QED BY <1>1, <1>3, <1>4 DEF c

\* What strings.Split gives from each place on: the text up to the next delimiter, and
\* what is split after it.
LEMMA SplitEquation ==
    ASSUME NEW Token, NEW text \in Seq(Token), NEW delim \in Seq(Token), delim # <<>>
    PROVE  \E f : /\ \A i \in 1..(Len(text) + 1) : f[i] = SplitFrom(text, delim, f, i)
                  /\ Split(text, delim) = f[1]
<1> DEFINE n == Len(text) + 1
           Cuts(i) == Occurrences(text, delim, i)
           next == [i \in 1..n |-> IF Cuts(i) = {} THEN n + 1 ELSE Min(Cuts(i)) + Len(delim)]
           base == [i \in 1..n |-> <<SubSeq(text, i, Len(text))>>]
           head == [i \in 1..n |-> <<SubSeq(text, i, Min(Cuts(i)) - 1)>>]
<1>1. n \in Nat /\ Len(delim) \in Nat
    OBVIOUS
<1>2. ASSUME NEW i \in 1..n, Cuts(i) # {} PROVE Min(Cuts(i)) + Len(delim) \in (i + 1)..n
    BY <1>2, FirstOccurrence
<1>3. ASSUME NEW i \in 1..n
      PROVE  /\ next[i] \in Nat /\ next[i] > i
             /\ Cuts(i) = {} <=> next[i] > n
  <2>1. CASE Cuts(i) = {}
      BY <2>1, <1>1
  <2>2. CASE Cuts(i) # {}
    <3>1. next[i] \in (i + 1)..n
        BY <2>2, <1>2
    <3> HIDE DEF next
    <3> QED BY <3>1, <2>2, <1>1
  <2> QED BY <2>1, <2>2
<1>4. next \in [1..n -> Nat]
    BY <1>3
<1>5. PICK f : Unrolled(f, n, next, base, head)
  <2> HIDE DEF next, base, head, n
  <2> QED BY <1>1, <1>3, <1>4, Unrolls
<1>6. ASSUME NEW i \in 1..n
      PROVE  (IF next[i] > n THEN base[i] ELSE head[i] \o f[next[i]]) = SplitFrom(text, delim, f, i)
    BY <1>3 DEF SplitFrom
<1>7. f = [i \in 1..n |-> SplitFrom(text, delim, f, i)]
  <2> HIDE DEF next, base, head, n
  <2> QED BY <1>5, <1>6 DEF Unrolled
<1> DEFINE g == CHOOSE g : g = [i \in 1..n |-> SplitFrom(text, delim, g, i)]
<1>8. g = [i \in 1..n |-> SplitFrom(text, delim, g, i)]
  <2> HIDE DEF n
  <2> QED BY <1>7
<1>9. Split(text, delim) = g[1]
    BY DEF Split, SplitFrom
<1> HIDE DEF g
<1>10. \A i \in 1..n : g[i] = SplitFrom(text, delim, g, i)
    BY <1>8
<1> QED BY <1>9, <1>10

\* What Join gives from a part on.
JoinFrom(parts, delim, f, k) ==
    IF k = Len(parts) THEN parts[k] ELSE parts[k] \o delim \o f[k + 1]

\* What Join gives: the texts with the delimiter between each two.
LEMMA JoinEquation ==
    ASSUME NEW Token, NEW parts \in Seq(Seq(Token)), parts # <<>>, NEW delim \in Seq(Token)
    PROVE  \E f : /\ \A k \in 1..Len(parts) : f[k] = JoinFrom(parts, delim, f, k)
                  /\ Join(parts, delim) = f[1]
<1> DEFINE n == Len(parts)
           next == [k \in 1..n |-> k + 1]
           base == [k \in 1..n |-> parts[k]]
           head == [k \in 1..n |-> parts[k] \o delim]
<1>1. n \in Nat
    OBVIOUS
<1>2. next \in [1..n -> Nat] /\ \A k \in 1..n : next[k] > k /\ (next[k] > n <=> k = n)
    BY <1>1
<1>3. PICK f : Unrolled(f, n, next, base, head)
  <2> HIDE DEF next, base, head, n
  <2> QED BY <1>1, <1>2, Unrolls
<1>4. ASSUME NEW k \in 1..n
      PROVE  (IF next[k] > n THEN base[k] ELSE head[k] \o f[next[k]]) = JoinFrom(parts, delim, f, k)
    BY <1>2 DEF JoinFrom
<1>5. f = [k \in 1..n |-> JoinFrom(parts, delim, f, k)]
  <2> HIDE DEF next, base, head, n
  <2> QED BY <1>3, <1>4 DEF Unrolled
<1> DEFINE g == CHOOSE g : g = [k \in 1..n |-> JoinFrom(parts, delim, g, k)]
<1>6. g = [k \in 1..n |-> JoinFrom(parts, delim, g, k)]
  <2> HIDE DEF n
  <2> QED BY <1>5
<1>7. Join(parts, delim) = g[1]
    BY DEF Join, JoinFrom
<1> HIDE DEF g
<1>8. \A k \in 1..n : g[k] = JoinFrom(parts, delim, g, k)
    BY <1>6
<1> QED BY <1>7, <1>8

\* Text x stands in text t at position i.
At(t, i, x) == \A j \in 1..Len(x) : t[i + j - 1] = x[j]

\* Standing there is being the part of the text that begins there.
LEMMA AtIsSubSeq ==
    ASSUME NEW Token, NEW t \in Seq(Token), NEW x \in Seq(Token), NEW i \in 1..(Len(t) + 1),
           i + Len(x) - 1 <= Len(t)
    PROVE  At(t, i, x) <=> SubSeq(t, i, i + Len(x) - 1) = x
<1> DEFINE e == i + Len(x) - 1
           u == SubSeq(t, i, e)
<1>1. Len(t) \in Nat /\ Len(x) \in Nat /\ e \in Int /\ i \in Int /\ e <= Len(t)
    OBVIOUS
<1>2. \A j \in i..e : t[j] \in Token
    BY <1>1
<1>3. /\ u \in Seq(Token)
      /\ Len(u) = Len(x)
      /\ \A j \in 1..(e - i + 1) : u[j] = t[i + j - 1]
  <2>1. /\ SubSeq(t, i, e) \in Seq(Token)
        /\ Len(SubSeq(t, i, e)) = IF i <= e THEN e - i + 1 ELSE 0
        /\ \A j \in 1..(e - i + 1) : SubSeq(t, i, e)[j] = t[i + j - 1]
    <3> HIDE DEF e
    <3> QED BY <1>1, <1>2, SubSeqProperties
  <2>2. (IF i <= e THEN e - i + 1 ELSE 0) = Len(x)
      BY <1>1
  <2> QED BY <2>1, <2>2
<1>4. e - i + 1 = Len(x)
    BY <1>1
<1>5. \A j \in 1..Len(x) : u[j] = t[i + j - 1]
    BY <1>3, <1>4
<1> HIDE DEF u, e
<1>6. ASSUME At(t, i, x) PROVE u = x
  <2>1. \A j \in 1..Len(u) : u[j] = x[j]
      BY <1>3, <1>5, <1>6 DEF At
  <2> QED BY <2>1, <1>3, SeqEqual
<1>7. ASSUME u = x PROVE At(t, i, x)
    BY <1>5, <1>7 DEF At
<1> QED BY <1>6, <1>7 DEF u, e

\* Of a text in two, each stands in its place.
LEMMA AtConcat ==
    ASSUME NEW Token, NEW t, NEW x \in Seq(Token), NEW y \in Seq(Token), NEW i \in Nat
    PROVE  At(t, i, x \o y) <=> At(t, i, x) /\ At(t, i + Len(x), y)
<1>1. /\ Len(x) \in Nat /\ Len(y) \in Nat
      /\ Len(x \o y) = Len(x) + Len(y)
      /\ \A j \in 1..(Len(x) + Len(y)) : (x \o y)[j] = IF j <= Len(x) THEN x[j] ELSE y[j - Len(x)]
    BY ConcatProperties
<1>2. ASSUME At(t, i, x \o y) PROVE At(t, i, x) /\ At(t, i + Len(x), y)
  <2>1. ASSUME NEW j \in 1..Len(x) PROVE t[i + j - 1] = x[j]
      BY <1>1, <1>2 DEF At
  <2>2. ASSUME NEW j \in 1..Len(y) PROVE t[(i + Len(x)) + j - 1] = y[j]
    <3>1. j + Len(x) \in 1..(Len(x) + Len(y)) /\ ~(j + Len(x) <= Len(x)) /\ (j + Len(x)) - Len(x) = j
          /\ i + (j + Len(x)) - 1 = (i + Len(x)) + j - 1
        BY <1>1
    <3>2. (x \o y)[j + Len(x)] = y[j]
        BY <1>1, <3>1
    <3>3. t[i + (j + Len(x)) - 1] = (x \o y)[j + Len(x)]
        BY <1>1, <1>2, <3>1 DEF At
    <3> QED BY <3>1, <3>2, <3>3
  <2> QED BY <2>1, <2>2 DEF At
<1>3. ASSUME At(t, i, x), At(t, i + Len(x), y) PROVE At(t, i, x \o y)
  <2> SUFFICES ASSUME NEW j \in 1..(Len(x) + Len(y)) PROVE t[i + j - 1] = (x \o y)[j]
      BY <1>1 DEF At
  <2>1. CASE j <= Len(x)
      BY <2>1, <1>1, <1>3 DEF At
  <2>2. CASE ~(j <= Len(x))
    <3>1. j - Len(x) \in 1..Len(y) /\ (i + Len(x)) + (j - Len(x)) - 1 = i + j - 1
        BY <2>2, <1>1
    <3> QED BY <3>1, <2>2, <1>1, <1>3 DEF At
  <2> QED BY <2>1, <2>2
<1> QED BY <1>2, <1>3

\* A text stands at its own beginning, and two that stand at one place and are of one
\* length are one.
LEMMA AtSelf ==
    ASSUME NEW Token, NEW t \in Seq(Token)
    PROVE  At(t, 1, t)
BY DEF At

\* What is joined from any part on is a text.
LEMMA JoinFromType ==
    ASSUME NEW Token, NEW parts \in Seq(Seq(Token)), parts # <<>>, NEW delim \in Seq(Token),
           NEW f, \A k \in 1..Len(parts) : f[k] = JoinFrom(parts, delim, f, k)
    PROVE  \A k \in 1..Len(parts) : f[k] \in Seq(Token)
<1> DEFINE n == Len(parts)
           S == {k \in 1..n : f[k] \in Seq(Token)}
<1>1. n \in Nat /\ n > 0 /\ \A k \in 1..n : parts[k] \in Seq(Token)
    OBVIOUS
<1>2. n \in S
  <2>1. n \in 1..n /\ f[n] = JoinFrom(parts, delim, f, n)
      BY <1>1
  <2> QED BY <1>1, <2>1 DEF JoinFrom
<1>3. ASSUME NEW k \in 1..n, k < n, k + 1 \in S PROVE k \in S
  <2>0. f[k] = JoinFrom(parts, delim, f, k)
      OBVIOUS
  <2>1. f[k] = parts[k] \o delim \o f[k + 1]
    <3>1. k # Len(parts)
        BY <1>1, <1>3
    <3> QED BY <2>0, <3>1 DEF JoinFrom
  <2>2. parts[k] \in Seq(Token) /\ f[k + 1] \in Seq(Token)
      BY <1>1, <1>3
  <2>3. parts[k] \o delim \in Seq(Token)
      BY <2>2, ConcatProperties
  <2>4. f[k] \in Seq(Token)
      BY <2>1, <2>2, <2>3, ConcatProperties
  <2> QED BY <2>4
<1>4. 1..n \subseteq S
  <2> HIDE DEF S, n
  <2> QED BY <1>1, <1>2, <1>3, DownInduction
<1> QED BY <1>4

\* What stands before the first delimiter is the first part.
LEMMA CutsAfterPart ==
    ASSUME NEW Token, NEW t \in Seq(Token), NEW delim \in Seq(Token), delim # <<>>,
           NEW x \in Seq(Token), \A j \in DOMAIN x : x[j] # delim[1],
           NEW i \in 1..(Len(t) + 1), At(t, i, x)
    PROVE  /\ i + Len(x) - 1 = Len(t) => Occurrences(t, delim, i) = {}
           /\ At(t, i + Len(x), delim) /\ i + Len(x) + Len(delim) - 1 <= Len(t)
                => /\ Occurrences(t, delim, i) # {}
                   /\ Min(Occurrences(t, delim, i)) = i + Len(x)
<1> DEFINE cuts == Occurrences(t, delim, i)
           c == i + Len(x)
<1>1. Len(t) \in Nat /\ Len(delim) \in Nat /\ Len(delim) > 0 /\ Len(x) \in Nat /\ DOMAIN x = 1..Len(x)
    OBVIOUS
<1>2. ASSUME NEW j \in cuts PROVE j \in Nat /\ j >= c /\ j <= Len(t)
  <2>1. j \in i..(Len(t) - Len(delim) + 1) /\ SubSeq(t, j, j + Len(delim) - 1) = delim
      BY DEF Occurrences
  <2>2. j \in 1..(Len(t) + 1) /\ j + Len(delim) - 1 <= Len(t) /\ j <= Len(t)
      BY <1>1, <2>1
  <2>3. At(t, j, delim)
      BY <2>1, <2>2, AtIsSubSeq
  <2>4. t[j] = delim[1]
    <3>1. t[j + 1 - 1] = delim[1]
        BY <1>1, <2>3 DEF At
    <3>2. j + 1 - 1 = j
        BY <2>2
    <3> QED BY <3>1, <3>2
  <2>5. ASSUME j < c PROVE FALSE
    <3>1. (j - i) + 1 \in 1..Len(x) /\ i + ((j - i) + 1) - 1 = j
        BY <1>1, <2>1, <2>5
    <3>2. t[j] = x[(j - i) + 1]
        BY <3>1 DEF At
    <3> QED BY <1>1, <2>4, <3>1, <3>2
  <2> QED BY <2>2, <2>5, <1>1
<1>3. ASSUME c - 1 = Len(t) PROVE cuts = {}
    BY <1>1, <1>2, <1>3
<1>4. ASSUME At(t, c, delim), c + Len(delim) - 1 <= Len(t) PROVE cuts # {} /\ Min(cuts) = c
  <2>1. c \in 1..(Len(t) + 1) /\ c \in i..(Len(t) - Len(delim) + 1)
      BY <1>1, <1>4
  <2>2. SubSeq(t, c, c + Len(delim) - 1) = delim
    <3> HIDE DEF c
    <3> QED BY <1>4, <2>1, AtIsSubSeq
  <2>3. c \in cuts
      BY <2>1, <2>2 DEF Occurrences
  <2>4. cuts \in SUBSET Nat /\ \A j \in cuts : c <= j
      BY <1>2, <1>1
  <2> QED
    <3> HIDE DEF cuts, c
    <3> QED BY <2>3, <2>4, MinIs
<1> QED BY <1>3, <1>4

\* Splitting undoes joining: if no part has the first token of the delimiter, splitting
\* what joins the parts gives the parts.
LEMMA SplitOfJoin ==
    ASSUME NEW Token, NEW parts \in Seq(Seq(Token)), parts # <<>>,
           NEW delim \in Seq(Token), delim # <<>>, Without(parts, delim[1])
    PROVE  Split(Join(parts, delim), delim) = parts
<1> DEFINE n == Len(parts)
           t == Join(parts, delim)
<1>1. PICK J : (\A k \in 1..n : J[k] = JoinFrom(parts, delim, J, k)) /\ t = J[1]
    BY JoinEquation
<1>2. n \in Nat /\ n > 0 /\ (\A k \in 1..n : parts[k] \in Seq(Token)) /\ DOMAIN parts = 1..n
      /\ Len(delim) \in Nat /\ Len(delim) > 0
    OBVIOUS
<1>3. \A k \in 1..n : J[k] \in Seq(Token)
    BY <1>1, JoinFromType
<1>4. t \in Seq(Token) /\ Len(t) \in Nat
    BY <1>1, <1>2, <1>3
<1> HIDE DEF t
<1>5. PICK F : (\A i \in 1..(Len(t) + 1) : F[i] = SplitFrom(t, delim, F, i)) /\ Split(t, delim) = F[1]
    BY <1>4, SplitEquation
<1> DEFINE Tail_(k) == SubSeq(parts, k, n)
           S == {k \in 1..n : \A i \in 1..(Len(t) + 1) :
                    At(t, i, J[k]) /\ i + Len(J[k]) - 1 = Len(t) => F[i] = Tail_(k)}
<1>6. n \in S
  <2>1. n \in 1..n /\ J[n] = JoinFrom(parts, delim, J, n)
      BY <1>1, <1>2
  <2>2. J[n] = parts[n]
      BY <2>1 DEF JoinFrom
  <2> SUFFICES ASSUME NEW i \in 1..(Len(t) + 1), At(t, i, parts[n]), i + Len(parts[n]) - 1 = Len(t)
               PROVE  F[i] = Tail_(n)
      BY <2>1, <2>2
  <2>3. Occurrences(t, delim, i) = {}
      BY <1>2, <1>4, <2>1, CutsAfterPart DEF Without
  <2>4. F[i] = <<SubSeq(t, i, Len(t))>>
      BY <1>5, <2>3 DEF SplitFrom
  <2>5. SubSeq(t, i, i + Len(parts[n]) - 1) = parts[n]
    <3>1. parts[n] \in Seq(Token) /\ i + Len(parts[n]) - 1 <= Len(t)
        BY <1>2, <1>4, <2>1
    <3> QED BY <1>4, <3>1, AtIsSubSeq
  <2>6. Tail_(n) = <<parts[n]>>
    <3>1. n \in 1..Len(parts) /\ n \in n..Len(parts)
        BY <1>2
    <3>2. SubSeq(parts, n, n) = <<parts[n]>> \o SubSeq(parts, n + 1, n)
        BY <3>1, SubSeqRecursiveFirst
    <3>3. SubSeq(parts, n + 1, n) = <<>>
        BY <1>2, SubSeqEmpty
    <3>4. <<parts[n]>> \in Seq(Seq(Token))
        BY <1>2, <2>1
    <3> QED BY <3>2, <3>3, <3>4, ConcatEmptySeq
  <2> QED BY <2>4, <2>5, <2>6
<1>7. ASSUME NEW k \in 1..n, k < n, k + 1 \in S PROVE k \in S
  <2>1. J[k] = parts[k] \o delim \o J[k + 1]
    <3>1. J[k] = JoinFrom(parts, delim, J, k)
        BY <1>1
    <3>2. k # Len(parts)
      <4>1. k < n /\ k \in Nat /\ n \in Nat
          BY <1>2, <1>7
      <4> QED BY <4>1
    <3> QED BY <3>1, <3>2 DEF JoinFrom
  <2> DEFINE x == parts[k]
             y == J[k + 1]
  <2>0. J[k] = (x \o delim) \o y
      BY <2>1
  <2>2. k + 1 \in 1..n /\ x \in Seq(Token) /\ y \in Seq(Token) /\ Len(x) \in Nat /\ Len(y) \in Nat
      BY <1>2, <1>3, <1>7
  <2>3. x \o delim \in Seq(Token) /\ Len(x \o delim) = Len(x) + Len(delim)
    <3> HIDE DEF x
    <3> QED BY <2>2, ConcatProperties
  <2>4. Len(J[k]) = Len(x) + Len(delim) + Len(y)
    <3> HIDE DEF x, y
    <3>1. Len((x \o delim) \o y) = Len(x \o delim) + Len(y)
        BY <2>2, <2>3, ConcatProperties
    <3> QED BY <2>0, <2>3, <3>1
  <2> SUFFICES ASSUME NEW i \in 1..(Len(t) + 1), At(t, i, J[k]), i + Len(J[k]) - 1 = Len(t)
               PROVE  F[i] = Tail_(k)
      OBVIOUS
  <2> DEFINE c == i + Len(x)
             e == c + Len(delim)
  <2>5. At(t, i, x) /\ At(t, c, delim) /\ At(t, e, y)
    <3>0. i \in Nat
        BY <1>4
    <3>1. At(t, i, x \o delim) /\ At(t, i + Len(x \o delim), y)
      <4>1. At(t, i, (x \o delim) \o y)
          BY <2>0
      <4> DEFINE z == x \o delim
      <4>2. z \in Seq(Token) /\ At(t, i, z \o y)
          BY <4>1, <2>3
      <4> HIDE DEF x, y, z
      <4>3. At(t, i, z) /\ At(t, i + Len(z), y)
          BY <4>2, <2>2, <3>0, AtConcat
      <4> QED BY <4>3 DEF z
    <3>2. At(t, i, x) /\ At(t, i + Len(x), delim)
      <4> HIDE DEF x, y
      <4> QED BY <3>0, <3>1, <2>2, AtConcat
    <3>3. i + Len(x \o delim) = e
        BY <2>2, <2>3, <1>2
    <3> QED BY <3>1, <3>2, <3>3
  <2>6. e \in 1..(Len(t) + 1) /\ e + Len(y) - 1 = Len(t) /\ c + Len(delim) - 1 <= Len(t) /\ c \in Nat
    <3> HIDE DEF x, y
    <3> QED BY <1>2, <1>4, <2>2, <2>4
  <2>7. Occurrences(t, delim, i) # {} /\ Min(Occurrences(t, delim, i)) = c
    <3>1. \A j \in DOMAIN x : x[j] # delim[1]
        BY <1>2 DEF Without
    <3> HIDE DEF x
    <3> QED BY <1>4, <2>2, <2>5, <2>6, <3>1, CutsAfterPart
  <2>8. F[i] = <<SubSeq(t, i, c - 1)>> \o F[e]
    <3> F[i] = SplitFrom(t, delim, F, i)
        BY <1>5
    <3> HIDE DEF c
    <3> QED BY <2>7 DEF SplitFrom
  <2>9. SubSeq(t, i, c - 1) = x
    <3> HIDE DEF x
    <3>1. i + Len(x) - 1 <= Len(t) /\ i + Len(x) - 1 = c - 1
        BY <1>2, <2>2, <2>6
    <3>2. SubSeq(t, i, i + Len(x) - 1) = x
        BY <1>4, <2>2, <2>5, <3>1, AtIsSubSeq
    <3> QED BY <3>1, <3>2
  <2>10. F[e] = Tail_(k + 1)
    <3> HIDE DEF e, Tail_
    <3> QED BY <1>7, <2>5, <2>6 
  <2>11. Tail_(k) = <<x>> \o Tail_(k + 1)
    <3>1. n \in k..Len(parts) /\ k \in 1..Len(parts)
        BY <1>2
    <3> QED BY <3>1, SubSeqRecursiveFirst
  <2> QED BY <2>8, <2>9, <2>10, <2>11
<1>8. 1 \in S
  <2>1. 1..n \subseteq S
    <3> HIDE DEF S, n
    <3> QED BY <1>2, <1>6, <1>7, DownInduction
  <2>2. 1 \in 1..n
      BY <1>2
  <2> QED BY <2>1, <2>2
<1>9. F[1] = Tail_(1)
  <2>1. At(t, 1, J[1]) /\ 1 + Len(J[1]) - 1 = Len(t)
      BY <1>1, <1>4, AtSelf
  <2> HIDE DEF Tail_
  <2> QED BY <1>4, <1>8, <2>1
<1>10. Tail_(1) = parts
    BY SubSeqFull
<1> QED BY <1>5, <1>9, <1>10 DEF t

\* One part is joined to itself.
LEMMA JoinOfOne ==
    ASSUME NEW Token, NEW x \in Seq(Token), NEW delim \in Seq(Token)
    PROVE  Join(<<x>>, delim) = x
<1>1. <<x>> \in Seq(Seq(Token)) /\ <<x>> # <<>> /\ Len(<<x>>) = 1
    OBVIOUS
<1>2. PICK J : (\A k \in 1..Len(<<x>>) : J[k] = JoinFrom(<<x>>, delim, J, k)) /\ Join(<<x>>, delim) = J[1]
    BY <1>1, JoinEquation
<1>3. J[1] = JoinFrom(<<x>>, delim, J, 1)
    BY <1>1, <1>2
<1> QED BY <1>1, <1>2, <1>3 DEF JoinFrom

\* A part, the delimiter, and what the others are joined to.
LEMMA JoinOfMore ==
    ASSUME NEW Token, NEW x \in Seq(Token), NEW delim \in Seq(Token),
           NEW rest \in Seq(Seq(Token)), rest # <<>>
    PROVE  Join(<<x>> \o rest, delim) = x \o delim \o Join(rest, delim)
<1> DEFINE all == <<x>> \o rest
           n == Len(rest)
<1>1. n \in Nat /\ n > 0
    OBVIOUS
<1>2. all \in Seq(Seq(Token)) /\ all # <<>> /\ Len(all) = n + 1
      /\ all[1] = x /\ \A k \in 1..n : all[k + 1] = rest[k]
  <2>0. <<x>> \in Seq(Seq(Token)) /\ Len(<<x>>) = 1 /\ <<x>>[1] = x
      OBVIOUS
  <2>1. /\ all \in Seq(Seq(Token)) /\ Len(all) = 1 + n
        /\ \A i \in 1..(1 + n) : all[i] = IF i <= 1 THEN <<x>>[i] ELSE rest[i - 1]
      BY <2>0, ConcatProperties
  <2>2. ASSUME NEW k \in 1..n PROVE all[k + 1] = rest[k]
    <3>1. k + 1 \in 1..(1 + n) /\ ~(k + 1 <= 1) /\ (k + 1) - 1 = k
        BY <1>1
    <3> HIDE DEF all
    <3> QED BY <2>1, <3>1
  <2> HIDE DEF all
  <2>3. all # <<>>
      BY <2>1, <1>1
  <2>4. 1 \in 1..(1 + n) /\ all[1] = x
      BY <2>0, <2>1, <1>1
  <2> QED BY <1>1, <2>1, <2>2, <2>3, <2>4
<1> HIDE DEF all
<1>3. PICK J : (\A k \in 1..n : J[k] = JoinFrom(rest, delim, J, k)) /\ Join(rest, delim) = J[1]
    BY JoinEquation
<1>4. PICK A : (\A k \in 1..Len(all) : A[k] = JoinFrom(all, delim, A, k)) /\ Join(all, delim) = A[1]
    BY <1>2, JoinEquation
<1> DEFINE S == {k \in 1..n : A[k + 1] = J[k]}
<1>5. n \in S
  <2>1. n \in 1..n /\ n + 1 \in 1..Len(all)
      BY <1>1, <1>2
  <2>2. A[n + 1] = JoinFrom(all, delim, A, n + 1) /\ J[n] = JoinFrom(rest, delim, J, n)
      BY <1>3, <1>4, <2>1
  <2>3. A[n + 1] = all[n + 1] /\ J[n] = rest[n]
      BY <1>2, <2>2 DEF JoinFrom
  <2> QED BY <1>2, <2>1, <2>3
<1>6. ASSUME NEW k \in 1..n, k < n, k + 1 \in S PROVE k \in S
  <2>1. k + 1 \in 1..Len(all) /\ k + 1 # Len(all) /\ k # Len(rest)
      BY <1>1, <1>2, <1>6
  <2>2. A[k + 1] = JoinFrom(all, delim, A, k + 1) /\ J[k] = JoinFrom(rest, delim, J, k)
      BY <1>3, <1>4, <2>1
  <2>3. A[k + 1] = all[k + 1] \o delim \o A[(k + 1) + 1] /\ J[k] = rest[k] \o delim \o J[k + 1]
      BY <2>1, <2>2 DEF JoinFrom
  <2>4. all[k + 1] = rest[k] /\ A[(k + 1) + 1] = J[k + 1]
      BY <1>2, <1>6
  <2> QED BY <2>3, <2>4
<1>7. 1 \in S
  <2>1. 1..n \subseteq S
    <3> HIDE DEF S, n
    <3> QED BY <1>1, <1>5, <1>6, DownInduction
  <2>2. 1 \in 1..n
      BY <1>1
  <2> QED BY <2>1, <2>2
<1>8. A[1] = x \o delim \o A[2]
  <2>1. 1 \in 1..Len(all) /\ 1 # Len(all) /\ 1 + 1 = 2
      BY <1>1, <1>2
  <2>2. A[1] = JoinFrom(all, delim, A, 1)
      BY <1>4, <2>1
  <2> QED BY <1>2, <2>1, <2>2 DEF JoinFrom
<1>9. A[2] = J[1]
    BY <1>7
<1> QED BY <1>3, <1>4, <1>8, <1>9 DEF all

\* Joining undoes splitting, whatever the text is.
LEMMA JoinOfSplit ==
    ASSUME NEW Token, NEW t \in Seq(Token), NEW delim \in Seq(Token), delim # <<>>
    PROVE  /\ Split(t, delim) \in Seq(Seq(Token)) /\ Split(t, delim) # <<>>
           /\ Join(Split(t, delim), delim) = t
<1> DEFINE n == Len(t)
<1>1. PICK F : (\A i \in 1..(n + 1) : F[i] = SplitFrom(t, delim, F, i)) /\ Split(t, delim) = F[1]
    BY SplitEquation
<1>2. n \in Nat /\ Len(delim) \in Nat /\ Len(delim) > 0
    OBVIOUS
<1> DEFINE Good(i) == F[i] \in Seq(Seq(Token)) /\ F[i] # <<>> /\ Join(F[i], delim) = SubSeq(t, i, n)
           S == {i \in 1..(n + 1) : Good(i)}
<1>3. \A i \in 1..(n + 1), j \in 0..n : SubSeq(t, i, j) \in Seq(Token)
    OBVIOUS
<1>4. ASSUME NEW i \in 1..(n + 1), (i + 1)..(n + 1) \subseteq S PROVE i \in S
  <2>0. F[i] = SplitFrom(t, delim, F, i)
      BY <1>1
  <2>1. CASE Occurrences(t, delim, i) = {}
    <3> DEFINE y == SubSeq(t, i, n)
    <3>1. F[i] = <<y>> /\ y \in Seq(Token)
        BY <1>2, <1>3, <2>0, <2>1 DEF SplitFrom
    <3> HIDE DEF y
    <3>2. Join(<<y>>, delim) = y
        BY <3>1, JoinOfOne
    <3>3. <<y>> \in Seq(Seq(Token)) /\ <<y>> # <<>>
        BY <3>1
    <3>4. Good(i)
        BY <3>1, <3>2, <3>3 DEF y
    <3> HIDE DEF Good
    <3> QED BY <3>4
  <2>2. CASE Occurrences(t, delim, i) # {}
    <3> DEFINE c == Min(Occurrences(t, delim, i))
               e == c + Len(delim)
               x == SubSeq(t, i, c - 1)
               rest == F[e]
    <3>1. c \in Occurrences(t, delim, i) /\ c \in Nat /\ c >= i /\ e \in (i + 1)..(n + 1)
        BY <2>2, FirstOccurrence
    <3>2. SubSeq(t, c, e - 1) = delim
      <4> HIDE DEF c
      <4> QED BY <3>1 DEF Occurrences
    <3>3. F[i] = <<x>> \o rest
        BY <2>0, <2>2 DEF SplitFrom
    <3> HIDE DEF c
    <3>4. Good(e)
        BY <1>4, <3>1
    <3>5. x \in Seq(Token)
      <4>1. c - 1 \in 0..n
          BY <1>2, <3>1
      <4> QED BY <1>3, <4>1
    <3>6. Join(<<x>> \o rest, delim) = x \o delim \o SubSeq(t, e, n)
      <4>1. rest \in Seq(Seq(Token)) /\ rest # <<>> /\ Join(rest, delim) = SubSeq(t, e, n)
          BY <3>4
      <4> DEFINE z == SubSeq(t, e, n)
      <4>2. rest \in Seq(Seq(Token)) /\ rest # <<>> /\ Join(rest, delim) = z
          BY <4>1
      <4> HIDE DEF x, rest, e, z
      <4>3. Join(<<x>> \o rest, delim) = x \o delim \o Join(rest, delim)
          BY <3>5, <4>2, JoinOfMore
      <4>4. Join(<<x>> \o rest, delim) = x \o delim \o z
          BY <4>2, <4>3
      <4> QED BY <4>4 DEF z
    <3>7. x \o delim = SubSeq(t, i, e - 1)
      <4>1. i \in 1..(Len(t) + 1) /\ c - 1 \in (i - 1)..Len(t) /\ e - 1 \in (c - 1)..Len(t)
          BY <1>2, <3>1
      <4>2. SubSeq(t, i, c - 1) \o SubSeq(t, (c - 1) + 1, e - 1) = SubSeq(t, i, e - 1)
        <5> HIDE DEF e
        <5> QED BY <4>1, ConcatAdjacentSubSeq
      <4>3. (c - 1) + 1 = c
          BY <3>1
      <4> HIDE DEF e
      <4> QED BY <3>2, <4>2, <4>3
    <3>8. SubSeq(t, i, e - 1) \o SubSeq(t, e, n) = SubSeq(t, i, n)
      <4>1. i \in 1..(Len(t) + 1) /\ e - 1 \in (i - 1)..Len(t) /\ n \in (e - 1)..Len(t) /\ (e - 1) + 1 = e
          BY <1>2, <3>1
      <4>2. SubSeq(t, i, e - 1) \o SubSeq(t, (e - 1) + 1, n) = SubSeq(t, i, n)
        <5> HIDE DEF e
        <5> QED BY <4>1, ConcatAdjacentSubSeq
      <4> HIDE DEF e
      <4> QED BY <4>1, <4>2
    <3>9. <<x>> \o rest \in Seq(Seq(Token)) /\ <<x>> \o rest # <<>>
      <4>1. rest \in Seq(Seq(Token)) /\ rest # <<>>
          BY <3>4
      <4> HIDE DEF x, rest
      <4> QED BY <3>5, <4>1
    <3> HIDE DEF x, rest, e
    <3>10. Good(i)
        BY <3>3, <3>6, <3>7, <3>8, <3>9
    <3> QED BY <3>10
  <2> QED BY <2>1, <2>2
<1>5. 1 \in S
  <2>1. n + 1 \in Nat /\ 1 \in 1..(n + 1)
      BY <1>2
  <2>2. 1..(n + 1) \subseteq S
    <3> DEFINE m == n + 1
    <3>1. \A k \in 1..m : (k + 1)..m \subseteq S => k \in S
        BY <1>4
    <3> HIDE DEF S, m
    <3> QED BY <2>1, <3>1, StrongDownInduction DEF m
  <2> QED BY <2>1, <2>2
<1>6. SubSeq(t, 1, n) = t
    BY SubSeqFull
<1> QED BY <1>1, <1>5, <1>6

-----------------------------------------------------------------------------
(* The recursion over schemas *)

\* The schemas that the decoders recurse into, and those that one is made of.
ComposedSchemas == {s \in Schemas : IsComposed(s)}
Parts(s) == {s.subs[i] : i \in DOMAIN s.subs} \cap ComposedSchemas

\* What holds of a composed schema if it holds of all that it is made of holds of each:
\* the recursion of decodeValue ends.
LEMMA CompositionInduction ==
    ASSUME NEW S, \A s \in ComposedSchemas : Parts(s) \subseteq S => s \in S
    PROVE  ComposedSchemas \subseteq S
<1> DEFINE T == S \cap ComposedSchemas
<1>1. \A s \in ComposedSchemas : Parts(s) \subseteq T => s \in T
    OBVIOUS
<1>2. T \in SUBSET ComposedSchemas
    OBVIOUS
<1>3. T = ComposedSchemas
  <2> HIDE DEF T
  <2> QED BY <1>1, <1>2, SchemasAssumption DEF ComposedSchemas, Parts
<1> QED BY <1>3

\* Each alternative of a composed schema is a schema, composed or not.
LEMMA SubSchemas ==
    ASSUME NEW s \in ComposedSchemas, NEW i \in DOMAIN s.subs
    PROVE  s.subs[i] \in Schemas /\ (s.subs[i] \in ComposedSchemas => s.subs[i] \in Parts(s))
BY SchemasAssumption DEF ComposedSchemas, Parts

\* A set of composed schemas with all of which they are composed.
Closed(A) == A \subseteq ComposedSchemas /\ \A s \in A : Parts(s) \subseteq A

\* One step of either recursion over schemas: d says which one, and of what.
Parsing(v) == [of |-> "text", text |-> v]
Decoding(p, w) == [of |-> "parameter", p |-> p, w |-> w]

\* What the code makes of the results for the alternatives, and without any.
OfParts(d, s, r) == IF d.of = "text" THEN ParseComposed(s, r) ELSE DecodeComposed(d.p, s, r)
OfNone(d, s) ==
    IF d.of = "text" THEN IF s.of = "not" THEN Bad ELSE ParsePrimitive(d.text, s)
    ELSE DecodePlain(d.p, d.w, s)

\* One step of the recursion, given the results for the other schemas.
Step(d, f, s) ==
    IF IsComposed(s) THEN OfParts(d, s, [i \in DOMAIN s.subs |-> f[s.subs[i]]]) ELSE OfNone(d, s)

\* That f solves the equation for the schemas of A, and for all that are not composed.
Solves(d, f, A) == \A s \in A \cup (Schemas \ ComposedSchemas) : f[s] = Step(d, f, s)

\* A step asks for the results of the alternatives only,
LEMMA StepLocal ==
    ASSUME NEW d, NEW f, NEW g, NEW s \in ComposedSchemas,
           \A i \in DOMAIN s.subs : f[s.subs[i]] = g[s.subs[i]]
    PROVE  Step(d, f, s) = Step(d, g, s)
<1>1. [i \in DOMAIN s.subs |-> f[s.subs[i]]] = [i \in DOMAIN s.subs |-> g[s.subs[i]]]
    OBVIOUS
<1> QED BY <1>1 DEF Step

\* and for none if the schema is not composed.
LEMMA StepOfOthers ==
    ASSUME NEW d, NEW f, NEW g, NEW s \in Schemas \ ComposedSchemas
    PROVE  Step(d, f, s) = Step(d, g, s)
BY DEF Step, ComposedSchemas

\* Two solutions agree where both are one.
LEMMA SolutionsAgree ==
    ASSUME NEW d, NEW A, NEW B, Closed(A), Closed(B), NEW f, NEW g,
           Solves(d, f, A), Solves(d, g, B)
    PROVE  \A s \in (A \cap B) \cup (Schemas \ ComposedSchemas) : f[s] = g[s]
<1> DEFINE S == {s \in ComposedSchemas : s \in A \cap B => f[s] = g[s]}
<1>1. ASSUME NEW s \in Schemas \ ComposedSchemas PROVE f[s] = g[s]
    BY StepOfOthers DEF Solves
<1>2. ASSUME NEW s \in ComposedSchemas, Parts(s) \subseteq S PROVE s \in S
  <2> SUFFICES ASSUME s \in A \cap B PROVE f[s] = g[s]
      OBVIOUS
  <2>1. Parts(s) \subseteq A \cap B
      BY DEF Closed
  <2>2. ASSUME NEW i \in DOMAIN s.subs PROVE f[s.subs[i]] = g[s.subs[i]]
      BY <1>1, <1>2, <2>1, SubSchemas
  <2>3. Step(d, f, s) = Step(d, g, s)
      BY <2>2, StepLocal
  <2> QED BY <2>3 DEF Solves
<1>3. ComposedSchemas \subseteq S
  <2> HIDE DEF S
  <2> QED BY <1>2, CompositionInduction
<1>4. A \cap B \subseteq S
    BY <1>3 DEF Closed
<1> QED BY <1>1, <1>4

\* The recursion over schemas has a solution, of which the operators of the decoders are
\* then one.
LEMMA SolutionExists ==
    ASSUME NEW d
    PROVE  \E f : f = [s \in Schemas |-> Step(d, f, s)]
<1> DEFINE Sol(A, g) == Closed(A) /\ Solves(d, g, A)
           S == {x \in ComposedSchemas : \E A, g : Sol(A, g) /\ x \in A}
           Is(x, y) == \E A, g : Sol(A, g) /\ x \in A /\ y = g[x]
           val == [x \in Schemas |-> IF x \in S THEN CHOOSE y : Is(x, y) ELSE Step(d, <<>>, x)]
<1>1. Closed(S)
    BY DEF Closed
<1>2. ASSUME NEW A, NEW g, Sol(A, g), NEW x \in A \cup (Schemas \ ComposedSchemas)
      PROVE  val[x] = g[x]
  <2>1. CASE x \in A
    <3>1. x \in S /\ x \in Schemas
        BY <1>2, <2>1 DEF Closed, ComposedSchemas
    <3>2. Is(x, g[x])
        BY <1>2, <2>1
    <3>3. PICK B, h : Sol(B, h) /\ x \in B /\ val[x] = h[x]
      <4>1. Is(x, CHOOSE y : Is(x, y))
          BY <3>2
      <4>2. val[x] = CHOOSE y : Is(x, y)
          BY <3>1
      <4> HIDE DEF val
      <4> QED BY <4>1, <4>2
    <3> HIDE DEF val
    <3> QED BY <1>2, <2>1, <3>3, SolutionsAgree
  <2>2. CASE x \notin A
    <3>1. x \in Schemas \ ComposedSchemas
        BY <2>2
    <3>2. val[x] = Step(d, <<>>, x)
        BY <3>1
    <3> HIDE DEF val
    <3> QED BY <1>2, <3>1, <3>2, StepOfOthers DEF Solves
  <2> QED BY <2>1, <2>2
<1>3. Solves(d, val, S)
  <2>1. ASSUME NEW x \in Schemas \ ComposedSchemas PROVE val[x] = Step(d, val, x)
    <3>1. val[x] = Step(d, <<>>, x)
        OBVIOUS
    <3> HIDE DEF val
    <3> QED BY <3>1, StepOfOthers
  <2>2. ASSUME NEW x \in S PROVE val[x] = Step(d, val, x)
    <3>1. PICK A, g : Sol(A, g) /\ x \in A
        OBVIOUS
    <3>2. g[x] = Step(d, g, x) /\ x \in ComposedSchemas /\ Parts(x) \subseteq A
        BY <3>1 DEF Closed, Solves
    <3> HIDE DEF val, S
    <3>3. val[x] = g[x] /\ \A i \in DOMAIN x.subs : val[x.subs[i]] = g[x.subs[i]]
        BY <1>2, <3>1, <3>2, SubSchemas
    <3>4. Step(d, val, x) = Step(d, g, x)
        BY <3>2, <3>3, StepLocal
    <3> QED BY <3>2, <3>3, <3>4
  <2> HIDE DEF val, S
  <2> QED BY <2>1, <2>2 DEF Solves
<1>4. ASSUME NEW x \in ComposedSchemas, Parts(x) \subseteq S PROVE x \in S
  <2> SUFFICES ASSUME x \notin S PROVE FALSE
      OBVIOUS
  <2> DEFINE g == [y \in Schemas |-> IF y = x THEN Step(d, val, x) ELSE val[y]]
             A == S \cup {x}
  <2>1. Closed(A)
      BY <1>1, <1>4 DEF Closed
  <2>2. \A y \in Schemas \ {x} : g[y] = val[y]
    <3> HIDE DEF val
    <3> QED OBVIOUS
  <2>3. g[x] = Step(d, val, x)
    <3> HIDE DEF val
    <3> QED BY DEF ComposedSchemas
  <2>4. x \notin Parts(x) /\ \A y \in S : x \notin Parts(y) /\ y # x
      BY <1>1, <1>4 DEF Closed
  <2> HIDE DEF g, val, S
  <2>5. ASSUME NEW y \in A PROVE Step(d, g, y) = Step(d, val, y)
    <3>1. y \in ComposedSchemas /\ x \notin Parts(y)
        BY <1>1, <2>4 DEF Closed
    <3>2. \A i \in DOMAIN y.subs : g[y.subs[i]] = val[y.subs[i]]
        BY <1>4, <2>2, <3>1, SubSchemas
    <3> QED BY <3>1, <3>2, StepLocal
  <2>6. ASSUME NEW y \in Schemas \ ComposedSchemas PROVE g[y] = Step(d, g, y)
    <3>1. y # x /\ val[y] = Step(d, val, y)
        BY <1>3, <1>4 DEF Solves
    <3> QED BY <2>2, <3>1, StepOfOthers
  <2>7. ASSUME NEW y \in A PROVE g[y] = Step(d, g, y)
    <3>1. CASE y = x
        BY <2>3, <2>5, <3>1
    <3>2. CASE y \in S /\ y # x
      <4>1. y \in Schemas /\ val[y] = Step(d, val, y)
          BY <1>1, <1>3, <3>2 DEF Solves, Closed, ComposedSchemas
      <4> QED BY <2>2, <2>5, <3>2, <4>1
    <3> QED BY <3>1, <3>2
  <2>8. Solves(d, g, A)
    <3> HIDE DEF A
    <3> QED BY <2>6, <2>7 DEF Solves
  <2>9. Sol(A, g) /\ x \in A
      BY <2>1, <2>8
  <2> HIDE DEF Sol, A
  <2>10. x \in S
      BY <2>9, <1>4 DEF S
  <2> QED BY <2>10
<1>5. ComposedSchemas \subseteq S
  <2> HIDE DEF S
  <2> QED BY <1>4, CompositionInduction
<1>6. val = [x \in Schemas |-> Step(d, val, x)]
  <2>1. \A x \in Schemas : val[x] = Step(d, val, x)
    <3> HIDE DEF val, S
    <3> QED BY <1>3, <1>5 DEF Solves
  <2>2. val = [x \in Schemas |-> val[x]]
      OBVIOUS
  <2> HIDE DEF val
  <2> QED BY <2>1, <2>2
<1> HIDE DEF val
<1> QED BY <1>6

\* What parseValue gives for a schema, from what it gives for its alternatives.
LEMMA ParseValueEquation ==
    ASSUME NEW v, NEW s \in Schemas
    PROVE  ParseValue(v)[s] =
            IF IsComposed(s) THEN ParseComposed(s, [i \in DOMAIN s.subs |-> ParseValue(v)[s.subs[i]]])
            ELSE IF s.of = "not" THEN Bad ELSE ParsePrimitive(v, s)
<1> DEFINE d == Parsing(v)
           Body(f, x) ==
            IF IsComposed(x) THEN ParseComposed(x, [i \in DOMAIN x.subs |-> f[x.subs[i]]])
            ELSE IF x.of = "not" THEN Bad ELSE ParsePrimitive(v, x)
           f == CHOOSE f : f = [x \in Schemas |-> Body(f, x)]
<1>1. ASSUME NEW g, NEW x PROVE Step(d, g, x) = Body(g, x)
    BY DEF Step, OfParts, OfNone, Parsing
<1>2. PICK g : g = [x \in Schemas |-> Step(d, g, x)]
    BY SolutionExists
<1>3. f = [x \in Schemas |-> Body(f, x)]
  <2>1. g = [x \in Schemas |-> Body(g, x)]
    <3> HIDE DEF Body, d
    <3> QED BY <1>1, <1>2
  <2> HIDE DEF Body
  <2> QED BY <2>1
<1>4. ParseValue(v) = f
    BY DEF ParseValue
<1> HIDE DEF f
<1>5. f[s] = Body(f, s)
  <2> HIDE DEF Body
  <2> QED BY <1>3
<1> QED BY <1>4, <1>5

\* What decodeValue gives for each schema that the decoding of a parameter comes to.
DecodedAt(p, w) ==
    CHOOSE f : f = [s \in Schemas |->
            IF IsComposed(s) THEN DecodeComposed(p, s, [i \in DOMAIN s.subs |-> f[s.subs[i]]])
            ELSE DecodePlain(p, w, s)]

\* What decodeValue gives for a schema, from what it gives for its alternatives.
LEMMA DecodedAtEquation ==
    ASSUME NEW p, NEW w, NEW s \in Schemas
    PROVE  DecodedAt(p, w)[s] =
            IF IsComposed(s) THEN DecodeComposed(p, s, [i \in DOMAIN s.subs |-> DecodedAt(p, w)[s.subs[i]]])
            ELSE DecodePlain(p, w, s)
<1> DEFINE d == Decoding(p, w)
           Body(f, x) ==
            IF IsComposed(x) THEN DecodeComposed(p, x, [i \in DOMAIN x.subs |-> f[x.subs[i]]])
            ELSE DecodePlain(p, w, x)
           f == CHOOSE f : f = [x \in Schemas |-> Body(f, x)]
<1>1. ASSUME NEW g, NEW x PROVE Step(d, g, x) = Body(g, x)
    BY DEF Step, OfParts, OfNone, Decoding
<1>2. PICK g : g = [x \in Schemas |-> Step(d, g, x)]
    BY SolutionExists
<1>3. f = [x \in Schemas |-> Body(f, x)]
  <2>1. g = [x \in Schemas |-> Body(g, x)]
    <3> HIDE DEF Body, d
    <3> QED BY <1>1, <1>2
  <2> HIDE DEF Body
  <2> QED BY <2>1
<1>4. DecodedAt(p, w) = f
    BY DEF DecodedAt
<1> HIDE DEF f
<1>5. f[s] = Body(f, s)
  <2> HIDE DEF Body
  <2> QED BY <1>3
<1> QED BY <1>4, <1>5

\* What it gives for the parameter is what it gives for its schema.
LEMMA DecodeValueEquation ==
    ASSUME NEW p, NEW w PROVE DecodeValue(p, w) = DecodedAt(p, w)[p.schema]
BY DEF DecodeValue, DecodedAt

-----------------------------------------------------------------------------
(* What is written is decoded: parameters, their prefixes and texts *)

\* What cutPrefix leaves of a text with the prefix before it.
LEMMA PrefixOfConcat ==
    ASSUME NEW Token, NEW a \in Seq(Token), NEW b \in Seq(Token)
    PROVE  IsPrefix(a, a \o b) /\ CutPrefix(a \o b, a) = b
<1>1. Len(a \o b) = Len(a) + Len(b) /\ Len(a) \in Nat /\ Len(b) \in Nat /\ a \o b \in Seq(Token)
    BY ConcatProperties
<1>2. SubSeq(a \o b, 1, Len(a)) = a
    BY SubSeqOfConcat1, SubSeqFull
<1>3. SubSeq(a, 1, Len(a)) = a
    BY SubSeqFull
<1>4. SubSeq(a \o b, Len(a) + 1, Len(a) + Len(b)) = b
  <2> DEFINE ab == a \o b
             rest == SubSeq(ab, Len(a) + 1, Len(a) + Len(b))
  <2>1. ab \in Seq(Token) /\ Len(ab) = Len(a) + Len(b)
      BY <1>1
  <2>2. a \o rest = a \o b
    <3> HIDE DEF ab
    <3>1. 1 \in 1..(Len(ab) + 1) /\ Len(a) \in 0..Len(ab) /\ Len(ab) \in Len(a)..Len(ab) /\ 1 - 1 = 0
        BY <1>1, <2>1
    <3>2. SubSeq(ab, 1, Len(a)) \o SubSeq(ab, Len(a) + 1, Len(ab)) = SubSeq(ab, 1, Len(ab))
        BY <2>1, <3>1, ConcatAdjacentSubSeq
    <3>3. SubSeq(ab, 1, Len(ab)) = ab /\ SubSeq(ab, 1, Len(a)) = a
        BY <2>1, <1>2, SubSeqFull DEF ab
    <3> QED BY <2>1, <3>2, <3>3 DEF ab
  <2>3. rest \in Seq(Token)
    <3> HIDE DEF ab
    <3> QED BY <1>1, <2>1
  <2> HIDE DEF rest
  <2>4. rest = b
      BY <2>2, <2>3, ConcatSimplifications
  <2> QED BY <2>4 DEF rest
<1> QED BY <1>1, <1>2, <1>3, <1>4 DEF IsPrefix, CutPrefix

\* A text that has the prefix is the prefix and what cutPrefix leaves.
LEMMA ConcatOfPrefix ==
    ASSUME NEW Token, NEW a \in Seq(Token), NEW t \in Seq(Token), IsPrefix(a, t)
    PROVE  t = a \o CutPrefix(t, a)
<1>1. Len(a) \in Nat /\ Len(t) \in Nat /\ Len(a) <= Len(t)
    BY DEF IsPrefix
<1>2. SubSeq(t, 1, Len(a)) = a
    BY SubSeqFull DEF IsPrefix
<1>3. SubSeq(t, 1, Len(a)) \o SubSeq(t, Len(a) + 1, Len(t)) = SubSeq(t, 1, Len(t))
  <2>1. 1 \in 1..(Len(t) + 1) /\ Len(a) \in (1 - 1)..Len(t) /\ Len(t) \in Len(a)..Len(t)
      BY <1>1
  <2> QED BY <2>1, ConcatAdjacentSubSeq
<1>4. SubSeq(t, 1, Len(t)) = t
    BY SubSeqFull
<1> QED BY <1>2, <1>3, <1>4 DEF CutPrefix

\* What texts are joined to is a text,
LEMMA JoinType ==
    ASSUME NEW Token, NEW parts \in Seq(Seq(Token)), NEW delim \in Seq(Token)
    PROVE  Join(parts, delim) \in Seq(Token)
<1>1. CASE parts = <<>>
  <2>1. Join(parts, delim) = <<>>
      BY <1>1 DEF Join
  <2> QED BY <2>1
<1>2. CASE parts # <<>>
  <2>1. PICK J : (\A k \in 1..Len(parts) : J[k] = JoinFrom(parts, delim, J, k)) /\ Join(parts, delim) = J[1]
      BY <1>2, JoinEquation
  <2>2. 1 \in 1..Len(parts)
      BY <1>2
  <2>3. \A k \in 1..Len(parts) : J[k] \in Seq(Token)
      BY <1>2, <2>1, JoinFromType
  <2> QED BY <2>1, <2>2, <2>3
<1> QED BY <1>1, <1>2

\* and not the empty one if the first of them is not.
LEMMA JoinNotEmpty ==
    ASSUME NEW Token, NEW parts \in Seq(Seq(Token)), parts # <<>>, NEW delim \in Seq(Token), parts[1] # <<>>
    PROVE  Join(parts, delim) # <<>>
<1>1. PICK J : (\A k \in 1..Len(parts) : J[k] = JoinFrom(parts, delim, J, k)) /\ Join(parts, delim) = J[1]
    BY JoinEquation
<1>2. 1 \in 1..Len(parts) /\ J[1] = JoinFrom(parts, delim, J, 1) /\ parts[1] \in Seq(Token) /\ Len(parts) \in Nat
    BY <1>1
<1>3. CASE 1 = Len(parts)
    BY <1>1, <1>2, <1>3 DEF JoinFrom
<1>4. CASE 1 # Len(parts)
  <2>1. J[1] = (parts[1] \o delim) \o J[2]
    <3>1. J[1] = (parts[1] \o delim) \o J[1 + 1]
        BY <1>2, <1>4 DEF JoinFrom
    <3> QED BY <3>1
  <2>2. 2 \in 1..Len(parts)
    <3>1. \A n \in Nat : n >= 1 /\ n # 1 => 2 \in 1..n
        OBVIOUS
    <3>2. Len(parts) \in Nat /\ Len(parts) >= 1 /\ Len(parts) # 1
        BY <1>4
    <3> QED BY <3>1, <3>2
  <2>3. J[2] \in Seq(Token)
    <3>1. \A k \in 1..Len(parts) : J[k] \in Seq(Token)
        BY <1>1, JoinFromType
    <3> QED BY <2>2, <3>1
  <2>4. parts[1] \o delim \in Seq(Token) /\ parts[1] \o delim # <<>>
      BY <1>2, ConcatProperties, ConcatEqualIffEmpty
  <2> QED BY <1>1, <2>1, <2>3, <2>4, ConcatEqualIffEmpty
<1> QED BY <1>3, <1>4

\* The prefix of a style is a text.
LEMMA PrefixType ==
    ASSUME NEW Token, NEW p, IsWritten(p, Token), NEW shape
    PROVE  Prefix(p, shape) \in Seq(Token)
<1>1. ";" \in Token /\ "=" \in Token /\ "." \in Token /\ p.name \in Token
    BY DEF IsWritten, Delimiters
<1>2. \A a, b, c \in Token : <<a>> \in Seq(Token) /\ <<a, b, c>> \in Seq(Token)
    OBVIOUS
<1>3. <<".">> \in Seq(Token) /\ <<";">> \in Seq(Token) /\ Named(p) \in Seq(Token) /\ <<>> \in Seq(Token)
    BY <1>1, <1>2, EmptySeq, Zenon DEF Named
<1> QED BY <1>3 DEF Prefix

\* A schema that is not composed is decoded without any recursion.
LEMMA PlainSchemaDecoded ==
    ASSUME NEW p, NEW w, p.schema \in Schemas, ~IsComposed(p.schema)
    PROVE  DecodeValue(p, w) = DecodePlain(p, w, p.schema)
BY DecodeValueEquation, DecodedAtEquation

\* A primitive schema is of a type that is no list, no object and not left open.
LEMMA PrimitiveMeaning ==
    ASSUME NEW s, IsPrimitive(s)
    PROVE  s.of = "type" /\ s.type \notin {"", "array", "object"} /\ ~IsComposed(s)
BY LexicalAssumption DEF IsPrimitive, IsComposed

\* A text that strconv reads is parsed to its value.
LEMMA ReadIsParsed ==
    ASSUME NEW s, IsPrimitive(s), NEW text, text # <<>>, Reads(s.type, text)
    PROVE  ParsePrimitive(text, s) = Ok(Primitive(s.type, text))
BY DEF ParsePrimitive

\* A primitive value has its text.
LEMMA PrimitiveFields ==
    ASSUME NEW type, NEW text
    PROVE  Primitive(type, text).kind = "primitive" /\ Primitive(type, text).text = text
BY DEF Primitive

\* The first of a list is one of it.
LEMMA FirstOf ==
    ASSUME NEW S, NEW x \in Seq(S), x # <<>> PROVE x[1] \in S
OBVIOUS

\* A primitive value is written as its text after the prefix of the style.
LEMMA TextWritten ==
    ASSUME NEW Token, NEW p, NEW text \in Seq(Token)
    PROVE  SerializeText(p, text) = Alone(Prefix(p, "primitive") \o text)
<1> DEFINE prefix == Prefix(p, "primitive")
<1>1. <<>> \o text = text
    BY ConcatEmptySeq
<1>2. p.style \notin {"label", "matrix"} => prefix = <<>>
    BY DEF Prefix
<1>3. p.style = "label" => prefix = <<".">>
    BY DEF Prefix
<1>4. p.style = "matrix" => prefix = <<";", p.name, "=">>
    BY DEF Prefix, Named
<1>5. SerializeText(p, text) = Alone(prefix \o text)
  <2> HIDE DEF prefix
  <2>1. CASE p.style = "label"
      BY <1>3, <2>1 DEF SerializeText
  <2>2. CASE p.style = "matrix"
      BY <1>4, <2>2 DEF SerializeText
  <2>3. CASE p.style \notin {"label", "matrix"}
      BY <1>1, <1>2, <2>3 DEF SerializeText
  <2> QED BY <2>1, <2>2, <2>3
<1> QED BY <1>5

-----------------------------------------------------------------------------
(* Texts and lists *)

\* decodePrimitive undoes the serialization: in every place and style, what OpenAPI
\* writes for a primitive value is decoded to that value, whatever its text is.
THEOREM WrittenPrimitiveIsDecoded ==
    ASSUME NEW Token, NEW p, IsWritten(p, Token), IsPrimitive(p.schema), Supported(p, "primitive"),
           NEW text \in Seq(Token), text # <<>>, Reads(p.schema.type, text)
    PROVE  LET v == Primitive(p.schema.type, text)
           IN  \A w \in Serializations(p, v) : DecodeStyledParameter(p, w) = Decoded(TRUE, Ok(v))
<1> DEFINE s == p.schema
           v == Primitive(s.type, text)
           w == SerializeText(p, text)
           prefix == Prefix(p, "primitive")
<1>1. Serializations(p, v) = {w}
    BY DEF Serializations, Primitive
<1>2. w = Alone(prefix \o text)
    BY TextWritten
<1>3. prefix \in Seq(Token)
    BY PrefixType
<1>4. prefix \o text # <<>> /\ IsPrefix(prefix, prefix \o text) /\ CutPrefix(prefix \o text, prefix) = text
  <2> HIDE DEF prefix
  <2> QED BY <1>3, PrefixOfConcat, ConcatEqualIffEmpty
<1>5. w.values # <<>> /\ w.values[1] = prefix \o text
    BY <1>2 DEF Alone
<1>6. ~Absent(p, w)
    BY <1>4, <1>5 DEF Absent
<1>7. DecodePrimitive(p, w, s) = Decoded(TRUE, Ok(v))
  <2> HIDE DEF prefix, w
  <2> QED BY <1>4, <1>5, <1>6, PrimitiveMeaning, ReadIsParsed DEF DecodePrimitive, prefix
<1>8. DecodePlain(p, w, s) = DecodePrimitive(p, w, s)
    BY PrimitiveMeaning DEF DecodePlain
<1>9. DecodeStyledParameter(p, w) = DecodePlain(p, w, s)
    BY <1>5, PrimitiveMeaning, PlainSchemaDecoded DEF DecodeStyledParameter, IsWritten
<1> QED BY <1>1, <1>7, <1>8, <1>9

\* The delimiter of a list is a text and not empty.
LEMMA ItemDelimType ==
    ASSUME NEW Token, NEW p, IsWritten(p, Token)
    PROVE  ItemDelim(p) \in Seq(Token) /\ ItemDelim(p) # <<>>
<1>1. ";" \in Token /\ "=" \in Token /\ "." \in Token /\ "," \in Token /\ " " \in Token /\ "|" \in Token /\ p.name \in Token
    BY DEF IsWritten, Delimiters
<1>2. \A a, b, c \in Token : <<a>> \in Seq(Token) /\ <<a, b, c>> \in Seq(Token)
    OBVIOUS
<1>3. \A a, b, c : <<a>> # <<>> /\ <<a, b, c>> # <<>>
    OBVIOUS
<1>4. \A d \in {<<".">>, <<",">>, <<" ">>, <<"|">>, Named(p)} : d \in Seq(Token) /\ d # <<>>
  <2>1. <<".">> \in Seq(Token) /\ <<",">> \in Seq(Token) /\ <<" ">> \in Seq(Token) /\ <<"|">> \in Seq(Token)
        /\ Named(p) \in Seq(Token)
      BY <1>1, <1>2, Zenon DEF Named
  <2>2. <<".">> # <<>> /\ <<",">> # <<>> /\ <<" ">> # <<>> /\ <<"|">> # <<>> /\ Named(p) # <<>>
      BY <1>3, Zenon DEF Named
  <2> QED BY <2>1, <2>2, Zenon
<1>5. ItemDelim(p) \in {<<".">>, <<",">>, <<" ">>, <<"|">>, Named(p)}
    BY DEF ItemDelim
<1> QED BY <1>4, <1>5

\* All the items in one text, with a delimiter between each two, or each in its own.
LEMMA ItemsWritten ==
    ASSUME NEW Token, NEW p, IsWritten(p, Token), Supported(p, "array"), NEW texts \in Seq(Seq(Token))
    PROVE  SerializeItems(p, texts) =
            IF p.in = "query" /\ p.explode THEN [values |-> texts, others |-> <<>>]
            ELSE Alone(Prefix(p, "array") \o Join(texts, ItemDelim(p)))
<1> DEFINE prefix == Prefix(p, "array")
           delim == ItemDelim(p)
<1>1. IsMethod(p)
    BY DEF IsWritten
<1>2. p.in = "query" => p.style \in {"form", "spaceDelimited", "pipeDelimited"}
    BY <1>1 DEF IsMethod, Supported
<1>3. CASE p.in = "query" /\ p.explode
    BY <1>2, <1>3 DEF SerializeItems
<1>4. CASE ~(p.in = "query" /\ p.explode) /\ p.style \notin {"label", "matrix"}
  <2>1. prefix = <<>>
      BY <1>4 DEF Prefix
  <2>2. SerializeItems(p, texts) = Alone(Join(texts, delim))
    <3>1. CASE p.style = "simple"
        BY <3>1 DEF SerializeItems, ItemDelim, Separator
    <3>2. CASE p.style \in {"form", "spaceDelimited", "pipeDelimited"}
      <4>1. ~p.explode
          BY <1>1, <1>4, <3>2 DEF IsMethod, Supported
      <4>2. p.style \in DOMAIN Separator /\ Separator[p.style] = delim
          <5>1. DOMAIN Separator = {"form", "spaceDelimited", "pipeDelimited"}
            BY DEF Separator
        <5>2. Separator["form"] = <<",">> /\ Separator["spaceDelimited"] = <<" ">> /\ Separator["pipeDelimited"] = <<"|">>
            BY DEF Separator
        <5>3. CASE p.style = "form"
            BY <5>1, <5>2, <5>3 DEF ItemDelim
        <5>4. CASE p.style = "spaceDelimited"
            BY <5>1, <5>2, <5>4 DEF ItemDelim
        <5>5. CASE p.style = "pipeDelimited"
            BY <5>1, <5>2, <5>5 DEF ItemDelim
        <5> QED BY <3>2, <5>3, <5>4, <5>5
      <4>3. SerializeItems(p, texts) = Alone(Join(texts, Separator[p.style]))
          BY <3>2, <4>1, <4>2 DEF SerializeItems
      <4> QED BY <4>2, <4>3
    <3> QED BY <1>1, <1>4, <3>1, <3>2 DEF IsMethod, Supported
  <2>3. \A x : x \in Seq(Token) => <<>> \o x = x
      BY ConcatEmptySeq
  <2>4. Join(texts, delim) \in Seq(Token)
      BY ItemDelimType, JoinType
  <2> QED BY <1>4, <2>1, <2>2, <2>3, <2>4
<1>5. CASE ~(p.in = "query" /\ p.explode) /\ p.style \in {"label", "matrix"}
  <2>1. CASE p.style = "label"
      BY <1>5, <2>1 DEF SerializeItems, Prefix, ItemDelim, Separator
  <2>2. CASE p.style = "matrix"
      BY <1>5, <2>2 DEF SerializeItems, Prefix, ItemDelim, Named, Separator
  <2> QED BY <1>5, <2>1, <2>2
<1> QED BY <1>3, <1>4, <1>5

\* In a query an item of a primitive schema is parsed as it is elsewhere.
LEMMA ItemParsed ==
    ASSUME NEW p, NEW s, s \in Schemas, s.of = "type", s.type = "array", IsPrimitive(s.items), NEW x
    PROVE  (IF p.in = "query" THEN ParseValue(x)[s.items] ELSE ParsePrimitive(x, s.items))
            = ParsePrimitive(x, s.items)
<1>1. s.items \in Schemas
    BY SchemasAssumption
<1>2. ~IsComposed(s.items) /\ s.items.of # "not"
    BY PrimitiveMeaning
<1>3. ParseValue(x)[s.items] = ParsePrimitive(x, s.items)
    BY <1>1, <1>2, ParseValueEquation
<1> QED BY <1>3

\* Items that are read make the list of their values.
LEMMA ItemsParsed ==
    ASSUME NEW type, NEW texts
    PROVE  ParseArray([i \in DOMAIN texts |-> Ok(Primitive(type, texts[i]))])
            = Ok(Array([i \in DOMAIN texts |-> Primitive(type, texts[i])]))
<1> DEFINE r == [i \in DOMAIN texts |-> Ok(Primitive(type, texts[i]))]
<1>1. \A i \in DOMAIN r : r[i].value = Primitive(type, texts[i]) /\ r[i].value # Nil
    BY DEF Ok, Primitive, Nil
<1>2. {i \in DOMAIN r : r[i].value = Nil} = {}
    BY <1>1
<1>3. [i \in DOMAIN r |-> r[i].value] = [i \in DOMAIN texts |-> Primitive(type, texts[i])]
    BY <1>1
<1>4. ParseArray(r) = Ok(Array([i \in DOMAIN texts |-> Primitive(type, texts[i])]))
  <2> HIDE DEF r
  <2> QED BY <1>2, <1>3 DEF ParseArray
<1> QED BY <1>4

\* decodeArray undoes the serialization: in every place, style and form, what OpenAPI
\* writes for a list of primitive values is decoded to that list, of any length, if no
\* item has the token that its delimiter begins with.
THEOREM WrittenArrayIsDecoded ==
    ASSUME NEW Token, NEW p, IsWritten(p, Token), Supported(p, "array"),
           p.schema.of = "type", p.schema.type = "array", IsPrimitive(p.schema.items),
           NEW texts \in Seq(Seq(Token)), texts # <<>>,
           \A i \in DOMAIN texts : texts[i] # <<>> /\ Reads(p.schema.items.type, texts[i]),
           (p.in = "query" /\ p.explode) \/ Without(texts, ItemDelim(p)[1])
    PROVE  LET v == Array([i \in DOMAIN texts |-> Primitive(p.schema.items.type, texts[i])])
           IN  \A w \in Serializations(p, v) : DecodeStyledParameter(p, w) = Decoded(TRUE, Ok(v))
<1> DEFINE s == p.schema
           type == s.items.type
           v == Array([i \in DOMAIN texts |-> Primitive(type, texts[i])])
           w == SerializeItems(p, texts)
           prefix == Prefix(p, "array")
           delim == ItemDelim(p)
           text == Join(texts, delim)
           items == IF p.in = "query" /\ p.explode THEN w.values ELSE Split(CutPrefix(w.values[1], prefix), delim)
           item(x) == IF p.in = "query" THEN ParseValue(x)[s.items] ELSE ParsePrimitive(x, s.items)
<1>1. Serializations(p, v) = {w}
  <2>1. [i \in DOMAIN v.items |-> v.items[i].text] = texts
    <3>1. v.items = [i \in DOMAIN texts |-> Primitive(type, texts[i])]
        BY DEF Array
    <3>2. \A i \in DOMAIN texts : v.items[i].text = texts[i]
        BY <3>1 DEF Primitive
    <3>3. texts = [i \in DOMAIN texts |-> texts[i]]
        OBVIOUS
    <3> QED BY <3>1, <3>2, <3>3
  <2>2. v.kind = "array"
      BY DEF Array
  <2> HIDE DEF v
  <2> QED BY <2>1, <2>2 DEF Serializations
<1>2. prefix \in Seq(Token) /\ delim \in Seq(Token) /\ delim # <<>>
    BY PrefixType, ItemDelimType
<1>3. text \in Seq(Token) /\ text # <<>>
  <2>1. texts[1] # <<>>
      OBVIOUS
  <2> HIDE DEF delim
  <2> QED BY <1>2, <2>1, JoinType, JoinNotEmpty
<1>4. w.values # <<>> /\ w.values[1] # <<>> /\ items = texts /\ IsPrefix(prefix, w.values[1])
  <2>1. CASE p.in = "query" /\ p.explode
    <3>1. w.values = texts /\ items = texts
        BY <2>1, ItemsWritten
    <3>2. prefix = <<>>
        BY <2>1 DEF IsWritten, IsMethod, Prefix
    <3>3. texts[1] \in Seq(Token) /\ texts[1] # <<>>
        OBVIOUS
    <3>4. IsPrefix(<<>>, texts[1])
      <4>1. <<>> \in Seq(Token) /\ <<>> \o texts[1] = texts[1]
          BY <3>3, ConcatEmptySeq
      <4> QED BY <3>3, <4>1, PrefixOfConcat
    <3> HIDE DEF items, w, prefix
    <3> QED BY <3>1, <3>2, <3>3, <3>4
  <2>2. CASE ~(p.in = "query" /\ p.explode)
    <3>1. w.values = <<prefix \o text>>
        BY <2>2, ItemsWritten DEF Alone
    <3>2. CutPrefix(prefix \o text, prefix) = text /\ IsPrefix(prefix, prefix \o text) /\ prefix \o text # <<>>
      <4> HIDE DEF prefix, text
      <4> QED BY <1>2, <1>3, PrefixOfConcat, ConcatEqualIffEmpty
    <3>3. Split(text, delim) = texts
      <4> HIDE DEF delim
      <4> QED BY <1>2, <2>2, SplitOfJoin DEF delim
    <3> HIDE DEF w, prefix, text, delim
    <3>4. w.values[1] = prefix \o text /\ w.values # <<>>
        BY <3>1
    <3>5. items = Split(CutPrefix(w.values[1], prefix), delim)
        BY <2>2
    <3> HIDE DEF items
    <3> QED BY <3>2, <3>3, <3>4, <3>5
  <2> QED BY <2>1, <2>2
<1>5. [i \in DOMAIN items |-> item(items[i])] = [i \in DOMAIN texts |-> Ok(Primitive(type, texts[i]))]
  <2>1. ASSUME NEW i \in DOMAIN texts PROVE item(texts[i]) = Ok(Primitive(type, texts[i]))
    <3>1. item(texts[i]) = ParsePrimitive(texts[i], s.items)
        BY ItemParsed DEF IsWritten
    <3>2. ParsePrimitive(texts[i], s.items) = Ok(Primitive(type, texts[i]))
        BY ReadIsParsed
    <3> QED BY <3>1, <3>2
  <2> HIDE DEF items, item
  <2> QED BY <1>4, <2>1
<1>6. ~Absent(p, w)
    BY <1>4 DEF Absent
<1>7. DecodeArray(p, w, s) = Decoded(TRUE, ParseArray([i \in DOMAIN items |-> item(items[i])]))
  <2>1. IsPrefix(Prefix(p, "array"), w.values[1])
      BY <1>4
  <2> HIDE DEF w
  <2> QED BY <1>6, <2>1 DEF DecodeArray
<1>8. DecodeArray(p, w, s) = Decoded(TRUE, Ok(v))
  <2>1. ParseArray([i \in DOMAIN texts |-> Ok(Primitive(type, texts[i]))]) = Ok(v)
      BY ItemsParsed
  <2> HIDE DEF items, item, w, v
  <2> QED BY <1>5, <1>7, <2>1
<1>9. DecodePlain(p, w, s) = DecodeArray(p, w, s)
    BY DEF DecodePlain
<1>10. DecodeStyledParameter(p, w) = DecodePlain(p, w, s)
  <2>1. p.schema \in Schemas /\ ~IsComposed(p.schema)
      BY DEF IsWritten, IsComposed
  <2> HIDE DEF w
  <2> QED BY <1>4, <2>1, PlainSchemaDecoded DEF DecodeStyledParameter
<1>11. DecodeStyledParameter(p, w) = Decoded(TRUE, Ok(v))
    BY <1>8, <1>9, <1>10
<1> HIDE DEF w, s
<1> QED BY <1>1, <1>11 DEF s

-----------------------------------------------------------------------------
(* Names and texts of an object *)

\* Pairs that name all the properties that texts are for, each with its text.
IsListing(pairs, texts) ==
    /\ \A i \in DOMAIN pairs : pairs[i][1] \in DOMAIN texts /\ pairs[i][2] = texts[pairs[i][1]]
    /\ \A n \in DOMAIN texts : \E i \in DOMAIN pairs : pairs[i][1] = n

\* No name and no text of the pairs has the token c.
Clean(pairs, c) ==
    \A i \in DOMAIN pairs : pairs[i][1] # c /\ \A j \in DOMAIN pairs[i][2] : pairs[i][2][j] # c

\* The names of pairs as they come from a text.
NamedTexts(pairs) == [i \in DOMAIN pairs |-> << <<pairs[i][1]>>, pairs[i][2] >>]

\* The names and the texts of pairs.
LEMMA PairTypes ==
    ASSUME NEW Token, NEW pairs \in Seq(Token \X Seq(Token))
    PROVE  /\ DOMAIN pairs = 1..Len(pairs) /\ Len(pairs) \in Nat
           /\ \A i \in DOMAIN pairs : pairs[i][1] \in Token /\ pairs[i][2] \in Seq(Token)
<1>1. DOMAIN pairs = 1..Len(pairs) /\ Len(pairs) \in Nat
    OBVIOUS
<1>2. ASSUME NEW i \in DOMAIN pairs PROVE pairs[i][1] \in Token /\ pairs[i][2] \in Seq(Token)
  <2>1. pairs[i] \in Token \X Seq(Token)
      OBVIOUS
  <2> QED BY <2>1
<1> QED BY <1>1, <1>2

\* The positions of a name and of its text, written in turn,
LEMMA Halves ==
    \A i \in Nat : i >= 1 => /\ (2 * i - 1) % 2 = 1 /\ ((2 * i - 1) + 1) \div 2 = i
                             /\ (2 * i) % 2 = 0 /\ (2 * i) \div 2 = i
OBVIOUS

\* and the pair that a position belongs to.
LEMMA HalvesOf ==
    \A k, m \in Nat : k \in 1..(2 * m) =>
        IF k % 2 = 1 THEN (k + 1) \div 2 \in 1..m ELSE k \div 2 \in 1..m
OBVIOUS

\* Names and texts in turn are texts, each of them of a pair.
LEMMA AlternatingType ==
    ASSUME NEW Token, NEW pairs \in Seq(Token \X Seq(Token))
    PROVE  /\ Alternating(pairs) \in Seq(Seq(Token)) /\ Len(Alternating(pairs)) = 2 * Len(pairs)
           /\ \A k \in DOMAIN Alternating(pairs) :
                \E i \in DOMAIN pairs : Alternating(pairs)[k] \in {<<pairs[i][1]>>, pairs[i][2]}
<1> DEFINE m == Len(pairs)
           A == Alternating(pairs)
<1>1. m \in Nat /\ 2 * m \in Nat /\ DOMAIN pairs = 1..m
    BY PairTypes
<1>2. A = [k \in 1..(2 * m) |-> IF k % 2 = 1 THEN <<pairs[(k + 1) \div 2][1]>> ELSE pairs[k \div 2][2]]
    BY DEF Alternating
<1>3. DOMAIN A = 1..(2 * m)
    BY <1>2
<1>4. ASSUME NEW k \in 1..(2 * m)
      PROVE  \E i \in DOMAIN pairs : A[k] \in {<<pairs[i][1]>>, pairs[i][2]}
  <2>1. A[k] = IF k % 2 = 1 THEN <<pairs[(k + 1) \div 2][1]>> ELSE pairs[k \div 2][2]
      BY <1>2
  <2>2. k \in Nat
      BY <1>1
  <2>3. IF k % 2 = 1 THEN (k + 1) \div 2 \in 1..m ELSE k \div 2 \in 1..m
      BY <1>1, <2>2, HalvesOf
  <2> HIDE DEF A, m
  <2> QED BY <1>1, <2>1, <2>3
<1>5. ASSUME NEW k \in 1..(2 * m) PROVE A[k] \in Seq(Token)
  <2>1. PICK i \in DOMAIN pairs : A[k] \in {<<pairs[i][1]>>, pairs[i][2]}
      BY <1>4
  <2>2. pairs[i][1] \in Token /\ pairs[i][2] \in Seq(Token)
      BY PairTypes
  <2>3. \A a \in Token : <<a>> \in Seq(Token)
      OBVIOUS
  <2> HIDE DEF A
  <2> QED BY <2>1, <2>2, <2>3
<1> HIDE DEF A, m
<1>6. A \in [1..(2 * m) -> Seq(Token)]
    BY <1>2, <1>5
<1>7. A \in Seq(Seq(Token)) /\ Len(A) = 2 * m
    BY <1>1, <1>6
<1> QED BY <1>3, <1>4, <1>7 DEF A, m

\* Read in turn, names and texts make the pairs again.
LEMMA AlternatingRead ==
    ASSUME NEW Token, NEW pairs \in Seq(Token \X Seq(Token))
    PROVE  InTurn(Alternating(pairs)) = PropsOf(NamedTexts(pairs), TRUE)
<1> DEFINE m == Len(pairs)
           A == Alternating(pairs)
<1>1. m \in Nat /\ DOMAIN pairs = 1..m /\ Len(A) = 2 * m
    BY PairTypes, AlternatingType
<1>2. A = [k \in 1..(2 * m) |-> IF k % 2 = 1 THEN <<pairs[(k + 1) \div 2][1]>> ELSE pairs[k \div 2][2]]
    BY DEF Alternating
<1> HIDE DEF A, m
<1>3. Len(A) \div 2 = m /\ Len(A) % 2 = 0
  <2>1. \A i \in Nat : (2 * i) \div 2 = i /\ (2 * i) % 2 = 0
      OBVIOUS
  <2> QED BY <1>1, <2>1
<1>4. ASSUME NEW i \in 1..m PROVE A[2 * i - 1] = <<pairs[i][1]>> /\ A[2 * i] = pairs[i][2]
  <2>1. i \in Nat /\ i >= 1
      BY <1>1
  <2>2. 2 * i - 1 \in 1..(2 * m) /\ 2 * i \in 1..(2 * m)
      BY <1>1, <2>1
  <2>3. (2 * i - 1) % 2 = 1 /\ ((2 * i - 1) + 1) \div 2 = i /\ (2 * i) % 2 = 0 /\ (2 * i) \div 2 = i
      BY <2>1, Halves
  <2>4. A[2 * i - 1] = <<pairs[((2 * i - 1) + 1) \div 2][1]>>
      BY <1>2, <2>2, <2>3
  <2>5. A[2 * i] = pairs[(2 * i) \div 2][2]
      BY <1>2, <2>2, <2>3
  <2> QED BY <2>3, <2>4, <2>5
<1>5. [i \in 1..(Len(A) \div 2) |-> <<A[2 * i - 1], A[2 * i]>>] = NamedTexts(pairs)
    BY <1>1, <1>3, <1>4 DEF NamedTexts
<1>6. InTurn(A) = PropsOf(NamedTexts(pairs), TRUE)
    BY <1>3, <1>5 DEF InTurn
<1> QED BY <1>6 DEF A

\* A name with the sign that an assignment has after it.
LEMMA NameAndEquals ==
    ASSUME NEW Token, "=" \in Token, NEW n \in Token PROVE <<n>> \o <<"=">> = <<n, "=">>
<1> DEFINE a == <<n, "=">>
           eq == <<"=">>
           b == <<n>> \o eq
<1>1. a \in Seq(Token) /\ Len(a) = 2 /\ eq \in Seq(Token) /\ Len(eq) = 1 /\ <<n>> \in Seq(Token)
      /\ Len(<<n>>) = 1 /\ <<n>>[1] = n /\ eq[1] = "=" /\ a[1] = n /\ a[2] = "="
    OBVIOUS
<1>2. /\ b \in Seq(Token) /\ Len(b) = Len(<<n>>) + Len(eq)
      /\ \A j \in 1..(Len(<<n>>) + Len(eq)) : b[j] = IF j <= Len(<<n>>) THEN <<n>>[j] ELSE eq[j - Len(<<n>>)]
  <2> HIDE DEF eq
  <2> QED BY <1>1, ConcatProperties
<1> HIDE DEF a, b, eq
<1>3. Len(b) = 2 /\ b[1] = n /\ b[2] = "="
    BY <1>1, <1>2
<1>4. \A j \in 1..2 : j = 1 \/ j = 2
    OBVIOUS
<1>5. \A j \in 1..Len(b) : b[j] = a[j]
    BY <1>1, <1>3, <1>4
<1>6. b = a
    BY <1>1, <1>2, <1>3, <1>5, SeqEqual
<1> QED BY <1>6 DEF a, b, eq

\* An assignment is the name, the sign and the text, and is split to name and text
\* if neither has the sign.
LEMMA AssignmentOf ==
    ASSUME NEW Token, "=" \in Token, NEW n \in Token, NEW x \in Seq(Token)
    PROVE  /\ <<n, "=">> \o x \in Seq(Token)
           /\ \A j \in DOMAIN (<<n, "=">> \o x) : (<<n, "=">> \o x)[j] \in {n, "="} \cup {x[i] : i \in DOMAIN x}
           /\ n # "=" /\ (\A i \in DOMAIN x : x[i] # "=") => Split(<<n, "=">> \o x, <<"=">>) = << <<n>>, x >>
<1> DEFINE a == <<n, "=">>
           eq == <<"=">>
<1>1. a \in Seq(Token) /\ Len(a) = 2 /\ eq \in Seq(Token) /\ eq # <<>> /\ <<n>> \in Seq(Token) /\ eq[1] = "="
      /\ a[1] = n /\ a[2] = "=" /\ Len(x) \in Nat /\ DOMAIN x = 1..Len(x)
    OBVIOUS
<1>2. a \o x \in Seq(Token) /\ Len(a \o x) = 2 + Len(x)
      /\ \A j \in 1..(2 + Len(x)) : (a \o x)[j] = IF j <= 2 THEN a[j] ELSE x[j - 2]
  <2> HIDE DEF a
  <2>1. /\ a \o x \in Seq(Token) /\ Len(a \o x) = Len(a) + Len(x)
        /\ \A j \in 1..(Len(a) + Len(x)) : (a \o x)[j] = IF j <= Len(a) THEN a[j] ELSE x[j - Len(a)]
      BY <1>1, ConcatProperties
  <2> QED BY <1>1, <2>1
<1>3. ASSUME NEW j \in DOMAIN (a \o x) PROVE (a \o x)[j] \in {n, "="} \cup {x[i] : i \in DOMAIN x}
  <2>1. j \in 1..(2 + Len(x))
    <3> HIDE DEF a
    <3> QED BY <1>2
  <2>2. CASE j <= 2
    <3>1. j \in {1, 2}
        BY <1>1, <2>1, <2>2
    <3> HIDE DEF a
    <3> QED BY <1>1, <1>2, <2>1, <2>2, <3>1
  <2>3. CASE ~(j <= 2)
    <3>1. j - 2 \in DOMAIN x
        BY <1>1, <2>1, <2>3
    <3> HIDE DEF a
    <3> QED BY <1>2, <2>1, <2>3, <3>1
  <2> QED BY <2>2, <2>3
<1>4. ASSUME n # "=", \A i \in DOMAIN x : x[i] # "=" PROVE Split(a \o x, eq) = << <<n>>, x >>
  <2> DEFINE parts == << <<n>>, x >>
             rest == <<x>>
  <2>1. parts \in Seq(Seq(Token)) /\ parts # <<>> /\ rest \in Seq(Seq(Token)) /\ rest # <<>>
      BY <1>1
  <2>2. parts = << <<n>> >> \o rest
      OBVIOUS
  <2>3. Join(rest, eq) = x
      BY <1>1, JoinOfOne
  <2>4. Join(<< <<n>> >> \o rest, eq) = <<n>> \o eq \o Join(rest, eq)
    <3> HIDE DEF rest, eq
    <3> QED BY <1>1, <2>1, JoinOfMore
  <2>5. <<n>> \o eq = a
      BY NameAndEquals
  <2>6. Join(parts, eq) = a \o x
    <3> HIDE DEF parts, rest, eq, a
    <3> QED BY <2>2, <2>3, <2>4, <2>5
  <2>7. Without(parts, eq[1])
    <3>1. \A j \in DOMAIN <<n>> : <<n>>[j] = n
        OBVIOUS
    <3>2. DOMAIN parts = {1, 2} /\ parts[1] = <<n>> /\ parts[2] = x
        OBVIOUS
    <3> HIDE DEF parts
    <3> QED BY <1>1, <1>4, <3>1, <3>2 DEF Without
  <2>8. Split(Join(parts, eq), eq) = parts
    <3> HIDE DEF parts, eq
    <3> QED BY <1>1, <2>1, <2>7, SplitOfJoin
  <2> QED BY <2>6, <2>8
<1> QED BY <1>2, <1>3, <1>4

\* Assignments are texts, one for each pair.
LEMMA AssignmentsType ==
    ASSUME NEW Token, "=" \in Token, NEW pairs \in Seq(Token \X Seq(Token))
    PROVE  /\ Assignments(pairs) \in Seq(Seq(Token)) /\ Len(Assignments(pairs)) = Len(pairs)
           /\ \A i \in DOMAIN pairs : Assignments(pairs)[i] = <<pairs[i][1], "=">> \o pairs[i][2]
<1> DEFINE A == Assignments(pairs)
           m == Len(pairs)
<1>1. DOMAIN pairs = 1..m /\ m \in Nat
    BY PairTypes
<1>2. ASSUME NEW i \in 1..m PROVE A[i] \in Seq(Token) /\ A[i] = <<pairs[i][1], "=">> \o pairs[i][2]
  <2>1. pairs[i][1] \in Token /\ pairs[i][2] \in Seq(Token)
      BY <1>1, PairTypes
  <2>2. A[i] = <<pairs[i][1], "=">> \o pairs[i][2]
      BY <1>1 DEF Assignments
  <2>3. <<pairs[i][1], "=">> \o pairs[i][2] \in Seq(Token)
      BY <2>1, AssignmentOf
  <2> QED BY <2>2, <2>3
<1>3. A \in [1..m -> Seq(Token)]
  <2>1. A = [i \in 1..m |-> A[i]]
      BY <1>1 DEF Assignments
  <2> HIDE DEF A, m
  <2> QED BY <1>2, <2>1
<1>4. A \in Seq(Seq(Token)) /\ Len(A) = m
  <2> HIDE DEF A, m
  <2> QED BY <1>1, <1>3
<1> QED BY <1>1, <1>2, <1>4

\* Split at the sign, assignments make the pairs again.
LEMMA AssignmentsRead ==
    ASSUME NEW Token, "=" \in Token, NEW pairs \in Seq(Token \X Seq(Token)), Clean(pairs, "=")
    PROVE  Paired([i \in DOMAIN Assignments(pairs) |-> Split(Assignments(pairs)[i], <<"=">>)])
            = PropsOf(NamedTexts(pairs), TRUE)
<1> DEFINE A == Assignments(pairs)
           S == [i \in DOMAIN A |-> Split(A[i], <<"=">>)]
<1>1. DOMAIN A = DOMAIN pairs
    BY DEF Assignments
<1>2. ASSUME NEW i \in DOMAIN pairs PROVE S[i] = << <<pairs[i][1]>>, pairs[i][2] >>
  <2>1. pairs[i][1] \in Token /\ pairs[i][2] \in Seq(Token)
      BY PairTypes
  <2>2. pairs[i][1] # "=" /\ \A j \in DOMAIN pairs[i][2] : pairs[i][2][j] # "="
      BY DEF Clean
  <2>3. A[i] = <<pairs[i][1], "=">> \o pairs[i][2]
      BY AssignmentsType
  <2>4. Split(A[i], <<"=">>) = << <<pairs[i][1]>>, pairs[i][2] >>
      BY <2>1, <2>2, <2>3, AssignmentOf
  <2> HIDE DEF A
  <2> QED BY <1>1, <2>4
<1>3. S = NamedTexts(pairs)
  <2> HIDE DEF A
  <2>1. S = [i \in DOMAIN pairs |-> S[i]]
      BY <1>1
  <2> HIDE DEF S
  <2> QED BY <1>2, <2>1 DEF NamedTexts
<1>4. \A i \in DOMAIN NamedTexts(pairs) : Len(NamedTexts(pairs)[i]) = 2
    BY DEF NamedTexts
<1>5. Paired(S) = PropsOf(NamedTexts(pairs), TRUE)
  <2> HIDE DEF S
  <2> QED BY <1>3, <1>4 DEF Paired
<1> QED BY <1>5

\* The texts that stand for pairs between the delimiters of the properties.
WrittenTexts(p, pairs) == IF p.explode THEN Assignments(pairs) ELSE Alternating(pairs)

\* The delimiters of properties are single tokens, different ones if exploded and
\* the same one if not.
LEMMA PropDelims ==
    ASSUME NEW Token, NEW p, IsWritten(p, Token)
    PROVE  /\ PropDelim(p) \in Seq(Token) /\ PropDelim(p) # <<>>
           /\ PropDelim(p) = <<PropDelim(p)[1]>> /\ ValueDelim(p) = <<ValueDelim(p)[1]>>
           /\ "=" \in Token
           /\ IF p.explode THEN PropDelim(p)[1] # "=" /\ ValueDelim(p) = <<"=">> /\ PropDelim(p) # ValueDelim(p)
              ELSE PropDelim(p) = <<",">> /\ ValueDelim(p) = <<",">>
<1>1. ";" \in Token /\ "=" \in Token /\ "." \in Token /\ "," \in Token
    BY DEF IsWritten, Delimiters
<1>2. \A a \in Token : <<a>> \in Seq(Token) /\ <<a>> # <<>> /\ <<a>>[1] = a
    OBVIOUS
<1>3. PICK d \in {".", ";", ","} : PropDelim(p) = <<d>> /\ (~p.explode => d = ",")
  <2>1. CASE p.explode /\ p.style = "label"
      BY <2>1 DEF PropDelim
  <2>2. CASE p.explode /\ p.style = "matrix"
      BY <2>2 DEF PropDelim
  <2>3. CASE ~p.explode \/ p.style \notin {"label", "matrix"}
      BY <2>3 DEF PropDelim
  <2> QED BY <2>1, <2>2, <2>3
<1>4. d \in Token /\ d # "="
    BY <1>1
<1>5. PropDelim(p)[1] = d
    BY <1>2, <1>3, <1>4
<1>6. PICK e \in {"=", ","} : ValueDelim(p) = <<e>> /\ e = IF p.explode THEN "=" ELSE ","
    BY DEF ValueDelim
<1>7. ValueDelim(p)[1] = e
    BY <1>1, <1>2, <1>6
<1>8. d # e => <<d>> # <<e>>
    OBVIOUS
<1> QED BY <1>1, <1>2, <1>3, <1>4, <1>5, <1>6, <1>7, <1>8

\* If no name and no text has a token, what is written in turn has not,
LEMMA CleanAlternating ==
    ASSUME NEW Token, NEW pairs \in Seq(Token \X Seq(Token)), NEW c, Clean(pairs, c)
    PROVE  Without(Alternating(pairs), c)
<1> DEFINE A == Alternating(pairs)
<1> SUFFICES ASSUME NEW k \in DOMAIN A, NEW j \in DOMAIN A[k] PROVE A[k][j] # c
    BY DEF Without
<1>1. PICK i \in DOMAIN pairs : A[k] \in {<<pairs[i][1]>>, pairs[i][2]}
    BY AlternatingType
<1>2. CASE A[k] = <<pairs[i][1]>>
  <2>1. \A x, y : y \in DOMAIN <<x>> => <<x>>[y] = x
      OBVIOUS
  <2> HIDE DEF A
  <2> QED BY <1>2, <2>1 DEF Clean
<1>3. CASE A[k] = pairs[i][2]
  <2> HIDE DEF A
  <2> QED BY <1>3 DEF Clean
<1> QED BY <1>1, <1>2, <1>3

\* and no assignment has, but for the sign.
LEMMA CleanAssignments ==
    ASSUME NEW Token, "=" \in Token, NEW pairs \in Seq(Token \X Seq(Token)), NEW c, c # "=", Clean(pairs, c)
    PROVE  Without(Assignments(pairs), c)
<1> DEFINE A == Assignments(pairs)
<1> SUFFICES ASSUME NEW k \in DOMAIN A, NEW j \in DOMAIN A[k] PROVE A[k][j] # c
    BY DEF Without
<1>1. k \in DOMAIN pairs
    BY DEF Assignments
<1> DEFINE n == pairs[k][1]
           x == pairs[k][2]
<1>2. n \in Token /\ x \in Seq(Token)
    BY <1>1, PairTypes
<1>3. A[k] = <<n, "=">> \o x
    BY <1>1, AssignmentsType
<1>4. n # c /\ \A i \in DOMAIN x : x[i] # c
    BY <1>1 DEF Clean
<1> HIDE DEF A, n, x
<1>5. A[k][j] \in {n, "="} \cup {x[i] : i \in DOMAIN x}
    BY <1>2, <1>3, AssignmentOf
<1> QED BY <1>4, <1>5

\* propsFromString finds in what was written for pairs the pairs.
LEMMA WrittenRead ==
    ASSUME NEW Token, NEW p, IsWritten(p, Token), NEW pairs \in Seq(Token \X Seq(Token)), pairs # <<>>,
           Clean(pairs, PropDelim(p)[1]), Clean(pairs, ValueDelim(p)[1])
    PROVE  PropsFromString(Join(WrittenTexts(p, pairs), PropDelim(p)), PropDelim(p), ValueDelim(p))
            = PropsOf(NamedTexts(pairs), TRUE)
<1> DEFINE d == PropDelim(p)
           A == WrittenTexts(p, pairs)
<1>1. d \in Seq(Token) /\ d # <<>> /\ "=" \in Token
    BY PropDelims
<1>2. Len(pairs) \in Nat /\ Len(pairs) # 0
    BY PairTypes
<1>3. A \in Seq(Seq(Token)) /\ A # <<>> /\ Without(A, d[1])
  <2>1. CASE p.explode
    <3>1. A = Assignments(pairs)
        BY <2>1 DEF WrittenTexts
    <3>2. Assignments(pairs) \in Seq(Seq(Token)) /\ Len(Assignments(pairs)) # 0
        BY <1>1, <1>2, AssignmentsType
    <3>3. d[1] # "="
        BY <2>1, PropDelims
    <3>4. Without(Assignments(pairs), d[1])
        BY <1>1, <3>3, CleanAssignments
    <3> QED BY <3>1, <3>2, <3>4
  <2>2. CASE ~p.explode
    <3>1. A = Alternating(pairs)
        BY <2>2 DEF WrittenTexts
    <3>2. Alternating(pairs) \in Seq(Seq(Token)) /\ Len(Alternating(pairs)) # 0
        BY <1>2, AlternatingType
    <3>3. Without(Alternating(pairs), d[1])
      <4> DEFINE c == d[1]
      <4>1. Clean(pairs, c)
          OBVIOUS
      <4> HIDE DEF c
      <4>2. Without(Alternating(pairs), c)
          BY <4>1, CleanAlternating
      <4> QED BY <4>2 DEF c
    <3> QED BY <3>1, <3>2, <3>3
  <2> QED BY <2>1, <2>2
<1>4. Split(Join(A, d), d) = A
  <2> HIDE DEF d, A
  <2> QED BY <1>1, <1>3, SplitOfJoin
<1>5. CASE p.explode
  <2>1. d # ValueDelim(p) /\ ValueDelim(p) = <<"=">>
      BY <1>5, PropDelims
  <2>2. A = Assignments(pairs)
      BY <1>5 DEF WrittenTexts
  <2>3. Clean(pairs, "=")
    <3>1. ValueDelim(p)[1] = "="
        BY <2>1
    <3> QED BY <3>1
  <2>4. Paired([i \in DOMAIN A |-> Split(A[i], <<"=">>)]) = PropsOf(NamedTexts(pairs), TRUE)
      BY <1>1, <2>2, <2>3, AssignmentsRead
  <2>5. PropsFromString(Join(A, d), d, ValueDelim(p)) = Paired([i \in DOMAIN A |-> Split(A[i], <<"=">>)])
    <3> HIDE DEF A, d
    <3> QED BY <1>4, <2>1 DEF PropsFromString
  <2> QED BY <2>4, <2>5
<1>6. CASE ~p.explode
  <2>1. d = ValueDelim(p)
      BY <1>6, PropDelims
  <2>2. PropsFromString(Join(A, d), d, ValueDelim(p)) = InTurn(A)
    <3> HIDE DEF A, d
    <3> QED BY <1>4, <2>1 DEF PropsFromString
  <2>3. InTurn(A) = PropsOf(NamedTexts(pairs), TRUE)
      BY <1>6, AlternatingRead DEF WrittenTexts
  <2> QED BY <2>2, <2>3
<1> QED BY <1>5, <1>6

\* A bounded set of numbers that is not empty has its greatest one.
LEMMA MaxIsIn ==
    ASSUME NEW n \in Nat, NEW S \in SUBSET (1..n), S # {}
    PROVE  Max(S) \in S /\ \A y \in S : Max(S) >= y
<1> DEFINE T == {n - y : y \in S}
<1>0. ASSUME NEW y \in S PROVE y \in Nat /\ n - y \in Nat
  <2>1. y \in 1..n
      OBVIOUS
  <2> QED BY <2>1
<1>1. T \in SUBSET Nat /\ T # {}
    BY <1>0
<1>2. PICK t \in T : \A u \in T : t <= u
  <2> HIDE DEF T
  <2> QED BY <1>1, LeastNumber
<1>3. PICK x \in S : t = n - x
    OBVIOUS
<1>4. \A y \in S : x >= y
  <2> SUFFICES ASSUME NEW y \in S PROVE x >= y
      OBVIOUS
  <2>1. n - y \in T /\ x \in Nat /\ y \in Nat
      OBVIOUS
  <2>2. n - x <= n - y
      BY <1>2, <1>3, <2>1
  <2> QED BY <2>1, <2>2
<1>5. \E z \in S : \A y \in S : z >= y
    BY <1>4
<1> QED BY <1>5 DEF Max

\* What was read of an object: each of its properties with its text.
ShowsTexts(q, texts) == q.ok /\ \A n \in DOMAIN texts : <<n>> \in DOMAIN q.props /\ q.props[<<n>>] = texts[n]

\* What pairs show of an object, when each name comes with one text.
LEMMA ListingShows ==
    ASSUME NEW Token, NEW pairs \in Seq(Token \X Seq(Token)), NEW texts, IsListing(pairs, texts)
    PROVE  ShowsTexts(PropsOf(NamedTexts(pairs), TRUE), texts)
<1> DEFINE all == NamedTexts(pairs)
           lastOf(n) == all[Max({i \in DOMAIN all : all[i][1] = n})]
           q == PropsOf(all, TRUE)
<1>1. DOMAIN all = DOMAIN pairs /\ DOMAIN pairs = 1..Len(pairs) /\ Len(pairs) \in Nat
      /\ \A i \in DOMAIN pairs : all[i] = << <<pairs[i][1]>>, pairs[i][2] >>
    BY PairTypes DEF NamedTexts
<1>2. q.ok /\ q.props = [n \in {all[i][1] : i \in DOMAIN all} |-> lastOf(n)[2]]
    BY DEF PropsOf
<1> HIDE DEF all, q
<1>3. ASSUME NEW n \in DOMAIN texts
      PROVE  <<n>> \in DOMAIN q.props /\ q.props[<<n>>] = texts[n]
  <2> DEFINE S == {i \in DOMAIN all : all[i][1] = <<n>>}
  <2>1. PICK i \in DOMAIN pairs : pairs[i][1] = n
      BY DEF IsListing
  <2>2. all[i][1] = <<n>>
      BY <1>1, <2>1
  <2>3. i \in S /\ S \in SUBSET (1..Len(pairs))
      BY <1>1, <2>2
  <2>4. Max(S) \in S
    <3> HIDE DEF S
    <3> QED BY <1>1, <2>3, MaxIsIn
  <2> DEFINE k == Max(S)
  <2>5. k \in DOMAIN pairs /\ all[k][1] = <<n>>
    <3>1. k \in S
        BY <2>4
    <3> HIDE DEF k
    <3> QED BY <1>1, <3>1
  <2> HIDE DEF k
  <2>6. all[k] = << <<pairs[k][1]>>, pairs[k][2] >>
      BY <1>1, <2>5
  <2>7. <<pairs[k][1]>> = <<n>> /\ all[k][2] = pairs[k][2]
      BY <2>5, <2>6
  <2>8. pairs[k][1] = n
    <3>1. \A x, y : <<x>> = <<y>> => x = y
        OBVIOUS
    <3> QED BY <2>7, <3>1
  <2>9. all[k][2] = texts[n]
      BY <2>5, <2>7, <2>8 DEF IsListing
  <2>10. <<n>> \in {all[j][1] : j \in DOMAIN all}
      BY <2>3
  <2>11. lastOf(<<n>>) = all[k]
      BY DEF k
  <2> QED BY <1>2, <2>9, <2>10, <2>11
<1> QED BY <1>2, <1>3 DEF all, q, ShowsTexts

\* makeObject gives each property its value if its text is there and is read.
LEMMA ObjectMade ==
    ASSUME NEW s, NEW texts, DOMAIN texts = DOMAIN s.props, NEW props,
           \A n \in DOMAIN s.props : /\ IsPrimitive(s.props[n]) /\ texts[n] # <<>> /\ Reads(s.props[n].type, texts[n])
                                     /\ <<n>> \in DOMAIN props /\ props[<<n>>] = texts[n]
    PROVE  MakeObject(props, s) = Ok(Object([n \in DOMAIN s.props |-> Primitive(s.props[n].type, texts[n])]))
<1> DEFINE r == [n \in DOMAIN s.props |->
            ParsePrimitive(IF <<n>> \in DOMAIN props THEN props[<<n>>] ELSE <<>>, s.props[n])]
<1>1. ASSUME NEW n \in DOMAIN s.props PROVE r[n] = Ok(Primitive(s.props[n].type, texts[n]))
    BY ReadIsParsed
<1>2. DOMAIN r = DOMAIN s.props
    OBVIOUS
<1> HIDE DEF r
<1>3. \A n \in DOMAIN r : r[n].err = "none" /\ r[n].value = Primitive(s.props[n].type, texts[n])
  <2>1. \A x : Ok(x).err = "none" /\ Ok(x).value = x
      BY DEF Ok
  <2> QED BY <1>1, <1>2, <2>1
<1>4. ~Panics(r)
    BY <1>3 DEF Panics
<1>5. [n \in DOMAIN r |-> r[n].value] = [n \in DOMAIN s.props |-> Primitive(s.props[n].type, texts[n])]
    BY <1>2, <1>3
<1>6. Made(r) = Ok(Object([n \in DOMAIN s.props |-> Primitive(s.props[n].type, texts[n])]))
    BY <1>3, <1>4, <1>5 DEF Made
<1> QED BY <1>6 DEF MakeObject, r

-----------------------------------------------------------------------------
(* Objects *)

\* The names in an order are all the names.
LEMMA OrderedNamesAll ==
    ASSUME NEW S, IsFiniteSet(S), NEW q \in SetToSeqs(S)
    PROVE  q \in [1..Cardinality(S) -> S] /\ \A n \in S : \E i \in 1..Cardinality(S) : q[i] = n
<1> DEFINE D == 1..Cardinality(S)
<1>1. q \in [D -> S] /\ \A i, j \in D : i # j => q[i] # q[j]
    BY DEF SetToSeqs
<1>2. q \in Injection(D, S)
    BY <1>1 DEF Injection, IsInjective
<1>3. Cardinality(S) \in Nat
    BY FS_CardinalityType
<1>4. Cardinality(D) = Cardinality(S)
  <2>1. Cardinality(1..Cardinality(S)) = IF 1 > Cardinality(S) THEN 0 ELSE Cardinality(S) - 1 + 1
      BY <1>3, FS_Interval
  <2> QED BY <1>3, <2>1
<1>5. q \in Surjection(D, S)
  <2> HIDE DEF D
  <2> QED BY <1>2, <1>4, FS_Injection
<1> QED BY <1>1, <1>5 DEF Surjection

\* The only number of a set is its least.
LEMMA MinOfOne ==
    ASSUME NEW x \in Nat PROVE Min({x}) = x
<1>1. {x} \in SUBSET Nat /\ x \in {x} /\ \A y \in {x} : x <= y
    OBVIOUS
<1> DEFINE S == {x}
<1> HIDE DEF S
<1>2. S \in SUBSET Nat /\ x \in S /\ \A y \in S : x <= y
    BY <1>1 DEF S
<1>3. Min(S) = x
    BY <1>2, MinIs
<1> QED BY <1>3 DEF S

\* The pairs that show an object list all of its properties.
LEMMA PairsList ==
    ASSUME NEW Token, NEW names \in SUBSET Token, IsFiniteSet(names), names # {}, NEW texts \in [names -> Seq(Token)],
           NEW v, DOMAIN v.props = names, \A n \in names : v.props[n].text = texts[n],
           NEW pairs \in PairsOf(v)
    PROVE  pairs \in Seq(Token \X Seq(Token)) /\ pairs # <<>> /\ IsListing(pairs, texts)
<1>1. PICK q \in SetToSeqs(names) : pairs = [i \in DOMAIN q |-> <<q[i], v.props[q[i]].text>>]
    BY DEF PairsOf
<1> DEFINE m == Cardinality(names)
<1>2. m \in Nat /\ m # 0
    BY FS_CardinalityType, FS_EmptySet
<1>3. q \in [1..m -> names] /\ \A n \in names : \E i \in 1..m : q[i] = n
    BY OrderedNamesAll
<1> HIDE DEF m
<1>4. ASSUME NEW i \in 1..m PROVE pairs[i] = <<q[i], texts[q[i]]>> /\ q[i] \in names /\ pairs[i] \in Token \X Seq(Token)
  <2>1. q[i] \in names /\ pairs[i] = <<q[i], v.props[q[i]].text>>
      BY <1>1, <1>3
  <2>2. v.props[q[i]].text = texts[q[i]] /\ texts[q[i]] \in Seq(Token) /\ q[i] \in Token
      BY <2>1
  <2> QED BY <2>1, <2>2
<1>5. DOMAIN pairs = 1..m /\ pairs \in [1..m -> Token \X Seq(Token)]
    BY <1>1, <1>3, <1>4
<1>6. pairs \in Seq(Token \X Seq(Token)) /\ Len(pairs) = m
    BY <1>2, <1>5
<1>7. pairs # <<>>
    BY <1>2, <1>6
<1>8. \A i \in DOMAIN pairs : pairs[i][1] = q[i] /\ pairs[i][2] = texts[q[i]] /\ q[i] \in names
    BY <1>4, <1>5
<1>9. IsListing(pairs, texts)
  <2>1. DOMAIN texts = names
      OBVIOUS
  <2>2. ASSUME NEW n \in names PROVE \E i \in DOMAIN pairs : pairs[i][1] = n
    <3>1. PICK i \in 1..m : q[i] = n
        BY <1>3
    <3> QED BY <1>5, <1>8, <3>1
  <2>3. \A i \in DOMAIN pairs : pairs[i][1] \in names /\ pairs[i][2] = texts[pairs[i][1]]
      BY <1>8
  <2> QED BY <2>1, <2>2, <2>3 DEF IsListing
<1> QED BY <1>6, <1>7, <1>9

\* All the pairs in one text.
LEMMA PairsWritten ==
    ASSUME NEW Token, NEW p, IsWritten(p, Token), Supported(p, "object"), ~IsSpread(p),
           NEW pairs \in Seq(Token \X Seq(Token))
    PROVE  SerializePairs(p, pairs) = Alone(Prefix(p, "object") \o Join(WrittenTexts(p, pairs), PropDelim(p)))
<1> DEFINE A == WrittenTexts(p, pairs)
<1>1. IsMethod(p) /\ p.style # "deepObject" /\ ~(p.style = "form" /\ p.in = "query" /\ p.explode)
    BY DEF IsWritten, IsMethod, IsSpread
<1>2. A = IF p.explode THEN Assignments(pairs) ELSE Alternating(pairs)
    BY DEF WrittenTexts
<1>3. CASE p.style = "label"
    BY <1>1, <1>2, <1>3 DEF SerializePairs, Prefix, PropDelim
<1>4. CASE p.style = "matrix"
    BY <1>1, <1>2, <1>4 DEF SerializePairs, Prefix, PropDelim, Named
<1>5. CASE p.style \notin {"label", "matrix"}
  <2>1. Prefix(p, "object") = <<>> /\ PropDelim(p) = <<",">>
      BY <1>5 DEF Prefix, PropDelim
  <2>2. SerializePairs(p, pairs) = Alone(Join(A, <<",">>))
      BY <1>1, <1>2, <1>5 DEF SerializePairs
  <2>3. Join(A, <<",">>) \in Seq(Token)
    <3>1. "=" \in Token /\ <<",">> \in Seq(Token)
        BY <2>1, PropDelims
    <3>2. A \in Seq(Seq(Token))
        BY <3>1, AlternatingType, AssignmentsType DEF WrittenTexts
    <3> QED BY <3>1, <3>2, JoinType
  <2>4. <<>> \o Join(A, <<",">>) = Join(A, <<",">>)
      BY <2>3, ConcatEmptySeq
  <2> QED BY <2>1, <2>2, <2>4
<1> QED BY <1>3, <1>4, <1>5

\* The property that the pattern of deepObject finds in the name of its own parameter.
LEMMA DeepPropertyOfName ==
    ASSUME NEW name, NEW n PROVE DeepProperty(<<name, "[", n, "]">>, name) = <<n>>
<1> DEFINE key == <<name, "[", n, "]">>
<1>1. Len(key) = 4 /\ key[1] = name /\ key[2] = "[" /\ key[3] = n /\ key[4] = "]"
    OBVIOUS
<1>2. BracketsEnd(key, 1) = {4}
  <2>1. \A j : j \in (1 + 3)..4 <=> j = 4
      OBVIOUS
  <2> HIDE DEF key
  <2> QED BY <1>1, <2>1 DEF BracketsEnd
<1> DEFINE starts == {i \in 1..(Len(key) - 3) : key[i] = name /\ key[i + 1] = "[" /\ BracketsEnd(key, i) # {}}
<1>3. starts = {1}
  <2>1. \A j : j \in 1..(4 - 3) <=> j = 1
      OBVIOUS
  <2>2. key[1 + 1] = "["
      BY <1>1
  <2> HIDE DEF key
  <2> QED BY <1>1, <1>2, <2>1, <2>2
<1>4. Min(starts) = 1 /\ Min({4}) = 4
    BY <1>3, MinOfOne
<1>5. SubSeq(key, 3, 3) = <<n>>
  <2>1. key \in Seq({name, "[", n, "]"})
      OBVIOUS
  <2> HIDE DEF key
  <2>2. 3 \in 1..Len(key) /\ 3 \in 3..Len(key)
      BY <1>1
  <2>3. SubSeq(key, 3, 3) = <<key[3]>> \o SubSeq(key, 3 + 1, 3)
      BY <2>1, <2>2, SubSeqRecursiveFirst
  <2>4. SubSeq(key, 3 + 1, 3) = <<>>
      BY SubSeqEmpty
  <2>5. <<n>> \o <<>> = <<n>>
    <3>1. <<n>> \in Seq({n})
        OBVIOUS
    <3> QED BY <3>1, ConcatEmptySeq
  <2> QED BY <1>1, <2>3, <2>4, <2>5
<1>6. Between(key, starts) = <<n>>
  <2>1. Min(starts) + 2 = 3 /\ Min(BracketsEnd(key, Min(starts))) - 1 = 3 /\ starts # {}
    <3> HIDE DEF key, starts
    <3>1. Min(starts) = 1 /\ BracketsEnd(key, Min(starts)) = {4}
        BY <1>2, <1>4
    <3>2. Min(BracketsEnd(key, Min(starts))) = 4
        BY <1>4, <3>1
    <3> QED BY <1>3, <3>1, <3>2
  <2> HIDE DEF key, starts
  <2> QED BY <1>5, <2>1 DEF Between
<1> QED BY <1>6 DEF DeepProperty

\* Each pair with a name of its own: the property, or the property of the parameter.
LEMMA PairsSpread ==
    ASSUME NEW Token, NEW p, IsWritten(p, Token), Supported(p, "object"), IsSpread(p),
           NEW pairs \in Seq(Token \X Seq(Token)), NEW texts, IsListing(pairs, texts),
           NEW w, w = SerializePairs(p, pairs)
    PROVE  /\ w.values = <<>> /\ (DOMAIN texts # {} => DOMAIN w.others # {})
           /\ ShowsTexts(QueryProps(p, w), texts)
<1> DEFINE textOf(key) == pairs[CHOOSE i \in DOMAIN pairs : pairs[i][1] = key][2]
           names == {pairs[i][1] : i \in DOMAIN pairs}
           deep(n) == <<p.name, "[", n, "]">>
           q == QueryProps(p, w)
<1>1. names = DOMAIN texts
    BY DEF IsListing
<1>2. ASSUME NEW n \in names PROVE textOf(n) = texts[n]
  <2> DEFINE i == CHOOSE i \in DOMAIN pairs : pairs[i][1] = n
  <2>1. i \in DOMAIN pairs /\ pairs[i][1] = n
      OBVIOUS
  <2> HIDE DEF i
  <2>2. pairs[i][2] = texts[n]
      BY <2>1 DEF IsListing
  <2> QED BY <2>2 DEF i
<1> HIDE DEF textOf
<1>3. CASE p.style = "deepObject"
  <2> DEFINE keys == {deep(n) : n \in names}
             params == [k \in keys |-> <<textOf(k[3])>>]
  <2>1. w = Spread(params)
      BY <1>3 DEF SerializePairs, textOf
  <2>2. w.values = <<>> /\ w.others = params
      BY <2>1 DEF Spread
  <2>3. Params(p, w) = params
      BY <2>2 DEF Params
  <2> DEFINE found == [k \in DOMAIN params |-> DeepProperty(k, p.name)]
  <2>4. q = [ok |-> TRUE, props |-> DeepProps(params, found)]
      BY <1>3, <2>3 DEF QueryProps
  <2>5. ASSUME NEW n \in names PROVE DeepProperty(deep(n), p.name) = <<n>>
      BY DeepPropertyOfName
  <2>6. \A n, m : <<n>> = <<m>> => n = m
      OBVIOUS
  <2>7. \A n, m : deep(n) = deep(m) => n = m
    <3>1. \A n : deep(n)[3] = n
        OBVIOUS
    <3> HIDE DEF deep
    <3> QED BY <3>1
  <2>8. ASSUME NEW n \in names
        PROVE  <<n>> \in DOMAIN q.props /\ q.props[<<n>>] = texts[n]
    <3>1. deep(n) \in DOMAIN params /\ found[deep(n)] = <<n>> /\ <<n>> # <<>>
        BY <2>5
    <3>2. \A k \in DOMAIN params : found[k] = <<n>> => k = deep(n)
      <4>1. SUFFICES ASSUME NEW m \in names, found[deep(m)] = <<n>> PROVE deep(m) = deep(n)
          OBVIOUS
      <4>2. found[deep(m)] = <<m>>
          BY <2>5
      <4> HIDE DEF deep, found
      <4> QED BY <2>6, <4>1, <4>2
    <3>3. (CHOOSE k \in DOMAIN params : found[k] = <<n>>) = deep(n)
      <4> HIDE DEF params, found, deep
      <4> QED BY <3>1, <3>2
    <3>4. params[deep(n)][1] = texts[n]
      <4>1. deep(n)[3] = n
          OBVIOUS
      <4>2. params[deep(n)] = <<textOf(n)>>
          BY <4>1
      <4> HIDE DEF params, deep
      <4> QED BY <1>2, <4>2
    <3>5. q.props = [x \in {found[k] : k \in DOMAIN params} \ {<<>>} |->
                        params[CHOOSE k \in DOMAIN params : found[k] = x][1]]
      <4> HIDE DEF params, found
      <4> QED BY <2>4 DEF DeepProps
    <3>6. <<n>> \in {found[k] : k \in DOMAIN params} \ {<<>>}
      <4> HIDE DEF params, found, deep
      <4> QED BY <3>1
    <3> HIDE DEF params, found, deep, q
    <3> QED BY <3>3, <3>4, <3>5, <3>6
  <2>9. q.ok
      BY <2>4
  <2>10. DOMAIN texts # {} => DOMAIN w.others # {}
      BY <1>1, <2>2
  <2> HIDE DEF q
  <2>11. /\ w.values = <<>> /\ q.ok /\ (DOMAIN texts # {} => DOMAIN w.others # {})
         /\ \A n \in DOMAIN texts : <<n>> \in DOMAIN q.props /\ q.props[<<n>>] = texts[n]
      BY <1>1, <2>2, <2>8, <2>9, <2>10
  <2> QED BY <2>11 DEF q, ShowsTexts
<1>4. CASE p.style # "deepObject"
  <2> DEFINE keys == {<<n>> : n \in names}
             params == [k \in keys |-> <<textOf(k[1])>>]
  <2>1. p.style = "form" /\ p.explode /\ p.in = "query"
      BY <1>4 DEF IsWritten, IsMethod, Supported, IsSpread
  <2>2. w = Spread(params)
      BY <2>1 DEF SerializePairs, textOf
  <2>3. w.values = <<>> /\ w.others = params
      BY <2>2 DEF Spread
  <2>4. Params(p, w) = params
      BY <2>3 DEF Params
  <2>5. q = [ok |-> TRUE, props |-> [k \in DOMAIN params |-> params[k][1]]]
      BY <1>4, <2>1, <2>4 DEF QueryProps
  <2>6. ASSUME NEW n \in names PROVE <<n>> \in DOMAIN params /\ params[<<n>>][1] = texts[n]
    <3>1. <<n>>[1] = n
        OBVIOUS
    <3>2. params[<<n>>] = <<textOf(n)>>
        BY <3>1
    <3> HIDE DEF params
    <3>3. params[<<n>>][1] = texts[n]
        BY <1>2, <3>2
    <3> QED BY <3>3 DEF params
  <2>7. DOMAIN texts # {} => DOMAIN w.others # {}
      BY <1>1, <2>3
  <2> HIDE DEF params
  <2>8. q.ok /\ q.props = [k \in DOMAIN params |-> params[k][1]]
      BY <2>5
  <2> HIDE DEF q
  <2>9. /\ w.values = <<>> /\ q.ok /\ (DOMAIN texts # {} => DOMAIN w.others # {})
        /\ \A n \in DOMAIN texts : <<n>> \in DOMAIN q.props /\ q.props[<<n>>] = texts[n]
      BY <1>1, <2>3, <2>6, <2>7, <2>8
  <2> QED BY <2>9 DEF q, ShowsTexts
<1> QED BY <1>3, <1>4

\* The pairs of such an object can be told apart when they are written in one text.
LEMMA PropertyPairs ==
    ASSUME NEW Token, NEW p, NEW texts, ArePropertyTexts(p, texts, Token), NEW pairs \in PairsOf(PropertiesOf(p, texts))
    PROVE  /\ pairs \in Seq(Token \X Seq(Token)) /\ pairs # <<>> /\ IsListing(pairs, texts)
           /\ ~IsSpread(p) => Clean(pairs, PropDelim(p)[1]) /\ Clean(pairs, ValueDelim(p)[1])
<1> DEFINE v == PropertiesOf(p, texts)
           names == DOMAIN texts
<1>1. names \in SUBSET Token /\ IsFiniteSet(names) /\ names # {} /\ texts \in [names -> Seq(Token)]
    BY DEF ArePropertyTexts
<1>2. DOMAIN v.props = names /\ \A n \in names : v.props[n].text = texts[n]
  <2>1. v.props = [n \in names |-> Primitive(p.schema.props[n].type, texts[n])]
      BY DEF PropertiesOf, Object
  <2> HIDE DEF v
  <2> QED BY <2>1 DEF Primitive
<1>3. pairs \in Seq(Token \X Seq(Token)) /\ pairs # <<>> /\ IsListing(pairs, texts)
  <2>1. pairs \in PairsOf(v)
      OBVIOUS
  <2> HIDE DEF v, names
  <2> QED BY <1>1, <1>2, <2>1, PairsList
<1>4. ~IsSpread(p) => Clean(pairs, PropDelim(p)[1]) /\ Clean(pairs, ValueDelim(p)[1])
  <2>1. \A i \in DOMAIN pairs : pairs[i][1] \in names /\ pairs[i][2] = texts[pairs[i][1]]
      BY <1>3 DEF IsListing
  <2> QED BY <2>1 DEF Clean, ArePropertyTexts
<1> QED BY <1>3, <1>4

\* makeObject gives the object if each of its texts is among the properties.
LEMMA PropertiesMade ==
    ASSUME NEW Token, NEW p, NEW texts, ArePropertyTexts(p, texts, Token), NEW props,
           \A n \in DOMAIN texts : <<n>> \in DOMAIN props /\ props[<<n>>] = texts[n]
    PROVE  /\ MakeObject(props, p.schema) = Ok(PropertiesOf(p, texts))
           /\ FoundInQuery(props, p.schema) /\ DOMAIN props # {}
<1> DEFINE s == p.schema
<1>1. /\ DOMAIN texts = DOMAIN s.props
      /\ \A n \in DOMAIN s.props : /\ IsPrimitive(s.props[n]) /\ texts[n] # <<>> /\ Reads(s.props[n].type, texts[n])
                                   /\ <<n>> \in DOMAIN props /\ props[<<n>>] = texts[n]
    BY DEF ArePropertyTexts
<1>2. MakeObject(props, s) = Ok(Object([n \in DOMAIN s.props |-> Primitive(s.props[n].type, texts[n])]))
  <2> HIDE DEF s
  <2> QED BY <1>1, ObjectMade
<1>3. PICK n \in DOMAIN texts : TRUE
    BY DEF ArePropertyTexts
<1> QED BY <1>1, <1>2, <1>3 DEF FoundInQuery, PropertiesOf

\* What is written for an object is not empty: in a path it is not taken for none.
LEMMA WrittenNotEmpty ==
    ASSUME NEW Token, NEW p, IsWritten(p, Token), NEW pairs \in Seq(Token \X Seq(Token)), pairs # <<>>
    PROVE  LET text == Join(WrittenTexts(p, pairs), PropDelim(p)) IN text \in Seq(Token) /\ text # <<>>
<1> DEFINE A == WrittenTexts(p, pairs)
           text == Join(A, PropDelim(p))
<1>1. PropDelim(p) \in Seq(Token) /\ "=" \in Token
    BY PropDelims
<1>2. Len(pairs) \in Nat /\ Len(pairs) # 0
    BY PairTypes
<1>3. A \in Seq(Seq(Token)) /\ A # <<>>
  <2>1. Assignments(pairs) \in Seq(Seq(Token)) /\ Len(Assignments(pairs)) # 0
      BY <1>1, <1>2, AssignmentsType
  <2>2. Alternating(pairs) \in Seq(Seq(Token)) /\ Len(Alternating(pairs)) # 0
    <3>1. 2 * Len(pairs) # 0
        BY <1>2
    <3> QED BY <3>1, AlternatingType
  <2> QED BY <2>1, <2>2 DEF WrittenTexts
<1>4. A[1] # <<>>
  <2>0. 1 \in DOMAIN pairs
      BY <1>2, PairTypes
  <2>1. CASE p.explode
    <3>1. A[1] = <<pairs[1][1], "=">> \o pairs[1][2]
        BY <1>1, <2>0, <2>1, AssignmentsType DEF WrittenTexts
    <3>2. pairs[1][1] \in Token /\ pairs[1][2] \in Seq(Token)
        BY <2>0, PairTypes
    <3>3. <<pairs[1][1], "=">> \in Seq(Token) /\ <<pairs[1][1], "=">> # <<>>
        BY <1>1, <3>2
    <3> HIDE DEF A
    <3> QED BY <3>1, <3>2, <3>3, ConcatEqualIffEmpty
  <2>2. CASE ~p.explode
    <3>1. 1 \in 1..(2 * Len(pairs)) /\ 1 % 2 = 1 /\ (1 + 1) \div 2 = 1
        BY <1>2
    <3>2. A[1] = <<pairs[1][1]>>
        BY <2>2, <3>1 DEF WrittenTexts, Alternating
    <3> QED BY <3>2
  <2> QED BY <2>1, <2>2
<1>5. text \in Seq(Token) /\ text # <<>>
  <2> HIDE DEF A
  <2> QED BY <1>1, <1>3, <1>4, JoinType, JoinNotEmpty
<1> QED BY <1>5

\* decodeObject undoes the serialization: in every place, style and form that it
\* supports, what OpenAPI writes for an object of primitive values, in any order of its
\* properties, is decoded to that object, if no name and no text has a delimiter.
THEOREM WrittenObjectIsDecoded ==
    ASSUME NEW Token, NEW p, IsWritten(p, Token), Supported(p, "object"),
           NEW texts, ArePropertyTexts(p, texts, Token)
    PROVE  \A w \in Serializations(p, PropertiesOf(p, texts)) :
                DecodeStyledParameter(p, w) = Decoded(TRUE, Ok(PropertiesOf(p, texts)))
<1> DEFINE s == p.schema
           v == PropertiesOf(p, texts)
<1>1. Serializations(p, v) = {SerializePairs(p, pairs) : pairs \in PairsOf(v)}
  <2>1. v.kind = "object"
      BY DEF PropertiesOf, Object
  <2> HIDE DEF v
  <2> QED BY <2>1 DEF Serializations
<1>2. ASSUME NEW w PROVE DecodeValue(p, w) = DecodeObject(p, w, s)
  <2>1. p.schema \in Schemas /\ s.of = "type" /\ s.type = "object"
      BY DEF IsWritten, ArePropertyTexts
  <2>2. ~IsComposed(p.schema)
      BY <2>1 DEF IsComposed
  <2>3. DecodePlain(p, w, s) = DecodeObject(p, w, s)
      BY <2>1 DEF DecodePlain
  <2> QED BY <2>1, <2>2, <2>3, PlainSchemaDecoded
<1>3. ASSUME NEW q, ShowsTexts(q, texts)
      PROVE  MakeObject(q.props, s) = Ok(v) /\ FoundInQuery(q.props, s) /\ DOMAIN q.props # {} /\ q.ok
    BY <1>3, PropertiesMade DEF ShowsTexts
<1>4. ASSUME NEW w, p.in = "query", w.values # <<>> \/ DOMAIN w.others # {}, ShowsTexts(QueryProps(p, w), texts)
      PROVE  DecodeStyledParameter(p, w) = Decoded(TRUE, Ok(v))
  <2> DEFINE q == QueryProps(p, w)
  <2>1. DecodeObject(p, w, s) = ObjectInQuery(q, s)
      BY <1>4 DEF DecodeObject
  <2>2. MakeObject(q.props, s) = Ok(v) /\ FoundInQuery(q.props, s) /\ DOMAIN q.props # {} /\ q.ok
      BY <1>3, <1>4
  <2> HIDE DEF q, v
  <2>3. ObjectInQuery(q, s) = Decoded(TRUE, Ok(v))
      BY <2>2 DEF ObjectInQuery
  <2>4. DecodeStyledParameter(p, w) = DecodeValue(p, w)
      BY <1>4 DEF DecodeStyledParameter
  <2> QED BY <1>2, <2>1, <2>3, <2>4
<1>5. ASSUME NEW pairs \in PairsOf(v), NEW w, w = SerializePairs(p, pairs), IsSpread(p)
      PROVE  DecodeStyledParameter(p, w) = Decoded(TRUE, Ok(v))
  <2>1. pairs \in Seq(Token \X Seq(Token)) /\ IsListing(pairs, texts)
      BY <1>5, PropertyPairs
  <2>2. p.in = "query" /\ DOMAIN texts # {}
      BY <1>5 DEF IsSpread, ArePropertyTexts
  <2>3. /\ w.values = <<>> /\ (DOMAIN texts # {} => DOMAIN w.others # {})
        /\ ShowsTexts(QueryProps(p, w), texts)
      BY <1>5, <2>1, PairsSpread
  <2> QED BY <1>4, <2>2, <2>3
<1>6. ASSUME NEW pairs \in PairsOf(v), NEW w, w = SerializePairs(p, pairs), ~IsSpread(p)
      PROVE  DecodeStyledParameter(p, w) = Decoded(TRUE, Ok(v))
  <2> DEFINE prefix == Prefix(p, "object")
             text == Join(WrittenTexts(p, pairs), PropDelim(p))
             q == PropsOf(NamedTexts(pairs), TRUE)
  <2>1. /\ pairs \in Seq(Token \X Seq(Token)) /\ pairs # <<>> /\ IsListing(pairs, texts)
        /\ Clean(pairs, PropDelim(p)[1]) /\ Clean(pairs, ValueDelim(p)[1])
      BY <1>6, PropertyPairs
  <2>2. w = Alone(prefix \o text)
      BY <1>6, <2>1, PairsWritten
  <2>3. prefix \in Seq(Token)
      BY PrefixType
  <2>4. text \in Seq(Token) /\ text # <<>>
      BY <2>1, WrittenNotEmpty
  <2>5. CutPrefix(prefix \o text, prefix) = text /\ IsPrefix(prefix, prefix \o text) /\ prefix \o text # <<>>
    <3> HIDE DEF prefix, text
    <3> QED BY <2>3, <2>4, PrefixOfConcat, ConcatEqualIffEmpty
  <2>6. w.values # <<>> /\ w.values[1] = prefix \o text
    <3> HIDE DEF prefix, text
    <3> QED BY <2>2 DEF Alone
  <2>7. PropsFromString(text, PropDelim(p), ValueDelim(p)) = q
      BY <2>1, WrittenRead
  <2>8. ShowsTexts(q, texts)
      BY <2>1, ListingShows
  <2> HIDE DEF prefix, text, q, v
  <2>9. CASE p.in = "query"
    <3>1. p.style = "form" /\ ~p.explode
        BY <1>6, <2>9 DEF IsWritten, IsMethod, Supported, IsSpread
    <3>2. prefix = <<>> /\ PropDelim(p) = <<",">> /\ ValueDelim(p) = <<",">>
        BY <3>1, PropDelims DEF prefix, Prefix
    <3>3. w.values[1] = text
        BY <2>4, <2>6, <3>2, ConcatEmptySeq
    <3>4. QueryProps(p, w) = PropsFromString(text, <<",">>, <<",">>)
        BY <2>6, <3>1, <3>3 DEF QueryProps
    <3>5. QueryProps(p, w) = q
        BY <2>7, <3>2, <3>4
    <3> QED BY <1>4, <2>6, <2>8, <2>9, <3>5
  <2>10. CASE p.in # "query"
    <3>1. ~Absent(p, w)
        BY <2>5, <2>6 DEF Absent
    <3>2. DecodeObject(p, w, s) =
              Decoded(TRUE, ObjectElsewhere(PropsFromString(text, PropDelim(p), ValueDelim(p)), s))
      <4>1. IsPrefix(Prefix(p, "object"), w.values[1]) /\ CutPrefix(w.values[1], Prefix(p, "object")) = text
          BY <2>5, <2>6 DEF prefix
      <4> QED BY <2>10, <3>1, <4>1 DEF DecodeObject
    <3>3. ObjectElsewhere(q, s) = Ok(v)
        BY <1>3, <2>8 DEF ObjectElsewhere
    <3>4. DecodeObject(p, w, s) = Decoded(TRUE, Ok(v))
        BY <2>7, <3>2, <3>3
    <3>5. DecodeStyledParameter(p, w) = DecodeValue(p, w)
        BY <2>6 DEF DecodeStyledParameter
    <3> QED BY <1>2, <3>4, <3>5
  <2> QED BY <2>9, <2>10
<1> QED BY <1>1, <1>5, <1>6

-----------------------------------------------------------------------------
(* What is decoded is the whole: a text *)

\* Nothing, or the text as it is read.
IsTextOf(v, x) == v = Nil \/ (v.kind = "primitive" /\ v.text = x)

\* What a function that parses the text returns.
IsReadingOf(r, x) == \E v, e : r = [value |-> v, err |-> e] /\ IsTextOf(v, x)

\* An error and a panic come with nothing.
LEMMA NothingRead ==
    ASSUME NEW x PROVE IsReadingOf(Bad, x) /\ IsReadingOf(Panic, x)
BY DEF IsReadingOf, IsTextOf, Bad, Panic

\* parsePrimitive gives nothing or the text,
LEMMA ParsedIsText ==
    ASSUME NEW x, NEW s PROVE IsReadingOf(ParsePrimitive(x, s), x)
<1>1. \A v : IsTextOf(v, x) => IsReadingOf(Ok(v), x)
    BY DEF IsReadingOf, Ok
<1>2. IsTextOf(Nil, x) /\ IsTextOf(Primitive(s.type, x), x)
    BY DEF IsTextOf, Primitive
<1> QED BY <1>1, <1>2, NothingRead DEF ParsePrimitive

\* The results of the schemas that one is composed of.
LEMMA PartResults ==
    ASSUME NEW s \in ComposedSchemas, NEW f
    PROVE  LET r == [i \in DOMAIN s.subs |-> f[s.subs[i]]]
           IN  /\ Len(r) \in DOMAIN r /\ DOMAIN r \in SUBSET Nat
               /\ \A i \in DOMAIN r : s.subs[i] \in Schemas /\ r[i] = f[s.subs[i]]
<1>1. s.subs \in Seq(Schemas) /\ s.subs # <<>>
    BY SchemasAssumption DEF ComposedSchemas
<1> DEFINE n == Len(s.subs)
           r == [i \in DOMAIN s.subs |-> f[s.subs[i]]]
<1>2. n \in Nat /\ n # 0 /\ DOMAIN s.subs = 1..n /\ \A i \in 1..n : s.subs[i] \in Schemas
    BY <1>1
<1>3. r \in Seq({f[x] : x \in Schemas}) /\ Len(r) = n
    BY <1>2
<1> QED BY <1>2, <1>3

\* An alternative's result or none is what parseValue gives for a composed schema,
LEMMA ParseComposedValue ==
    ASSUME NEW s, IsComposed(s), NEW r, Len(r) \in DOMAIN r, DOMAIN r \in SUBSET Nat
    PROVE  ParseComposed(s, r) \in {Bad, Panic} \/ \E i \in DOMAIN r : ParseComposed(s, r) = r[i]
<1>1. \A S \in SUBSET DOMAIN r : S # {} => Min(S) \in DOMAIN r
    BY MinIsLeast
<1>2. CASE s.of = "allOf"
    BY <1>1, <1>2 DEF ParseComposed, Stopping
<1>3. CASE s.of = "anyOf"
    BY <1>1, <1>3 DEF ParseComposed
<1>4. CASE s.of = "oneOf"
  <2> DEFINE good == {i \in DOMAIN r : r[i].err = "none"}
  <2>1. good = {} => Cardinality(good) # 1
    <3>1. Cardinality({}) = 0
        BY FS_EmptySet
    <3> HIDE DEF good
    <3> QED BY <3>1
  <2>2. good # {} => Min(good) \in DOMAIN r
      BY <1>1
  <2>3. ParseComposed(s, r) = IF Panics(r) THEN Panic ELSE IF Cardinality(good) = 1 THEN r[Min(good)] ELSE Bad
      BY <1>4 DEF ParseComposed
  <2> HIDE DEF good
  <2> QED BY <2>1, <2>2, <2>3
<1> QED BY <1>2, <1>3, <1>4 DEF IsComposed

\* and so parseValue gives nothing or the text, whatever the schema is composed of.
LEMMA ParsedValueIsText ==
    ASSUME NEW x, NEW s \in Schemas PROVE IsReadingOf(ParseValue(x)[s], x)
<1> DEFINE P(y) == IsReadingOf(ParseValue(x)[y], x)
           S == {y \in ComposedSchemas : P(y)}
<1>1. ASSUME NEW y \in Schemas \ ComposedSchemas PROVE P(y)
  <2>1. ParseValue(x)[y] = IF y.of = "not" THEN Bad ELSE ParsePrimitive(x, y)
      BY ParseValueEquation DEF ComposedSchemas
  <2> QED BY <2>1, ParsedIsText, NothingRead
<1>2. ASSUME NEW y \in ComposedSchemas, Parts(y) \subseteq S PROVE y \in S
  <2> DEFINE r == [i \in DOMAIN y.subs |-> ParseValue(x)[y.subs[i]]]
  <2>1. /\ Len(r) \in DOMAIN r /\ DOMAIN r \in SUBSET Nat
        /\ \A i \in DOMAIN r : y.subs[i] \in Schemas /\ r[i] = ParseValue(x)[y.subs[i]]
    <3> DEFINE f == ParseValue(x)
    <3> HIDE DEF f
    <3> QED BY PartResults DEF f
  <2>2. y \in Schemas /\ IsComposed(y)
      BY DEF ComposedSchemas
  <2>3. ParseValue(x)[y] = ParseComposed(y, r)
      BY <2>2, ParseValueEquation
  <2>4. ASSUME NEW i \in DOMAIN r PROVE IsReadingOf(r[i], x)
      BY <1>1, <1>2, <2>1, SubSchemas
  <2>5. ParseComposed(y, r) \in {Bad, Panic} \/ \E i \in DOMAIN r : ParseComposed(y, r) = r[i]
    <3> HIDE DEF r
    <3> QED BY <2>1, <2>2, ParseComposedValue
  <2> HIDE DEF r
  <2> QED BY <2>3, <2>4, <2>5, NothingRead
<1>3. ComposedSchemas \subseteq S
  <2> HIDE DEF S
  <2> QED BY <1>2, CompositionInduction
<1> QED BY <1>1, <1>3

\* The value of a composed schema is nil or the value of an alternative.
LEMMA DecodeComposedValue ==
    ASSUME NEW p, NEW s, IsComposed(s), NEW r, Len(r) \in DOMAIN r, DOMAIN r \in SUBSET Nat
    PROVE  DecodeComposed(p, s, r).value = Nil \/ \E i \in DOMAIN r : DecodeComposed(p, s, r).value = r[i].value
<1> DEFINE some == {i \in DOMAIN r : r[i].value # Nil \/ r[i].err = "panic"}
           Known(d) == d.value = Nil \/ \E i \in DOMAIN r : d.value = r[i].value
<1>1. \A S \in SUBSET DOMAIN r : S # {} => Min(S) \in DOMAIN r
    BY MinIsLeast
<1>2. Nil = Panic.value /\ Nil = Bad.value
    BY DEF Bad, Panic
<1>3. \A found, x : Decoded(found, x).value = x.value /\ Ok(x).value = x
    BY DEF Decoded, Ok
<1>4. CASE s.of = "allOf"
  <2> DEFINE stop == Stopping(r)
             k == IF stop = {} THEN Len(r) ELSE Min(stop)
  <2>1. \E found : DecodeComposed(p, s, r) = Decoded(found, r[k])
      BY <1>4 DEF DecodeComposed
  <2>2. k \in DOMAIN r
      BY <1>1 DEF Stopping
  <2> HIDE DEF k
  <2> QED BY <1>3, <2>1, <2>2
<1>5. CASE s.of = "anyOf"
  <2>1. CASE some = {}
    <3>1. \E found, err : DecodeComposed(p, s, r) = Decoded(found, [value |-> Nil, err |-> err])
        BY <1>5, <2>1 DEF DecodeComposed
    <3> QED BY <3>1 DEF Decoded
  <2>2. CASE some # {}
    <3>1. Min(some) \in DOMAIN r
        BY <1>1, <2>2
    <3>2. DecodeComposed(p, s, r) = Decoded(FALSE, Panic)
            \/ \E found : DecodeComposed(p, s, r) = Decoded(found, Ok(r[Min(some)].value))
        BY <1>5, <2>2 DEF DecodeComposed
    <3> HIDE DEF some
    <3> QED BY <3>1, <3>2 DEF Decoded, Ok, Bad, Panic
  <2> QED BY <2>1, <2>2
<1>6. CASE s.of = "oneOf"
  <2>1. CASE Panics(r)
    <3>1. DecodeComposed(p, s, r) = Decoded(FALSE, Panic)
        BY <1>6, <2>1 DEF DecodeComposed
    <3> QED BY <3>1 DEF Decoded, Panic
  <2>2. CASE ~Panics(r) /\ some = {}
    <3>1. \E found, err : DecodeComposed(p, s, r) = Decoded(found, [value |-> Nil, err |-> err])
        BY <1>6, <2>2 DEF DecodeComposed
    <3> QED BY <3>1 DEF Decoded
  <2>3. CASE ~Panics(r) /\ some # {}
    <3>1. Min(some) \in DOMAIN r
        BY <1>1, <2>3
    <3>2. \E found : DecodeComposed(p, s, r) \in {Decoded(found, Bad), Decoded(found, Ok(r[Min(some)].value))}
        BY <1>6, <2>3 DEF DecodeComposed
    <3> HIDE DEF some
    <3> QED BY <3>1, <3>2 DEF Decoded, Ok, Bad, Panic
  <2> QED BY <2>1, <2>2, <2>3
<1> QED BY <1>4, <1>5, <1>6 DEF IsComposed

\* What cutPrefix leaves is a text.
LEMMA CutPrefixType ==
    ASSUME NEW Token, NEW a \in Seq(Token), NEW t \in Seq(Token) PROVE CutPrefix(t, a) \in Seq(Token)
<1>1. Len(a) + 1 >= 1 /\ Len(a) + 1 \in Nat /\ Len(t) \in Nat
    OBVIOUS
<1>2. \A j \in (Len(a) + 1)..Len(t) : t[j] \in Token
    BY <1>1
<1>3. SubSeq(t, Len(a) + 1, Len(t)) \in Seq(Token)
    BY <1>1, <1>2, SubSeqProperties
<1> QED BY <1>3 DEF CutPrefix

\* decodePrimitive leaves nothing out: it gives nil or a value with the whole text.
LEMMA DecodedPrimitiveIsWhole ==
    ASSUME NEW Token, NEW p, IsWritten(p, Token), NEW w, IsWire(p, w, Token), NEW s \in Schemas,
           s.of = "type" => s.type # "" \/ p.in = "query", ~IsComposed(s), s.of # "not"
    PROVE  LET v == DecodePrimitive(p, w, s).value IN v = Nil \/ IsWholeText(p, w, v)
<1> DEFINE d == DecodePrimitive(p, w, s)
           raw == w.values[1]
           prefix == Prefix(p, "primitive")
<1>1. CASE ~Supported(p, "primitive") \/ Absent(p, w)
  <2>1. d \in {Decoded(FALSE, Bad), NotShown}
      BY <1>1 DEF DecodePrimitive
  <2>2. Decoded(FALSE, Bad).value = Nil /\ NotShown.value = Nil
      BY DEF Decoded, Bad, NotShown, Ok
  <2> QED BY <2>1, <2>2
<1>2. CASE Supported(p, "primitive") /\ ~Absent(p, w)
  <2>1. d = Decoded(TRUE,
                IF ~IsPrefix(prefix, raw) THEN Bad
                ELSE IF s.type = "" /\ s.pattern THEN Ok(Primitive("string", raw))
                ELSE ParsePrimitive(CutPrefix(raw, prefix), s))
      BY <1>2 DEF DecodePrimitive
  <2>2. raw \in Seq(Token)
    <3>1. w.values # <<>> /\ w.values \in Seq(Seq(Token))
        BY <1>2 DEF Absent, IsWire
    <3> QED BY <3>1, FirstOf
  <2>3. prefix \in Seq(Token)
      BY PrefixType
  <2>4. s.of = "type"
      BY SchemasAssumption DEF IsComposed
  <2> SUFFICES d.value = Nil \/ IsWholeText(p, w, d.value)
      OBVIOUS
  <2> HIDE DEF d, prefix
  <2>5. CASE ~IsPrefix(prefix, raw)
      BY <2>1, <2>5 DEF Decoded, Bad
  <2>6. CASE IsPrefix(prefix, raw) /\ s.type = "" /\ s.pattern
    <3>1. d.value = Primitive("string", raw)
        BY <2>1, <2>6 DEF Decoded, Ok
    <3>2. p.in = "query" /\ p.style = "form"
        BY <1>2, <2>4, <2>6 DEF Supported
    <3>3. SerializeText(p, raw) = Alone(raw)
        BY <3>2 DEF SerializeText
    <3>4. d.value.kind = "primitive" /\ d.value.text = raw
      <4> DEFINE x == Primitive("string", raw)
      <4>1. x.kind = "primitive" /\ x.text = raw
          BY PrimitiveFields
      <4>2. d.value = x
          BY <3>1
      <4> HIDE DEF x
      <4> QED BY <4>1, <4>2
    <3>5. Alone(raw).values[1] = raw
        BY DEF Alone
    <3> QED BY <3>3, <3>4, <3>5 DEF IsWholeText
  <2>7. CASE IsPrefix(prefix, raw) /\ ~(s.type = "" /\ s.pattern)
    <3> DEFINE text == CutPrefix(raw, prefix)
    <3>1. d.value = ParsePrimitive(text, s).value
        BY <2>1, <2>7 DEF Decoded
    <3>2. raw = prefix \o text
        BY <2>2, <2>3, <2>7, ConcatOfPrefix
    <3>3. text \in Seq(Token)
        BY <2>2, <2>3, CutPrefixType
    <3> HIDE DEF text
    <3>4. SerializeText(p, text) = Alone(prefix \o text)
        BY <3>3, TextWritten DEF prefix
    <3>5. IsTextOf(d.value, text)
      <4>1. IsReadingOf(ParsePrimitive(text, s), text)
          BY ParsedIsText
      <4>2. PICK v, e : ParsePrimitive(text, s) = [value |-> v, err |-> e] /\ IsTextOf(v, text)
          BY <4>1 DEF IsReadingOf
      <4> DEFINE z == ParsePrimitive(text, s)
      <4>3. z = [value |-> v, err |-> e]
          BY <4>2
      <4> HIDE DEF z
      <4>4. z.value = v
          BY <4>3
      <4>5. d.value = v
          BY <3>1, <4>4 DEF z
      <4> QED BY <4>2, <4>5
    <3>6. Alone(prefix \o text).values[1] = prefix \o text
        BY DEF Alone
    <3>7. d.value = Nil \/ (d.value.kind = "primitive" /\ d.value.text = text)
        BY <3>5 DEF IsTextOf
    <3> QED BY <3>2, <3>4, <3>6, <3>7 DEF IsWholeText
  <2> QED BY <2>5, <2>6, <2>7
<1> QED BY <1>1, <1>2

-----------------------------------------------------------------------------
(* The whole of a list *)

\* A list of the texts as they are read.
IsListOf(v, texts) ==
    /\ v.kind = "array" /\ DOMAIN v.items = DOMAIN texts
    /\ \A i \in DOMAIN texts : v.items[i].kind = "primitive" /\ v.items[i].text = texts[i]

\* parseArray gives no list or one of all the items.
LEMMA ParsedArray ==
    ASSUME NEW r, NEW texts, DOMAIN r = DOMAIN texts, DOMAIN r \in SUBSET Nat, \A i \in DOMAIN texts : IsReadingOf(r[i], texts[i])
    PROVE  ParseArray(r).value = TypedNil \/ IsListOf(ParseArray(r).value, texts)
<1> DEFINE stop == {i \in DOMAIN r : r[i].value = Nil}
           values == [i \in DOMAIN r |-> r[i].value]
<1>1. CASE stop = {}
  <2>1. ParseArray(r).value = Array(values)
      BY <1>1 DEF ParseArray, Ok
  <2>2. \A i \in DOMAIN texts : values[i].kind = "primitive" /\ values[i].text = texts[i]
      BY <1>1 DEF IsReadingOf, IsTextOf
  <2>3. DOMAIN values = DOMAIN texts
      OBVIOUS
  <2> HIDE DEF values
  <2>4. Array(values).kind = "array" /\ Array(values).items = values
      BY DEF Array
  <2> QED BY <2>1, <2>2, <2>3, <2>4 DEF IsListOf
<1>2. CASE stop # {}
  <2>1. Min(stop) \in stop
      BY <1>2, MinIsLeast
  <2>2. PICK v, e : r[Min(stop)] = [value |-> v, err |-> e]
      BY <2>1 DEF IsReadingOf
  <2>3. [r[Min(stop)] EXCEPT !.value = TypedNil] = [value |-> TypedNil, err |-> e]
      BY <2>2
  <2>4. ParseArray(r) = [r[Min(stop)] EXCEPT !.value = TypedNil]
      BY <1>2 DEF ParseArray
  <2> HIDE DEF stop
  <2> QED BY <2>3, <2>4
<1> QED BY <1>1, <1>2

\* The texts of such a list.
LEMMA ListTexts ==
    ASSUME NEW v, NEW Token, NEW texts \in Seq(Seq(Token)), IsListOf(v, texts)
    PROVE  [i \in DOMAIN v.items |-> v.items[i].text] = texts
<1>1. texts = [i \in DOMAIN texts |-> texts[i]]
    OBVIOUS
<1> QED BY <1>1 DEF IsListOf

\* A list with all the text that the request has for it.
LEMMA ListIsWhole ==
    ASSUME NEW Token, NEW p, IsWritten(p, Token), NEW w, IsWire(p, w, Token), w.values # <<>>,
           Supported(p, "array"), NEW v, NEW texts \in Seq(Seq(Token)), IsListOf(v, texts),
           IF p.in = "query" /\ p.explode THEN w.values = texts
           ELSE w.values[1] = Prefix(p, "array") \o Join(texts, ItemDelim(p))
    PROVE  IsWholeArray(p, w, v)
<1> DEFINE x == SerializeItems(p, texts)
           whole == Prefix(p, "array") \o Join(texts, ItemDelim(p))
<1>1. [i \in DOMAIN v.items |-> v.items[i].text] = texts
    BY ListTexts
<1>2. x = IF p.in = "query" /\ p.explode THEN [values |-> texts, others |-> <<>>] ELSE Alone(whole)
    BY ItemsWritten
<1>3. IF p.in = "query" /\ p.explode THEN x.values = texts ELSE x.values[1] = whole
  <2> HIDE DEF x, whole
  <2> QED BY <1>2 DEF Alone
<1>4. v.kind = "array" /\ \A i \in DOMAIN v.items : v.items[i].kind = "primitive"
    BY DEF IsListOf
<1>5. IF p.in = "query" /\ p.explode THEN w.values = x.values ELSE w.values[1] = x.values[1]
  <2>1. p.in = "query" /\ p.explode => w.values = texts
      OBVIOUS
  <2>2. ~(p.in = "query" /\ p.explode) => w.values[1] = whole
      OBVIOUS
  <2> HIDE DEF x, whole
  <2> QED BY <1>3, <2>1, <2>2
<1> HIDE DEF x
<1> QED BY <1>1, <1>4, <1>5 DEF IsWholeArray, x

\* decodeArray leaves nothing out: it gives nothing or a list of all the items.
LEMMA DecodedArrayIsWhole ==
    ASSUME NEW Token, NEW p, IsWritten(p, Token), NEW w, IsWire(p, w, Token),
           NEW s \in Schemas, s.of = "type", s.type = "array"
    PROVE  LET v == DecodeArray(p, w, s).value IN v \in {Nil, TypedNil} \/ IsWholeArray(p, w, v)
<1> DEFINE d == DecodeArray(p, w, s)
           raw == w.values[1]
           prefix == Prefix(p, "array")
           delim == ItemDelim(p)
           items == IF p.in = "query" /\ p.explode THEN w.values ELSE Split(CutPrefix(raw, prefix), delim)
           item(x) == IF p.in = "query" THEN ParseValue(x)[s.items] ELSE ParsePrimitive(x, s.items)
           r == [i \in DOMAIN items |-> item(items[i])]
<1>1. SUFFICES d.value \in {Nil, TypedNil} \/ IsWholeArray(p, w, d.value)
    OBVIOUS
<1>2. \A found : Decoded(found, BadNil).value = TypedNil /\ Decoded(found, Ok(TypedNil)).value = TypedNil
    BY DEF Decoded, BadNil, Bad, Ok
<1>3. CASE ~Supported(p, "array")
  <2>1. d = Decoded(FALSE, BadNil)
      BY <1>3 DEF DecodeArray
  <2> HIDE DEF d
  <2> QED BY <1>2, <2>1
<1>4. CASE Supported(p, "array") /\ Absent(p, w)
  <2>1. d = Decoded(FALSE, Ok(TypedNil))
      BY <1>4 DEF DecodeArray
  <2> HIDE DEF d
  <2> QED BY <1>2, <2>1
<1>5. CASE Supported(p, "array") /\ ~Absent(p, w) /\ ~IsPrefix(prefix, raw)
  <2>1. d = Decoded(TRUE, BadNil)
      BY <1>5 DEF DecodeArray
  <2> HIDE DEF d
  <2> QED BY <1>2, <2>1
<1>6. CASE Supported(p, "array") /\ ~Absent(p, w) /\ IsPrefix(prefix, raw)
  <2>1. d = Decoded(TRUE, ParseArray(r))
      BY <1>6 DEF DecodeArray
  <2>2. w.values \in Seq(Seq(Token)) /\ w.values # <<>>
      BY <1>6 DEF IsWire, Absent
  <2>3. raw \in Seq(Token) /\ prefix \in Seq(Token) /\ delim \in Seq(Token) /\ delim # <<>>
      BY <2>2, FirstOf, PrefixType, ItemDelimType
  <2>4. items \in Seq(Seq(Token))
        /\ (~(p.in = "query" /\ p.explode) => raw = prefix \o Join(items, delim))
    <3> DEFINE text == CutPrefix(raw, prefix)
    <3>1. text \in Seq(Token) /\ raw = prefix \o text
      <4> HIDE DEF raw, prefix
      <4> QED BY <1>6, <2>3, CutPrefixType, ConcatOfPrefix
    <3>2. Split(text, delim) \in Seq(Seq(Token)) /\ Join(Split(text, delim), delim) = text
      <4> HIDE DEF text, delim
      <4> QED BY <2>3, <3>1, JoinOfSplit
    <3>3. CASE p.in = "query" /\ p.explode
        BY <2>2, <3>3
    <3>4. CASE ~(p.in = "query" /\ p.explode)
      <4>1. items = Split(text, delim)
          BY <3>4
      <4> HIDE DEF items, text, delim, prefix, raw
      <4> QED BY <3>1, <3>2, <3>4, <4>1
    <3> QED BY <3>3, <3>4
  <2>5. s.items \in Schemas
      BY SchemasAssumption
  <2>6. ASSUME NEW i \in DOMAIN items PROVE IsReadingOf(item(items[i]), items[i])
    <3> HIDE DEF items
    <3> QED BY <2>5, ParsedValueIsText, ParsedIsText
  <2> HIDE DEF item
  <2>7. DOMAIN r = DOMAIN items /\ DOMAIN r \in SUBSET Nat /\ \A i \in DOMAIN items : IsReadingOf(r[i], items[i])
    <3> HIDE DEF items
    <3> QED BY <2>4, <2>6
  <2>8. ParseArray(r).value = TypedNil \/ IsListOf(ParseArray(r).value, items)
    <3> HIDE DEF r, items
    <3> QED BY <2>7, ParsedArray
  <2>9. d.value = ParseArray(r).value
    <3> HIDE DEF d, r
    <3> QED BY <2>1 DEF Decoded
  <2>10. ASSUME IsListOf(d.value, items) PROVE IsWholeArray(p, w, d.value)
    <3>1. IF p.in = "query" /\ p.explode THEN w.values = items
          ELSE w.values[1] = Prefix(p, "array") \o Join(items, ItemDelim(p))
      <4>1. p.in = "query" /\ p.explode => w.values = items
          OBVIOUS
      <4> HIDE DEF items
      <4> QED BY <2>4, <4>1
    <3> HIDE DEF d, items
    <3> QED BY <1>6, <2>2, <2>4, <2>10, <3>1, ListIsWhole
  <2> HIDE DEF d, r, items
  <2> QED BY <2>8, <2>9, <2>10
<1> HIDE DEF d
<1> QED BY <1>3, <1>4, <1>5, <1>6

-----------------------------------------------------------------------------
(* The whole of an object *)

\* An object whose properties have these texts, or nothing.
IsObjectOf(v, props, s) ==
    /\ v.kind = "object" /\ DOMAIN v.props = DOMAIN s.props
    /\ \A n \in DOMAIN v.props :
        IF v.props[n] = Nil THEN <<n>> \in DOMAIN props => props[<<n>>] = <<>>
        ELSE <<n>> \in DOMAIN props /\ v.props[n].text = props[<<n>>]

\* makeObject gives nothing or an object of texts that are among the properties.
LEMMA MadeOfTexts ==
    ASSUME NEW props, NEW s
    PROVE  LET v == MakeObject(props, s).value IN v = TypedNil \/ IsObjectOf(v, props, s)
<1> DEFINE text(n) == IF <<n>> \in DOMAIN props THEN props[<<n>>] ELSE <<>>
           r == [n \in DOMAIN s.props |-> ParsePrimitive(text(n), s.props[n])]
           values == [n \in DOMAIN r |-> r[n].value]
           m == MakeObject(props, s)
<1>1. SUFFICES m.value = TypedNil \/ IsObjectOf(m.value, props, s)
    OBVIOUS
<1>2. m = Made(r)
    BY DEF MakeObject
<1>3. ASSUME NEW n \in DOMAIN r, r[n].value # Nil
      PROVE  <<n>> \in DOMAIN props /\ r[n].value.text = props[<<n>>]
  <2>1. r[n] = ParsePrimitive(text(n), s.props[n])
      OBVIOUS
  <2>2. PICK v, e : r[n] = [value |-> v, err |-> e] /\ IsTextOf(v, text(n))
    <3> HIDE DEF r, text
    <3> QED BY <2>1, ParsedIsText DEF IsReadingOf
  <2>3. text(n) # <<>>
    <3>1. ASSUME text(n) = <<>> PROVE FALSE
      <4>1. r[n] = Ok(Nil)
        <5> HIDE DEF r, text
        <5> QED BY <2>1, <3>1 DEF ParsePrimitive
      <4> HIDE DEF r
      <4> QED BY <1>3, <4>1 DEF Ok
    <3> QED BY <3>1
  <2>4. <<n>> \in DOMAIN props /\ text(n) = props[<<n>>]
      BY <2>3
  <2> HIDE DEF r, text
  <2> QED BY <1>3, <2>2, <2>4 DEF IsTextOf
<1>6. ASSUME NEW n \in DOMAIN r, r[n].value = Nil, r[n].err = "none", <<n>> \in DOMAIN props
      PROVE  props[<<n>>] = <<>>
  <2>1. r[n] = ParsePrimitive(props[<<n>>], s.props[n])
      BY <1>6
  <2> DEFINE x == ParsePrimitive(props[<<n>>], s.props[n])
  <2>2. ASSUME props[<<n>>] # <<>> PROVE x \in {Panic, Bad, Ok(Primitive(s.props[n].type, props[<<n>>]))}
      BY <2>2 DEF ParsePrimitive
  <2>3. Panic.err # "none" /\ Bad.err # "none"
      BY DEF Panic, Bad
  <2>4. \A type, word : Ok(Primitive(type, word)).value # Nil
      BY DEF Ok, Primitive, Nil
  <2> HIDE DEF r, x
  <2> QED BY <1>6, <2>1, <2>2, <2>3, <2>4 DEF x
<1>4. CASE Panics(r) \/ \E n \in DOMAIN r : r[n].err # "none"
  <2>1. m \in {[Panic EXCEPT !.value = TypedNil], [Bad EXCEPT !.value = TypedNil]}
    <3> HIDE DEF r, m
    <3> QED BY <1>2, <1>4 DEF Made
  <2>2. [Panic EXCEPT !.value = TypedNil].value = TypedNil /\ [Bad EXCEPT !.value = TypedNil].value = TypedNil
      BY DEF Panic, Bad
  <2> HIDE DEF m
  <2> QED BY <2>1, <2>2
<1>5. CASE ~(Panics(r) \/ \E n \in DOMAIN r : r[n].err # "none")
  <2>1. m.value = Object(values)
    <3> HIDE DEF r, m
    <3> QED BY <1>2, <1>5 DEF Made, Ok
  <2>2. /\ DOMAIN values = DOMAIN r /\ DOMAIN r = DOMAIN s.props
        /\ \A n \in DOMAIN values : values[n] = r[n].value
      OBVIOUS
  <2> HIDE DEF values, m, r
  <2>3. Object(values).kind = "object" /\ Object(values).props = values
      BY DEF Object
  <2> QED BY <1>3, <1>5, <1>6, <2>1, <2>2, <2>3 DEF IsObjectOf
<1> QED BY <1>4, <1>5

\* The names and texts that propsFromString finds in a text, and what it makes of them.
IsReadAs(p, text, q, pairs) ==
    /\ text = Join(PairTexts(p, pairs), PropDelim(p))
    /\ \A name : name \in DOMAIN q.props <=> \E i \in DOMAIN pairs : pairs[i][1] = name
    /\ \A name \in DOMAIN q.props : q.props[name] = LastText(pairs, name)

\* Of the pairs of a name, the last is the property's.
LEMMA PropsOfPairs ==
    ASSUME NEW all, NEW ok, PropsOf(all, ok).ok
    PROVE  LET q == PropsOf(all, ok)
           IN  /\ \A name : name \in DOMAIN q.props <=> \E i \in DOMAIN all : all[i][1] = name
               /\ \A name \in DOMAIN q.props : q.props[name] = LastText(all, name)
<1> DEFINE q == PropsOf(all, ok)
           names == {all[i][1] : i \in DOMAIN all}
<1>1. ok /\ q.props = [n \in names |-> all[Max({i \in DOMAIN all : all[i][1] = n})][2]]
    BY DEF PropsOf
<1>2. DOMAIN q.props = names /\ \A n \in names : q.props[n] = LastText(all, n)
  <2> HIDE DEF names, q
  <2> QED BY <1>1 DEF LastText
<1> QED BY <1>2

\* Texts that are read in turn are the pairs, in turn.
LEMMA TurnsRead ==
    ASSUME NEW Token, NEW parts \in Seq(Seq(Token)), InTurn(parts).ok
    PROVE  LET pairs == [i \in 1..(Len(parts) \div 2) |-> <<parts[2 * i - 1], parts[2 * i]>>]
           IN  /\ pairs \in Seq(Seq(Token) \X Seq(Token))
               /\ parts = [k \in 1..(2 * Len(pairs)) |->
                            IF k % 2 = 1 THEN pairs[(k + 1) \div 2][1] ELSE pairs[k \div 2][2]]
<1> DEFINE n == Len(parts)
           m == n \div 2
           pairs == [i \in 1..m |-> <<parts[2 * i - 1], parts[2 * i]>>]
<1>1. n \in Nat /\ n % 2 = 0
  <2>1. \A all, ok : PropsOf(all, ok).ok = ok
      BY DEF PropsOf
  <2>2. InTurn(parts).ok = (Len(parts) % 2 = 0)
      BY <2>1, Zenon DEF InTurn
  <2>3. Len(parts) % 2 = 0
      BY <2>2, Zenon
  <2>4. Len(parts) \in Nat
      OBVIOUS
  <2> QED BY <2>3, <2>4
<1>2. m \in Nat /\ n = 2 * m
  <2>1. \A x \in Nat : x % 2 = 0 => x \div 2 \in Nat /\ x = 2 * (x \div 2)
      OBVIOUS
  <2> HIDE DEF n
  <2> QED BY <1>1, <2>1
<1>3. \A i \in 1..m : 2 * i - 1 \in 1..n /\ 2 * i \in 1..n
  <2> HIDE DEF n, m
  <2> QED BY <1>2
<1>4. \A k \in 1..n : IF k % 2 = 1 THEN (k + 1) \div 2 \in 1..m /\ 2 * ((k + 1) \div 2) - 1 = k
                      ELSE k \div 2 \in 1..m /\ 2 * (k \div 2) = k
  <2>1. \A x, k \in Nat : k \in 1..(2 * x) =>
            IF k % 2 = 1 THEN (k + 1) \div 2 \in 1..x /\ 2 * ((k + 1) \div 2) - 1 = k
            ELSE k \div 2 \in 1..x /\ 2 * (k \div 2) = k
      OBVIOUS
  <2> HIDE DEF n, m
  <2> QED BY <1>2, <2>1
<1>5. \A k \in 1..n : parts[k] \in Seq(Token)
    OBVIOUS
<1>6. parts = [k \in 1..n |-> parts[k]]
    OBVIOUS
<1> HIDE DEF n, m
<1>7. pairs \in Seq(Seq(Token) \X Seq(Token)) /\ Len(pairs) = m
    BY <1>2, <1>3, <1>5
<1>8. parts = [k \in 1..(2 * Len(pairs)) |->
                IF k % 2 = 1 THEN pairs[(k + 1) \div 2][1] ELSE pairs[k \div 2][2]]
  <2>1. ASSUME NEW k \in 1..n
        PROVE  parts[k] = IF k % 2 = 1 THEN pairs[(k + 1) \div 2][1] ELSE pairs[k \div 2][2]
      BY <1>4
  <2> HIDE DEF pairs
  <2> QED BY <1>2, <1>6, <1>7, <2>1
<1> QED BY <1>7, <1>8 DEF n, m

\* A list of two is its first and its second.
LEMMA TwoOf ==
    ASSUME NEW S, NEW y \in Seq(S), Len(y) = 2
    PROVE  y = <<y[1], y[2]>> /\ y[1] \in S /\ y[2] \in S
<1>1. 1..Len(y) = 1..2 /\ 1 \in 1..2 /\ 2 \in 1..2
    OBVIOUS
<1>2. y[1] \in S /\ y[2] \in S
  <2>1. \A i \in 1..Len(y) : y[i] \in S
      OBVIOUS
  <2> QED BY <1>1, <2>1
<1>3. <<y[1], y[2]>> \in Seq(S) /\ Len(<<y[1], y[2]>>) = 2
    BY <1>2
<1>4. \A i \in 1..2 : y[i] = <<y[1], y[2]>>[i]
    OBVIOUS
<1>5. y = <<y[1], y[2]>>
    BY <1>3, <1>4, SeqEqual
<1> QED BY <1>2, <1>5

\* A text that is split in two at the sign is name, sign and text.
LEMMA AssignmentRead ==
    ASSUME NEW Token, "=" \in Token, NEW x \in Seq(Token), Len(Split(x, <<"=">>)) = 2
    PROVE  LET y == Split(x, <<"=">>)
           IN  y \in Seq(Seq(Token)) /\ y = <<y[1], y[2]>> /\ y[1] \in Seq(Token) /\ y[2] \in Seq(Token)
               /\ x = (y[1] \o <<"=">>) \o y[2]
<1> DEFINE eq == <<"=">>
           y == Split(x, eq)
           rest == <<y[2]>>
<1>1. eq \in Seq(Token) /\ eq # <<>>
    OBVIOUS
<1>2. y \in Seq(Seq(Token)) /\ Join(y, eq) = x /\ Len(y) = 2
  <2> HIDE DEF eq
  <2>1. Split(x, eq) \in Seq(Seq(Token)) /\ Join(Split(x, eq), eq) = x
      BY <1>1, JoinOfSplit
  <2> QED BY <2>1 DEF eq
<1> HIDE DEF y, eq
<1>3. y = <<y[1], y[2]>> /\ y[1] \in Seq(Token) /\ y[2] \in Seq(Token)
    BY <1>2, TwoOf
<1>4. y = <<y[1]>> \o rest
    BY <1>3
<1>5. Join(rest, eq) = y[2] /\ rest \in Seq(Seq(Token)) /\ rest # <<>>
    BY <1>1, <1>3, JoinOfOne
<1>6. Join(<<y[1]>> \o rest, eq) = y[1] \o eq \o Join(rest, eq)
  <2> HIDE DEF rest
  <2> QED BY <1>1, <1>3, <1>5, JoinOfMore
<1>7. x = y[1] \o eq \o y[2]
  <2> HIDE DEF rest
  <2> QED BY <1>2, <1>4, <1>5, <1>6
<1> QED BY <1>2, <1>3, <1>7 DEF y, eq

\* What propsFromString accepts is pairs of a name and a text, written as it reads them.
LEMMA ReadBack ==
    ASSUME NEW Token, NEW p, IsWritten(p, Token), NEW text \in Seq(Token),
           PropsFromString(text, PropDelim(p), ValueDelim(p)).ok
    PROVE  \E pairs \in Seq(Seq(Token) \X Seq(Token)) :
                IsReadAs(p, text, PropsFromString(text, PropDelim(p), ValueDelim(p)), pairs)
<1> DEFINE d == PropDelim(p)
           parts == Split(text, d)
           q == PropsFromString(text, d, ValueDelim(p))
<1>1. d \in Seq(Token) /\ d # <<>> /\ "=" \in Token
    BY PropDelims
<1>2. parts \in Seq(Seq(Token)) /\ Join(parts, d) = text
  <2> HIDE DEF d
  <2> QED BY <1>1, JoinOfSplit
<1>3. CASE ~p.explode
  <2> DEFINE pairs == [i \in 1..(Len(parts) \div 2) |-> <<parts[2 * i - 1], parts[2 * i]>>]
             turns == [k \in 1..(2 * Len(pairs)) |->
                        IF k % 2 = 1 THEN pairs[(k + 1) \div 2][1] ELSE pairs[k \div 2][2]]
  <2>1. q = InTurn(parts) /\ q.ok
    <3>1. d = ValueDelim(p)
        BY <1>3, PropDelims
    <3> QED BY <3>1 DEF PropsFromString
  <2>2. q = PropsOf(pairs, Len(parts) % 2 = 0)
      BY <2>1 DEF InTurn
  <2>3. pairs \in Seq(Seq(Token) \X Seq(Token)) /\ parts = turns
    <3> HIDE DEF parts
    <3>1. InTurn(parts).ok
        BY <2>1
    <3> QED BY <1>2, <3>1, TurnsRead
  <2>4. PairTexts(p, pairs) = turns
    <3> HIDE DEF pairs
    <3> QED BY <1>3 DEF PairTexts
  <2>5. /\ \A name : name \in DOMAIN q.props <=> \E i \in DOMAIN pairs : pairs[i][1] = name
        /\ \A name \in DOMAIN q.props : q.props[name] = LastText(pairs, name)
    <3> HIDE DEF pairs, parts, q
    <3> QED BY <2>1, <2>2, PropsOfPairs
  <2>6. IsReadAs(p, text, q, pairs)
    <3> HIDE DEF pairs, parts, q, turns
    <3> QED BY <1>2, <2>3, <2>4, <2>5 DEF IsReadAs, d
  <2> HIDE DEF pairs, q
  <2> QED BY <2>3, <2>6 DEF q, d
<1>4. CASE p.explode
  <2> DEFINE eq == <<"=">>
             pairs == [i \in DOMAIN parts |-> Split(parts[i], eq)]
  <2>1. q = Paired(pairs) /\ q.ok
    <3>1. d # ValueDelim(p) /\ ValueDelim(p) = eq
        BY <1>4, PropDelims
    <3> QED BY <3>1 DEF PropsFromString
  <2>2. \E ok : q = PropsOf(pairs, ok) /\ (ok => \A i \in DOMAIN pairs : Len(pairs[i]) = 2)
      BY <2>1, Zenon DEF Paired
  <2>3. PICK ok : q = PropsOf(pairs, ok) /\ (ok => \A i \in DOMAIN pairs : Len(pairs[i]) = 2)
      BY <2>2
  <2>4. ok
    <3>1. PropsOf(pairs, ok).ok = ok
        BY DEF PropsOf
    <3> HIDE DEF pairs, q
    <3> QED BY <2>1, <2>3, <3>1
  <2>5. DOMAIN pairs = DOMAIN parts /\ DOMAIN parts = 1..Len(parts) /\ Len(parts) \in Nat
    <3> HIDE DEF parts
    <3> QED BY <1>2
  <2>6. ASSUME NEW i \in DOMAIN parts
        PROVE  /\ pairs[i] \in Seq(Token) \X Seq(Token)
               /\ parts[i] = (pairs[i][1] \o eq) \o pairs[i][2]
    <3>1. parts[i] \in Seq(Token)
      <4> HIDE DEF parts
      <4> QED BY <1>2
    <3>2. pairs[i] = Split(parts[i], eq)
      <4> HIDE DEF parts
      <4> QED OBVIOUS
    <3>3. Len(pairs[i]) = 2
      <4> HIDE DEF pairs, parts
      <4> QED BY <2>3, <2>4, <2>5
    <3> DEFINE x == parts[i]
    <3>4. x \in Seq(Token) /\ Len(Split(x, eq)) = 2
        BY <3>1, <3>2, <3>3
    <3> HIDE DEF pairs, x
    <3>5. LET y == Split(x, eq)
          IN  y = <<y[1], y[2]>> /\ y[1] \in Seq(Token) /\ y[2] \in Seq(Token) /\ x = (y[1] \o eq) \o y[2]
        BY <1>1, <3>4, AssignmentRead
    <3> HIDE DEF eq
    <3>6. \A a, b : a \in Seq(Token) /\ b \in Seq(Token) => <<a, b>> \in Seq(Token) \X Seq(Token)
        OBVIOUS
    <3> QED BY <3>2, <3>5, <3>6 DEF x
  <2>7. pairs \in Seq(Seq(Token) \X Seq(Token))
    <3> HIDE DEF parts
    <3>1. pairs \in [1..Len(parts) -> Seq(Token) \X Seq(Token)]
        BY <2>5, <2>6
    <3> HIDE DEF pairs
    <3> QED BY <2>5, <3>1
  <2>8. PairTexts(p, pairs) = parts
    <3>1. PairTexts(p, pairs) = [i \in DOMAIN pairs |-> (pairs[i][1] \o eq) \o pairs[i][2]]
      <4> HIDE DEF pairs
      <4> QED BY <1>4 DEF PairTexts
    <3>2. parts = [i \in DOMAIN parts |-> parts[i]]
      <4> HIDE DEF parts
      <4> QED BY <1>2
    <3> HIDE DEF pairs, parts, eq
    <3> QED BY <2>5, <2>6, <3>1, <3>2
  <2>9. /\ \A name : name \in DOMAIN q.props <=> \E i \in DOMAIN pairs : pairs[i][1] = name
        /\ \A name \in DOMAIN q.props : q.props[name] = LastText(pairs, name)
    <3> HIDE DEF pairs, q
    <3> QED BY <2>1, <2>3, PropsOfPairs
  <2>10. IsReadAs(p, text, q, pairs)
    <3> HIDE DEF pairs, parts, q
    <3> QED BY <1>2, <2>8, <2>9 DEF IsReadAs, d
  <2> HIDE DEF pairs, q
  <2> QED BY <2>7, <2>10 DEF q, d
<1> QED BY <1>3, <1>4

\* The texts of pairs with names that are single tokens are those that OpenAPI writes.
LEMMA NamedTextsWritten ==
    ASSUME NEW Token, "=" \in Token, NEW p, NEW pairs \in Seq(Token \X Seq(Token))
    PROVE  PairTexts(p, NamedTexts(pairs)) = WrittenTexts(p, pairs)
<1> DEFINE m == Len(pairs)
           all == NamedTexts(pairs)
<1>1. /\ m \in Nat /\ DOMAIN pairs = 1..m
      /\ \A i \in 1..m : pairs[i][1] \in Token /\ pairs[i][2] \in Seq(Token)
    BY PairTypes
<1>2. DOMAIN all = 1..m /\ Len(all) = m
    BY <1>1 DEF NamedTexts
<1>3. \A i \in 1..m : all[i][1] = <<pairs[i][1]>> /\ all[i][2] = pairs[i][2]
    BY <1>1 DEF NamedTexts
<1>4. ASSUME NEW n \in Token PROVE <<n>> \o <<"=">> = <<n, "=">>
    BY NameAndEquals
<1> HIDE DEF all, m
<1>5. CASE p.explode
  <2>1. PairTexts(p, all) = [i \in 1..m |-> (all[i][1] \o <<"=">>) \o all[i][2]]
      BY <1>2, <1>5 DEF PairTexts
  <2>2. WrittenTexts(p, pairs) = [i \in 1..m |-> <<pairs[i][1], "=">> \o pairs[i][2]]
      BY <1>1, <1>5 DEF WrittenTexts, Assignments
  <2>3. ASSUME NEW i \in 1..m PROVE (all[i][1] \o <<"=">>) \o all[i][2] = <<pairs[i][1], "=">> \o pairs[i][2]
      BY <1>1, <1>3, <1>4
  <2> QED BY <2>1, <2>2, <2>3 DEF all
<1>6. CASE ~p.explode
  <2>1. PairTexts(p, all) = [k \in 1..(2 * m) |-> IF k % 2 = 1 THEN all[(k + 1) \div 2][1] ELSE all[k \div 2][2]]
      BY <1>2, <1>6 DEF PairTexts
  <2>2. WrittenTexts(p, pairs) = [k \in 1..(2 * m) |->
            IF k % 2 = 1 THEN <<pairs[(k + 1) \div 2][1]>> ELSE pairs[k \div 2][2]]
      BY <1>6 DEF WrittenTexts, Alternating, m
  <2>3. ASSUME NEW k \in 1..(2 * m)
        PROVE  (IF k % 2 = 1 THEN all[(k + 1) \div 2][1] ELSE all[k \div 2][2])
                = IF k % 2 = 1 THEN <<pairs[(k + 1) \div 2][1]>> ELSE pairs[k \div 2][2]
    <3>1. IF k % 2 = 1 THEN (k + 1) \div 2 \in 1..m ELSE k \div 2 \in 1..m
        BY <1>1, HalvesOf
    <3> QED BY <1>3, <3>1
  <2> QED BY <2>1, <2>2, <2>3 DEF all
<1> QED BY <1>5, <1>6

\* A property that the pattern of deepObject finds is named in the key.
LEMMA DeepPropertyNamed ==
    ASSUME NEW Token, NEW key \in Seq(Token), NEW name, NEW n, DeepProperty(key, name) = <<n>>
    PROVE  NamesProperty(key, name, n)
<1> DEFINE starts == {i \in 1..(Len(key) - 3) : key[i] = name /\ key[i + 1] = "[" /\ BracketsEnd(key, i) # {}}
           i == Min(starts)
           ends == BracketsEnd(key, i)
           e == Min(ends)
<1>1. Len(key) \in Nat
    OBVIOUS
<1>2. Between(key, starts) = <<n>>
    BY DEF DeepProperty
<1>3. starts # {}
  <2> HIDE DEF starts
  <2> QED BY <1>2 DEF Between
<1>4. i \in starts
  <2>1. starts \in SUBSET Nat
      OBVIOUS
  <2> HIDE DEF starts
  <2> QED BY <1>3, <2>1, MinIsLeast
<1>5. i \in Nat /\ i >= 1 /\ i <= Len(key) - 3 /\ key[i] = name /\ key[i + 1] = "[" /\ ends # {}
  <2>1. \A j \in starts : /\ j \in Nat /\ j >= 1 /\ j <= Len(key) - 3 /\ key[j] = name /\ key[j + 1] = "["
                          /\ BracketsEnd(key, j) # {}
      BY <1>1
  <2> HIDE DEF starts, i
  <2> QED BY <1>4, <2>1
<1>6. SubSeq(key, i + 2, e - 1) = <<n>>
  <2> HIDE DEF starts
  <2> QED BY <1>2, <1>3 DEF Between
<1> HIDE DEF i
<1>7. e \in Nat /\ e >= i + 3 /\ e <= Len(key) /\ key[e] = "]"
  <2>1. \A j \in ends : j \in Nat /\ j >= i + 3 /\ j <= Len(key) /\ key[j] = "]"
      BY <1>1, <1>5 DEF BracketsEnd
  <2>2. ends \in SUBSET Nat
      BY <2>1
  <2> HIDE DEF ends
  <2>3. e \in ends
      BY <1>5, <2>2, MinIsLeast
  <2> QED BY <2>1, <2>3
<1> HIDE DEF e
<1>8. /\ Len(SubSeq(key, i + 2, e - 1)) = (e - 1) - (i + 2) + 1
      /\ SubSeq(key, i + 2, e - 1)[1] = key[i + 2]
  <2>1. i + 2 \in Int /\ e - 1 \in Int /\ i + 2 <= e - 1
      BY <1>5, <1>7
  <2>2. \A j \in (i + 2)..(e - 1) : key[j] \in Token
    <3>1. \A j \in 1..Len(key) : key[j] \in Token
        OBVIOUS
    <3> QED BY <1>1, <1>5, <1>7, <3>1
  <2>3. /\ Len(SubSeq(key, i + 2, e - 1)) = (e - 1) - (i + 2) + 1
        /\ \A j \in 1..((e - 1) - (i + 2) + 1) : SubSeq(key, i + 2, e - 1)[j] = key[(i + 2) + j - 1]
      BY <2>1, <2>2, SubSeqProperties
  <2>4. 1 \in 1..((e - 1) - (i + 2) + 1) /\ (i + 2) + 1 - 1 = i + 2
      BY <1>5, <1>7
  <2> QED BY <2>3, <2>4
<1>9. Len(<<n>>) = 1 /\ <<n>>[1] = n
    OBVIOUS
<1>10. e = i + 3 /\ key[i + 2] = n
  <2> DEFINE sub == SubSeq(key, i + 2, e - 1)
  <2>1. sub = <<n>> /\ Len(sub) = (e - 1) - (i + 2) + 1 /\ sub[1] = key[i + 2]
      BY <1>6, <1>8
  <2> HIDE DEF sub
  <2>2. Len(sub) = 1 /\ sub[1] = n
      BY <1>9, <2>1
  <2> QED BY <1>5, <1>7, <2>1, <2>2
<1>11. i \in 1..Len(key) /\ i + 3 <= Len(key)
    BY <1>1, <1>5
<1> QED BY <1>5, <1>7, <1>10, <1>11 DEF NamesProperty

\* A property that an exploded query has is shown by a parameter of its own.
LEMMA SpreadIsShown ==
    ASSUME NEW Token, NEW p, NEW w, IsWire(p, w, Token), IsSpread(p), NEW n, <<n>> \in DOMAIN QueryProps(p, w).props
    PROVE  IsShownAlone(p, w, n, QueryProps(p, w).props[<<n>>])
<1> DEFINE params == Params(p, w)
           props == QueryProps(p, w).props
           deep == [k \in DOMAIN params |-> DeepProperty(k, p.name)]
<1>1. CASE p.style = "deepObject"
  <2>1. props = DeepProps(params, deep)
    <3> HIDE DEF deep
    <3> QED BY <1>1 DEF QueryProps, deep
  <2> DEFINE key == CHOOSE k \in DOMAIN params : deep[k] = <<n>>
  <2>2. <<n>> \in {deep[k] : k \in DOMAIN params} /\ props[<<n>>] = params[key][1]
    <3> HIDE DEF deep, params, props
    <3> QED BY <2>1 DEF DeepProps, props
  <2>3. key \in DOMAIN params /\ deep[key] = <<n>>
    <3> HIDE DEF deep, params
    <3> QED BY <2>2
  <2> HIDE DEF key
  <2>4. key \in Seq(Token) /\ DeepProperty(key, p.name) = <<n>>
      BY <2>3 DEF IsWire
  <2>5. NamesProperty(key, p.name, n)
      BY <2>4, DeepPropertyNamed
  <2> QED BY <1>1, <2>2, <2>3, <2>5 DEF IsShownAlone
<1>2. CASE p.style # "deepObject"
  <2>1. props = [k \in DOMAIN params |-> params[k][1]]
      BY <1>2 DEF QueryProps, IsSpread
  <2>2. <<n>> \in DOMAIN params /\ props[<<n>>] = params[<<n>>][1]
    <3> HIDE DEF params, props
    <3> QED BY <2>1 DEF props
  <2> QED BY <1>2, <2>2 DEF IsShownAlone
<1> QED BY <1>1, <1>2

\* And the exploded query has each property that it shows by the parameter's own name.
LEMMA ShownIsSpread ==
    ASSUME NEW p, NEW w, IsSpread(p), NEW n, OwnName(p, n) \in DOMAIN Params(p, w)
    PROVE  <<n>> \in DOMAIN QueryProps(p, w).props
<1> DEFINE params == Params(p, w)
           props == QueryProps(p, w).props
           deep == [k \in DOMAIN params |-> DeepProperty(k, p.name)]
           key == OwnName(p, n)
<1>1. CASE p.style = "deepObject"
  <2>1. DeepProperty(key, p.name) = <<n>>
      BY <1>1, DeepPropertyOfName DEF OwnName
  <2>2. deep[key] = <<n>> /\ key \in DOMAIN params
    <3> HIDE DEF key
    <3> QED BY <2>1 DEF key
  <2>3. props = DeepProps(params, deep)
    <3> HIDE DEF deep
    <3> QED BY <1>1 DEF QueryProps, deep
  <2>4. DOMAIN props = {deep[k] : k \in DOMAIN params} \ {<<>>}
    <3> HIDE DEF deep, params, props
    <3> QED BY <2>3 DEF DeepProps
  <2> HIDE DEF deep, params, props, key
  <2> QED BY <2>2, <2>4 DEF props
<1>2. CASE p.style # "deepObject"
  <2>1. props = [k \in DOMAIN params |-> params[k][1]]
      BY <1>2 DEF QueryProps, IsSpread
  <2>2. key = <<n>> /\ key \in DOMAIN params
      BY <1>2 DEF OwnName
  <2> HIDE DEF params, props, key
  <2> QED BY <2>1, <2>2 DEF props
<1> QED BY <1>1, <1>2

\* An object read from one text, with all that the text has.
LEMMA ReadIsWhole ==
    ASSUME NEW Token, NEW p, IsWritten(p, Token), NEW w, IsWire(p, w, Token), w.values # <<>>, ~IsSpread(p),
           IsPrefix(Prefix(p, "object"), w.values[1]),
           NEW q, q = PropsFromString(CutPrefix(w.values[1], Prefix(p, "object")), PropDelim(p), ValueDelim(p)),
           q.ok, NEW s \in Schemas, s.of = "type", s.type = "object", NEW v, IsObjectOf(v, q.props, s)
    PROVE  IsWholeObject(p, w, v, Token)
<1> DEFINE raw == w.values[1]
           prefix == Prefix(p, "object")
           text == CutPrefix(raw, prefix)
<1>1. raw \in Seq(Token) /\ prefix \in Seq(Token)
    BY FirstOf, PrefixType DEF IsWire
<1>2. text \in Seq(Token) /\ raw = prefix \o text
  <2>1. IsPrefix(prefix, raw)
      OBVIOUS
  <2> HIDE DEF raw, prefix
  <2> QED BY <1>1, <2>1, CutPrefixType, ConcatOfPrefix
<1>3. q = PropsFromString(text, PropDelim(p), ValueDelim(p))
    OBVIOUS
<1> HIDE DEF text, prefix, raw
<1>4. PICK pairs \in Seq(Seq(Token) \X Seq(Token)) : IsReadAs(p, text, q, pairs)
  <2>1. PropsFromString(text, PropDelim(p), ValueDelim(p)).ok
      BY <1>3
  <2>2. \E pairs \in Seq(Seq(Token) \X Seq(Token)) :
            IsReadAs(p, text, PropsFromString(text, PropDelim(p), ValueDelim(p)), pairs)
      BY <1>2, <2>1, ReadBack
  <2> QED BY <1>3, <2>2
<1>5. raw = prefix \o Join(PairTexts(p, pairs), PropDelim(p))
    BY <1>2, <1>4 DEF IsReadAs
<1>6. ASSUME NEW n \in DOMAIN v.props
      PROVE  LET named == \E i \in DOMAIN pairs : pairs[i][1] = <<n>>
             IN  IF v.props[n] = Nil THEN named => LastText(pairs, <<n>>) = <<>>
                 ELSE named /\ v.props[n].text = LastText(pairs, <<n>>)
  <2>1. IF v.props[n] = Nil THEN <<n>> \in DOMAIN q.props => q.props[<<n>>] = <<>>
        ELSE <<n>> \in DOMAIN q.props /\ v.props[n].text = q.props[<<n>>]
      BY DEF IsObjectOf
  <2>2. /\ <<n>> \in DOMAIN q.props <=> \E i \in DOMAIN pairs : pairs[i][1] = <<n>>
        /\ <<n>> \in DOMAIN q.props => q.props[<<n>>] = LastText(pairs, <<n>>)
      BY <1>4 DEF IsReadAs
  <2> QED BY <2>1, <2>2
<1>7. v.kind = "object" /\ DOMAIN v.props = DOMAIN s.props
    BY DEF IsObjectOf
<1> QED BY <1>5, <1>6, <1>7 DEF IsWholeObject, prefix, raw

\* decodeObject leaves nothing out: it gives nothing, or an object whose texts are the
\* request's, with all pairs of a text in one.
LEMMA DecodedObjectIsWhole ==
    ASSUME NEW Token, NEW p, IsWritten(p, Token), NEW w, IsWire(p, w, Token),
           NEW s \in Schemas, s.of = "type", s.type = "object"
    PROVE  LET v == DecodeObject(p, w, s).value IN v \in {Nil, TypedNil} \/ IsWholeObject(p, w, v, Token)
<1> DEFINE d == DecodeObject(p, w, s)
           raw == w.values[1]
           prefix == Prefix(p, "object")
<1>1. SUFFICES d.value \in {Nil, TypedNil} \/ IsWholeObject(p, w, d.value, Token)
    OBVIOUS
<1>2. \A found : Decoded(found, BadNil).value = TypedNil /\ Decoded(found, Ok(TypedNil)).value = TypedNil
    BY DEF Decoded, BadNil, Bad, Ok
<1>3. CASE ~Supported(p, "object")
  <2>1. d = Decoded(FALSE, BadNil)
      BY <1>3 DEF DecodeObject
  <2> HIDE DEF d
  <2> QED BY <1>2, <2>1
<1>4. CASE Supported(p, "object") /\ p.in = "query"
  <2> DEFINE q == QueryProps(p, w)
             made == MakeObject(q.props, s)
  <2>1. d = ObjectInQuery(q, s)
      BY <1>4 DEF DecodeObject
  <2>2. CASE ~q.ok \/ DOMAIN q.props = {}
    <3>1. d \in {Decoded(FALSE, BadNil), Decoded(FALSE, Ok(TypedNil))}
      <4> HIDE DEF q, d
      <4> QED BY <2>1, <2>2 DEF ObjectInQuery
    <3> HIDE DEF d
    <3> QED BY <1>2, <3>1
  <2>3. CASE q.ok /\ DOMAIN q.props # {}
    <3>1. d = Decoded(FoundInQuery(q.props, s), made)
      <4> HIDE DEF q, d
      <4> QED BY <2>1, <2>3 DEF ObjectInQuery
    <3>2. d.value = made.value
      <4> HIDE DEF made, d
      <4> QED BY <3>1 DEF Decoded
    <3>3. d.value = TypedNil \/ IsObjectOf(d.value, q.props, s)
      <4>1. made.value = TypedNil \/ IsObjectOf(made.value, q.props, s)
        <5> HIDE DEF q
        <5> QED BY MadeOfTexts
      <4> HIDE DEF made, d, q
      <4> QED BY <3>2, <4>1
    <3> SUFFICES ASSUME IsObjectOf(d.value, q.props, s) PROVE IsWholeObject(p, w, d.value, Token)
        BY <3>3
    <3> DEFINE v == d.value
    <3>4. v.kind = "object" /\ DOMAIN v.props = DOMAIN s.props /\ IsObjectOf(v, q.props, s)
      <4> HIDE DEF q, d
      <4> QED BY DEF IsObjectOf
    <3> HIDE DEF d, made
    <3>5. CASE IsSpread(p)
      <4>1. ASSUME NEW n \in DOMAIN v.props
            PROVE  IF v.props[n] = Nil THEN OwnName(p, n) \in DOMAIN Params(p, w) => IsShownAlone(p, w, n, <<>>)
                   ELSE IsShownAlone(p, w, n, v.props[n].text)
        <5>1. IF v.props[n] = Nil THEN <<n>> \in DOMAIN q.props => q.props[<<n>>] = <<>>
              ELSE <<n>> \in DOMAIN q.props /\ v.props[n].text = q.props[<<n>>]
          <6> HIDE DEF q, v
          <6> QED BY <3>4 DEF IsObjectOf
        <5>2. <<n>> \in DOMAIN q.props => IsShownAlone(p, w, n, q.props[<<n>>])
            BY <3>5, SpreadIsShown
        <5>3. OwnName(p, n) \in DOMAIN Params(p, w) => <<n>> \in DOMAIN q.props
            BY <3>5, ShownIsSpread
        <5> HIDE DEF q, v
        <5> QED BY <5>1, <5>2, <5>3
      <4> HIDE DEF q, v
      <4> QED BY <3>4, <3>5, <4>1 DEF IsWholeObject, v
    <3>6. CASE ~IsSpread(p)
      <4>1. p.style = "form" /\ ~p.explode
          BY <1>4, <3>6 DEF IsWritten, IsMethod, Supported, IsSpread
      <4>2. prefix = <<>> /\ PropDelim(p) = <<",">> /\ ValueDelim(p) = <<",">>
          BY <4>1, PropDelims DEF Prefix
      <4>3. w.values # <<>> /\ q = PropsFromString(raw, <<",">>, <<",">>)
        <5>1. q = IF w.values = <<>> THEN [ok |-> TRUE, props |-> <<>>]
                  ELSE PropsFromString(raw, <<",">>, <<",">>)
            BY <4>1 DEF QueryProps
        <5>2. q = [ok |-> TRUE, props |-> <<>>] => DOMAIN q.props = {}
            OBVIOUS
        <5> HIDE DEF q, raw
        <5> QED BY <2>3, <5>1, <5>2
      <4>4. raw \in Seq(Token)
          BY <4>3, FirstOf DEF IsWire
      <4>5. CutPrefix(raw, <<>>) = raw /\ IsPrefix(<<>>, raw)
        <5>1. <<>> \in Seq(Token) /\ <<>> \o raw = raw
            BY <4>4, ConcatEmptySeq
        <5> HIDE DEF raw
        <5> QED BY <4>4, <5>1, PrefixOfConcat
      <4>6. q = PropsFromString(CutPrefix(w.values[1], Prefix(p, "object")), PropDelim(p), ValueDelim(p))
            /\ IsPrefix(Prefix(p, "object"), w.values[1])
        <5> HIDE DEF q
        <5> QED BY <4>2, <4>3, <4>5
      <4> HIDE DEF q, v
      <4> QED BY <2>3, <3>4, <3>6, <4>3, <4>6, ReadIsWhole DEF v
    <3> QED BY <3>5, <3>6
  <2> QED BY <2>2, <2>3
<1>5. CASE Supported(p, "object") /\ p.in # "query" /\ Absent(p, w)
  <2>1. d = Decoded(FALSE, Ok(TypedNil))
      BY <1>5 DEF DecodeObject
  <2> HIDE DEF d
  <2> QED BY <1>2, <2>1
<1>6. CASE Supported(p, "object") /\ p.in # "query" /\ ~Absent(p, w) /\ ~IsPrefix(prefix, raw)
  <2>1. d = Decoded(TRUE, BadNil)
      BY <1>6 DEF DecodeObject
  <2> HIDE DEF d
  <2> QED BY <1>2, <2>1
<1>7. CASE Supported(p, "object") /\ p.in # "query" /\ ~Absent(p, w) /\ IsPrefix(prefix, raw)
  <2> DEFINE q == PropsFromString(CutPrefix(raw, prefix), PropDelim(p), ValueDelim(p))
             made == ObjectElsewhere(q, s)
  <2>1. d = Decoded(TRUE, made)
      BY <1>7 DEF DecodeObject
  <2>2. d.value = made.value
    <3> HIDE DEF made, d
    <3> QED BY <2>1 DEF Decoded
  <2>3. CASE ~q.ok
    <3>1. made = BadNil
      <4> HIDE DEF q
      <4> QED BY <2>3 DEF ObjectElsewhere
    <3>2. BadNil.value = TypedNil
        BY DEF BadNil, Bad
    <3> HIDE DEF made, d
    <3> QED BY <2>2, <3>1, <3>2
  <2>4. CASE q.ok
    <3>1. made = MakeObject(q.props, s)
      <4> HIDE DEF q
      <4> QED BY <2>4 DEF ObjectElsewhere
    <3>2. made.value = TypedNil \/ IsObjectOf(made.value, q.props, s)
      <4> HIDE DEF q, made
      <4> QED BY <3>1, MadeOfTexts
    <3>3. w.values # <<>> /\ ~IsSpread(p)
        BY <1>7 DEF Absent, IsSpread
    <3> DEFINE v == d.value
    <3>4. v = TypedNil \/ IsObjectOf(v, q.props, s)
      <4> HIDE DEF q, made, d
      <4> QED BY <2>2, <3>2
    <3> HIDE DEF v, made, d
    <3>5. ASSUME IsObjectOf(v, q.props, s) PROVE IsWholeObject(p, w, v, Token)
      <4>1. IsPrefix(Prefix(p, "object"), w.values[1])
            /\ q = PropsFromString(CutPrefix(w.values[1], Prefix(p, "object")), PropDelim(p), ValueDelim(p))
          BY <1>7
      <4> HIDE DEF q
      <4> QED BY <2>4, <3>3, <3>5, <4>1, ReadIsWhole
    <3> QED BY <3>4, <3>5 DEF v
  <2> QED BY <2>3, <2>4
<1> QED BY <1>3, <1>4, <1>5, <1>6, <1>7

-----------------------------------------------------------------------------
(* The whole of a parameter *)

\* What decodeValue gives for a schema that is not composed is nothing, or whole.
LEMMA DecodedPlainIsWhole ==
    ASSUME NEW Token, NEW p, IsWritten(p, Token), NEW w, IsWire(p, w, Token), NEW s \in Schemas, ~IsComposed(s)
    PROVE  LET v == DecodePlain(p, w, s).value IN IsNothing(v) \/ IsWholeValue(p, w, v, Token)
<1> DEFINE d == DecodePlain(p, w, s)
<1>0. SUFFICES IsNothing(d.value) \/ IsWholeValue(p, w, d.value, Token)
    OBVIOUS
<1>1. CASE s.of = "not"
  <2>1. d = Decoded(FALSE, Bad)
      BY <1>1 DEF DecodePlain
  <2>2. Decoded(FALSE, Bad).value = Nil
      BY DEF Decoded, Bad
  <2> HIDE DEF d
  <2> QED BY <2>1, <2>2 DEF IsNothing
<1>2. CASE s.of = "type" /\ s.type = "array"
  <2>1. d = DecodeArray(p, w, s)
      BY <1>2 DEF DecodePlain
  <2>2. LET v == DecodeArray(p, w, s).value IN v \in {Nil, TypedNil} \/ IsWholeArray(p, w, v)
      BY <1>2, DecodedArrayIsWhole
  <2> HIDE DEF d
  <2> QED BY <2>1, <2>2 DEF IsNothing, IsWholeValue
<1>3. CASE s.of = "type" /\ s.type = "object"
  <2>1. d = DecodeObject(p, w, s)
      BY <1>3 DEF DecodePlain
  <2>2. LET v == DecodeObject(p, w, s).value IN v \in {Nil, TypedNil} \/ IsWholeObject(p, w, v, Token)
      BY <1>3, DecodedObjectIsWhole
  <2> HIDE DEF d
  <2> QED BY <2>1, <2>2 DEF IsNothing, IsWholeValue
<1>4. CASE s.of = "type" /\ s.type = "" /\ ~(s.pattern /\ p.in = "query")
  <2>1. d = Decoded(w.values # <<>>, Ok(Nil))
      BY <1>4 DEF DecodePlain
  <2>2. Decoded(w.values # <<>>, Ok(Nil)).value = Nil
      BY DEF Decoded, Ok
  <2> HIDE DEF d
  <2> QED BY <2>1, <2>2 DEF IsNothing
<1>5. CASE /\ s.of # "not" /\ ~(s.of = "type" /\ s.type \in {"array", "object"})
           /\ ~(s.of = "type" /\ s.type = "" /\ ~(s.pattern /\ p.in = "query"))
  <2>1. d = DecodePrimitive(p, w, s)
      BY <1>5 DEF DecodePlain
  <2>2. LET v == DecodePrimitive(p, w, s).value IN v = Nil \/ IsWholeText(p, w, v)
      BY <1>5, DecodedPrimitiveIsWhole
  <2> HIDE DEF d
  <2> QED BY <2>1, <2>2 DEF IsNothing, IsWholeValue
<1> QED BY <1>1, <1>2, <1>3, <1>4, <1>5

\* The same of any schema, composed or not: what decodeValue gives.
LEMMA DecodedValueIsWhole ==
    ASSUME NEW Token, NEW p, IsWritten(p, Token), NEW w, IsWire(p, w, Token)
    PROVE  LET v == DecodeValue(p, w).value IN IsNothing(v) \/ IsWholeValue(p, w, v, Token)
<1> DEFINE P(v) == IsNothing(v) \/ IsWholeValue(p, w, v, Token)
           S == {s \in ComposedSchemas : P(DecodedAt(p, w)[s].value)}
<1>1. ASSUME NEW s \in Schemas \ ComposedSchemas PROVE P(DecodedAt(p, w)[s].value)
  <2>1. ~IsComposed(s) /\ s \in Schemas
      BY DEF ComposedSchemas
  <2>2. DecodedAt(p, w)[s] = DecodePlain(p, w, s)
      BY <2>1, DecodedAtEquation
  <2>3. P(DecodePlain(p, w, s).value)
      BY <2>1, DecodedPlainIsWhole
  <2> HIDE DEF P
  <2> QED BY <2>2, <2>3
<1>2. ASSUME NEW s \in ComposedSchemas, Parts(s) \subseteq S PROVE s \in S
  <2> DEFINE f == DecodedAt(p, w)
             r == [i \in DOMAIN s.subs |-> f[s.subs[i]]]
  <2>1. /\ Len(r) \in DOMAIN r /\ DOMAIN r \in SUBSET Nat
        /\ \A i \in DOMAIN r : s.subs[i] \in Schemas /\ r[i] = f[s.subs[i]]
    <3> HIDE DEF f
    <3> QED BY PartResults
  <2>2. s \in Schemas /\ IsComposed(s)
      BY DEF ComposedSchemas
  <2>3. f[s] = DecodeComposed(p, s, r)
      BY <2>2, DecodedAtEquation
  <2>4. ASSUME NEW i \in DOMAIN r PROVE P(r[i].value)
    <3>1. i \in DOMAIN s.subs
        OBVIOUS
    <3> HIDE DEF P
    <3> QED BY <1>1, <1>2, <2>1, <3>1, SubSchemas
  <2>5. DecodeComposed(p, s, r).value = Nil \/ \E i \in DOMAIN r : DecodeComposed(p, s, r).value = r[i].value
    <3> HIDE DEF r
    <3> QED BY <2>1, <2>2, DecodeComposedValue
  <2>6. P(Nil)
      BY DEF IsNothing
  <2> HIDE DEF r, P, f
  <2> QED BY <2>3, <2>4, <2>5, <2>6 DEF f
<1>3. ComposedSchemas \subseteq S
  <2> HIDE DEF S
  <2> QED BY <1>2, CompositionInduction
<1>4. P(DecodeValue(p, w).value)
  <2>1. p.schema \in Schemas
      BY DEF IsWritten
  <2>2. DecodeValue(p, w) = DecodedAt(p, w)[p.schema]
      BY DecodeValueEquation
  <2>3. P(DecodedAt(p, w)[p.schema].value)
    <3> HIDE DEF P
    <3> QED BY <1>1, <1>3, <2>1
  <2> HIDE DEF P
  <2> QED BY <2>2, <2>3
<1> QED BY <1>4

\* What decodeStyledParameter gives is nothing or the whole of what the request carries,
\* for every schema, composed of any others to any depth, and in every place and style:
\* nothing escapes the comparison with the schema, but for texts after the first of a
\* name, pairs whose name comes again and properties that the schema does not declare.
THEOREM DecodedIsWhole ==
    ASSUME NEW Token, NEW p, IsWritten(p, Token), NEW w, IsWire(p, w, Token)
    PROVE  LET v == DecodeStyledParameter(p, w).value IN IsNothing(v) \/ IsWholeValue(p, w, v, Token)
<1> DEFINE P(v) == IsNothing(v) \/ IsWholeValue(p, w, v, Token)
<1>1. P(DecodeValue(p, w).value)
    BY DecodedValueIsWhole
<1>2. P(NotShown.value)
  <2>1. NotShown.value = Nil
      BY DEF NotShown, Decoded, Ok
  <2> QED BY <2>1 DEF IsNothing
<1>3. DecodeStyledParameter(p, w) \in {NotShown, DecodeValue(p, w)}
    BY DEF DecodeStyledParameter
<1>4. P(DecodeStyledParameter(p, w).value)
  <2> HIDE DEF P
  <2> QED BY <1>1, <1>2, <1>3
<1> QED BY <1>4

-----------------------------------------------------------------------------
(* Requests whose parameters are decoded *)

\* decodeStyledParameter undoes the serialization of every value that can be told apart
\* in it: a request that carries the value as OpenAPI writes it is decoded to it.
THEOREM WrittenIsDecoded ==
    ASSUME NEW Token, NEW p, IsWritten(p, Token), NEW v, IsPlainValue(p, v, Token), Supported(p, Shape(v)),
           NEW w \in Serializations(p, v)
    PROVE  DecodeStyledParameter(p, w) = Decoded(TRUE, Ok(v)) /\ ~IsNothing(v)
<1> DEFINE s == p.schema
           OneText(text) == /\ IsPrimitive(s) /\ text # <<>> /\ Reads(s.type, text)
                         /\ v = Primitive(s.type, text)
           List(texts) ==
              /\ s.of = "type" /\ s.type = "array" /\ IsPrimitive(s.items) /\ texts # <<>>
              /\ \A i \in DOMAIN texts : texts[i] # <<>> /\ Reads(s.items.type, texts[i])
              /\ (p.in = "query" /\ p.explode) \/ Without(texts, ItemDelim(p)[1])
              /\ v = Array([i \in DOMAIN texts |-> Primitive(s.items.type, texts[i])])
<1>1. ASSUME NEW text \in Seq(Token), OneText(text)
      PROVE  DecodeStyledParameter(p, w) = Decoded(TRUE, Ok(v)) /\ ~IsNothing(v)
  <2>1. v.kind = "primitive"
      BY <1>1, PrimitiveFields
  <2>2. Supported(p, "primitive")
      BY <2>1 DEF Shape
  <2>3. \A x \in Serializations(p, v) : DecodeStyledParameter(p, x) = Decoded(TRUE, Ok(v))
      BY <1>1, <2>2, WrittenPrimitiveIsDecoded
  <2>4. ~IsNothing(v)
      BY <2>1 DEF IsNothing, Nil, TypedNil
  <2> QED BY <2>3, <2>4
<1>2. ASSUME NEW texts \in Seq(Seq(Token)), List(texts)
      PROVE  DecodeStyledParameter(p, w) = Decoded(TRUE, Ok(v)) /\ ~IsNothing(v)
  <2>1. v.kind = "array"
      BY <1>2 DEF Array
  <2>2. Supported(p, "array")
      BY <2>1 DEF Shape
  <2>3. \A x \in Serializations(p, v) : DecodeStyledParameter(p, x) = Decoded(TRUE, Ok(v))
      BY <1>2, <2>2, WrittenArrayIsDecoded
  <2>4. ~IsNothing(v)
      BY <2>1 DEF IsNothing, Nil, TypedNil
  <2> QED BY <2>3, <2>4
<1>3. ASSUME NEW texts, ArePropertyTexts(p, texts, Token), v = PropertiesOf(p, texts)
      PROVE  DecodeStyledParameter(p, w) = Decoded(TRUE, Ok(v)) /\ ~IsNothing(v)
  <2>1. v.kind = "object"
      BY <1>3 DEF PropertiesOf, Object
  <2>2. Supported(p, "object")
      BY <2>1 DEF Shape
  <2>3. \A x \in Serializations(p, v) : DecodeStyledParameter(p, x) = Decoded(TRUE, Ok(v))
      BY <1>3, <2>2, WrittenObjectIsDecoded
  <2>4. ~IsNothing(v)
      BY <2>1 DEF IsNothing, Nil, TypedNil
  <2> QED BY <2>3, <2>4
<1>4. \/ \E text \in Seq(Token) : OneText(text)
      \/ \E texts \in Seq(Seq(Token)) : List(texts)
      \/ \E texts : ArePropertyTexts(p, texts, Token) /\ v = PropertiesOf(p, texts)
    BY DEF IsPlainValue
<1> HIDE DEF OneText, List
<1> QED BY <1>1, <1>2, <1>3, <1>4

\* That a declared parameter, whose schema and style are those of p, carries the texts w.
\* fits: whether the value that is decoded fits the schema.
CarriesTexts(x, p, w, fits) == ShownFor(x) = ShownAs(DecodeStyledParameter(p, w), fits)

\* A parameter is not there, or nil where that is allowed, or is wholly what was compared.
AcceptedAsWhole(x, p, w, fits, Token) ==
    LET d == DecodeStyledParameter(p, w)
    IN  IF IsNothing(d.value) THEN IF d.found THEN x.allowEmpty \/ x.default = "fits" ELSE ~x.required
        ELSE fits /\ IsWholeValue(p, w, d.value, Token)

\* Of a request that passes, each parameter that carries texts is missing or nil where that
\* is allowed, or fits its schema with the whole of what it carries: what was sent and
\* what was compared do not differ, in the sense of DecodedIsWhole.
THEOREM AcceptedIsWhole ==
    ASSUME NEW Token, NEW p, IsWritten(p, Token), NEW w, IsWire(p, w, Token), NEW fits
    PROVE  Spec => [](result = "valid" =>
                \A x \in Declared : x.kind # "none" /\ CarriesTexts(x, p, w, fits) => AcceptedAsWhole(x, p, w, fits, Token))
<1> DEFINE d == DecodeStyledParameter(p, w)
<1>1. ASSUME IInv, result = "valid", NEW x \in Declared, x.kind # "none", CarriesTexts(x, p, w, fits)
      PROVE  AcceptedAsWhole(x, p, w, fits, Token)
  <2>1. Fine(x) /\ Acceptable(x)
      BY <1>1, DeclaredMeaning, FineIsAcceptable DEF IInv, Justified
  <2>2. ShownFor(x).found = d.found /\ ShownFor(x).value =
            IF d.err = "panic" THEN "panics"
            ELSE IF d.err = "error" THEN "undecodable"
            ELSE IF d.value = Nil THEN "nil"
            ELSE IF d.value = TypedNil THEN "typed_nil"
            ELSE IF fits THEN "fits" ELSE "misfits"
      BY <1>1 DEF CarriesTexts, ShownAs
  <2>3. IsNothing(d.value) \/ IsWholeValue(p, w, d.value, Token)
      BY DecodedIsWhole
  <2>4. ShownFor(x).value \notin {"panics", "undecodable", "misfits"}
      BY <1>1, <2>1 DEF Fine, ParameterFails, ParameterPanics
  <2> HIDE DEF d
  <2>5. CASE IsNothing(d.value)
    <3>1. ShownFor(x).value \in {"nil", "typed_nil"}
        BY <2>2, <2>4, <2>5 DEF IsNothing
    <3> QED BY <1>1, <2>1, <2>2, <2>5, <3>1 DEF Acceptable, IsNil, AcceptedAsWhole, d
  <2>6. CASE ~IsNothing(d.value)
    <3>1. fits
        BY <2>2, <2>4, <2>6 DEF IsNothing
    <3> QED BY <2>3, <2>6, <3>1 DEF AcceptedAsWhole, d
  <2> QED BY <2>5, <2>6
<1>2. IInv => (result = "valid" =>
        \A x \in Declared : x.kind # "none" /\ CarriesTexts(x, p, w, fits) => AcceptedAsWhole(x, p, w, fits, Token))
    BY <1>1
<1> QED BY Inductive, <1>2, PTL

\* That a parameter carries a value of its schema as OpenAPI writes it.
IsSerialized(x, Token) ==
    \E p, v, w : /\ IsWritten(p, Token) /\ IsPlainValue(p, v, Token) /\ Supported(p, Shape(v))
                 /\ w \in Serializations(p, v) /\ CarriesTexts(x, p, w, TRUE)

\* A value that was decoded is shown as one that fits.
LEMMA SerializedIsShown ==
    ASSUME NEW Token, NEW x, IsSerialized(x, Token)
    PROVE  ShownFor(x).found /\ ShownFor(x).value = "fits"
<1>1. PICK p, v, w : /\ IsWritten(p, Token) /\ IsPlainValue(p, v, Token) /\ Supported(p, Shape(v))
                     /\ w \in Serializations(p, v) /\ CarriesTexts(x, p, w, TRUE)
    BY DEF IsSerialized
<1>2. DecodeStyledParameter(p, w) = Decoded(TRUE, Ok(v)) /\ ~IsNothing(v)
    BY <1>1, WrittenIsDecoded
<1>3. ShownFor(x) = ShownAs(Decoded(TRUE, Ok(v)), TRUE)
    BY <1>1, <1>2 DEF CarriesTexts
<1> QED BY <1>2, <1>3 DEF ShownAs, Decoded, Ok, IsNothing

\* It satisfies what is declared of the parameter, and no default is set for it.
LEMMA SerializedIsAcceptable ==
    ASSUME NEW Token, NEW x, IsSerialized(x, Token)
    PROVE  Acceptable(x) /\ ~IsNil(x)
BY SerializedIsShown DEF Acceptable, IsNil

\* A request whose parameters carry values of their schemas as OpenAPI writes them, or
\* are left out where that is allowed, passes if its security and body do: the decoders
\* refuse nothing that the document allows.
THEOREM WrittenIsAccepted ==
    ASSUME NEW Token
    PROVE  Spec => [](/\ pc = "done" /\ Authorized /\ ~BodyRefused
                      /\ \A x \in Declared :
                            IsSerialized(x, Token) \/ (Acceptable(x) /\ ~(IsNil(x) /\ x.default = "misfits"))
                      => result = "valid")
<1>1. ASSUME IInv, pc = "done", Authorized, ~BodyRefused,
             \A x \in Declared :
                IsSerialized(x, Token) \/ (Acceptable(x) /\ ~(IsNil(x) /\ x.default = "misfits"))
      PROVE  result = "valid"
  <2>1. \A x \in Declared : Acceptable(x) /\ ~(IsNil(x) /\ x.default = "misfits")
      BY <1>1, SerializedIsAcceptable
  <2> QED BY <1>1, <2>1, DeclaredMeaning, FineIsAcceptable, PanicIsRefused DEF IInv, Justified, TypeOK, Fine
<1>2. IInv => (/\ pc = "done" /\ Authorized /\ ~BodyRefused
               /\ \A x \in Declared :
                    IsSerialized(x, Token) \/ (Acceptable(x) /\ ~(IsNil(x) /\ x.default = "misfits"))
               => result = "valid")
    BY <1>1
<1> QED BY Inductive, <1>2, PTL

-----------------------------------------------------------------------------
(* Documents *)

\* Nothing is asked for but what comes of what is inside of a document.
LEMMA ConversionIsLocal ==
    ASSUME NEW number, NEW f, NEW g, NEW doc, \A x \in Inside(doc) : f[x] = g[x]
    PROVE  ConvertedFrom(number, f, doc) = ConvertedFrom(number, g, doc)
<1>1. CASE doc.kind = "array"
  <2>1. Inside(doc) = {doc.items[i] : i \in DOMAIN doc.items}
      BY <1>1 DEF Inside
  <2>2. [i \in DOMAIN doc.items |-> f[doc.items[i]]] = [i \in DOMAIN doc.items |-> g[doc.items[i]]]
      BY <2>1
  <2> QED BY <1>1, <2>2 DEF ConvertedFrom
<1>2. CASE doc.kind = "object"
  <2>1. Inside(doc) = {doc.props[n] : n \in DOMAIN doc.props}
      BY <1>2 DEF Inside
  <2>2. [n \in DOMAIN doc.props |-> f[doc.props[n]]] = [n \in DOMAIN doc.props |-> g[doc.props[n]]]
      BY <2>1
  <2> QED BY <1>2, <2>2 DEF ConvertedFrom
<1>3. CASE doc.kind \notin {"array", "object"}
    BY <1>3 DEF ConvertedFrom
<1> QED BY <1>1, <1>2, <1>3

\* The conversion of documents satisfies the equation that it is defined by.
LEMMA ConvertedEquation ==
    ASSUME NEW number, NEW doc \in Docs[MaxDepth]
    PROVE  Converted(number)[doc] = ConvertedFrom(number, Converted(number), doc)
<1> DEFINE Solution(f, n) == f = [x \in Docs[n] |-> ConvertedFrom(number, f, x)]
           D == {n \in Nat : n <= MaxDepth => \E f : Solution(f, n)}
<1>1. MaxDepth \in Nat
    BY DocsAssumption
<1>2. 0 \in D
  <2> DEFINE g == [x \in Docs[0] |-> ConvertedFrom(number, <<>>, x)]
  <2>1. \A x \in Docs[0] : Inside(x) = {}
      BY <1>1, DocsAssumption
  <2>2. \A x \in Docs[0] : ConvertedFrom(number, <<>>, x) = ConvertedFrom(number, g, x)
    <3> HIDE DEF g
    <3> QED BY <2>1, ConversionIsLocal
  <2>3. g = [x \in Docs[0] |-> ConvertedFrom(number, g, x)]
      BY <2>2
  <2> QED BY <2>3
<1>3. ASSUME NEW n \in Nat, n \in D PROVE n + 1 \in D
  <2> SUFFICES ASSUME n + 1 <= MaxDepth PROVE \E f : Solution(f, n + 1)
      OBVIOUS
  <2>1. n <= MaxDepth /\ n \in 0..MaxDepth /\ n + 1 \in 0..MaxDepth /\ n < MaxDepth /\ (n + 1) - 1 = n /\ n + 1 # 0
      BY <1>1
  <2>2. PICK f : Solution(f, n)
      BY <1>3, <2>1
  <2> DEFINE g == [x \in Docs[n + 1] |-> ConvertedFrom(number, f, x)]
  <2>3. \A x \in Docs[n + 1] : Inside(x) \subseteq Docs[n]
      BY <2>1, DocsAssumption
  <2>4. \A x \in Docs[n] : x \in Docs[n + 1]
      BY <2>1, DocsAssumption
  <2>5. \A x \in Docs[n] : g[x] = f[x]
      BY <2>2, <2>4
  <2>6. \A x \in Docs[n + 1] : ConvertedFrom(number, f, x) = ConvertedFrom(number, g, x)
    <3> HIDE DEF g, Solution
    <3> QED BY <2>3, <2>5, ConversionIsLocal
  <2>7. g = [x \in Docs[n + 1] |-> ConvertedFrom(number, g, x)]
      BY <2>6
  <2> QED BY <2>7
<1>4. PICK g : Solution(g, MaxDepth)
  <2> HIDE DEF D
  <2>1. MaxDepth \in D
      BY <1>1, <1>2, <1>3, Induction
  <2> QED BY <1>1, <2>1 DEF D
<1> DEFINE f == CHOOSE f : Solution(f, MaxDepth)
<1>5. Converted(number) = f
    BY DEF Converted
<1>6. Solution(f, MaxDepth)
    BY <1>4
<1> HIDE DEF f
<1>7. f[doc] = ConvertedFrom(number, f, doc)
    BY <1>6
<1> QED BY <1>5, <1>7

\* Every document is one of the deepest.
LEMMA DocsGrow ==
    ASSUME NEW n \in 0..MaxDepth PROVE Docs[n] \subseteq Docs[MaxDepth]
<1> DEFINE D == {m \in Nat : m <= MaxDepth => Docs[MaxDepth - m] \subseteq Docs[MaxDepth]}
<1>1. MaxDepth \in Nat
    BY DocsAssumption
<1>2. 0 \in D
    BY <1>1
<1>3. ASSUME NEW m \in Nat, m \in D PROVE m + 1 \in D
  <2> SUFFICES ASSUME m + 1 <= MaxDepth PROVE Docs[MaxDepth - (m + 1)] \subseteq Docs[MaxDepth]
      OBVIOUS
  <2> DEFINE k == MaxDepth - (m + 1)
  <2>1. k \in 0..MaxDepth /\ k < MaxDepth /\ k + 1 = MaxDepth - m
      BY <1>1
  <2>2. \A doc \in Docs[k] : doc \in Docs[k + 1]
    <3> HIDE DEF k
    <3> QED BY <2>1, DocsAssumption
  <2>3. Docs[MaxDepth - m] \subseteq Docs[MaxDepth]
      BY <1>1, <1>3
  <2> QED BY <2>1, <2>2, <2>3
<1>4. MaxDepth - n \in D
  <2> HIDE DEF D
  <2> QED BY <1>1, <1>2, <1>3, Induction
<1> QED BY <1>1, <1>4

\* convertToMap keeps a document in which numbers are written plainly, however deep it is:
\* what is compared with the schema is what the document says, as the YAML library reads it.
THEOREM PlainNumbersAreKept ==
    ASSUME NEW doc \in Docs[MaxDepth], HasPlainNumbers(doc)
    PROVE  ConvertToMap(doc) = YamlValue(doc)
<1> DEFINE json == [t \in DOMAIN Canonical |-> ConvertNumber(t)]
           yaml == [t \in DOMAIN Canonical |-> YamlNumber(t)]
           plain == [t \in DOMAIN Canonical |-> PlainNumeral(t)]
           Same(x) == Converted(plain)[x] = x => Converted(json)[x] = Converted(yaml)[x]
           D == {n \in Nat : n <= MaxDepth => \A x \in Docs[n] : Same(x)}
<1>1. MaxDepth \in Nat
    BY DocsAssumption
<1>2. ASSUME NEW n \in 0..MaxDepth, NEW x \in Docs[n], \A y \in Inside(x) : Same(y) PROVE Same(x)
  <2> SUFFICES ASSUME Converted(plain)[x] = x PROVE Converted(json)[x] = Converted(yaml)[x]
      OBVIOUS
  <2>1. x \in Docs[MaxDepth]
      BY DocsGrow
  <2>2. x = ConvertedFrom(plain, Converted(plain), x)
      BY <2>1, ConvertedEquation
  <2>3. /\ Converted(json)[x] = ConvertedFrom(json, Converted(json), x)
        /\ Converted(yaml)[x] = ConvertedFrom(yaml, Converted(yaml), x)
      BY <2>1, ConvertedEquation
  <2>4. CASE x.kind = "numeral"
    <3>1. x.text \in DOMAIN Canonical
        BY <2>4, DocsAssumption
    <3>2. x = PlainNumeral(x.text)
        BY <2>2, <2>4, <3>1 DEF ConvertedFrom
    <3>3. IsWhole(x.text) => Canonical[x.text] = x.text
        BY <3>2 DEF PlainNumeral, Numeral
    <3>4. ConvertNumber(x.text) = YamlNumber(x.text)
        BY <3>3 DEF ConvertNumber, YamlNumber, GetInt64
    <3> QED BY <2>3, <2>4, <3>1, <3>4 DEF ConvertedFrom
  <2>5. CASE x.kind = "array"
    <3> DEFINE c(f) == [i \in DOMAIN x.items |-> f[x.items[i]]]
    <3>1. x = Array(c(Converted(plain)))
        BY <2>2, <2>5 DEF ConvertedFrom
    <3>2. x.items = c(Converted(plain))
      <4> HIDE DEF c
      <4> QED BY <3>1 DEF Array
    <3>3. \A i \in DOMAIN x.items : Converted(plain)[x.items[i]] = x.items[i] /\ x.items[i] \in Inside(x)
        BY <2>5, <3>2 DEF Inside
    <3> HIDE DEF json, yaml, plain
    <3>4. c(Converted(json)) = c(Converted(yaml))
        BY <1>2, <3>3
    <3> QED BY <2>3, <2>5, <3>4 DEF ConvertedFrom
  <2>6. CASE x.kind = "object"
    <3> DEFINE c(f) == [i \in DOMAIN x.props |-> f[x.props[i]]]
    <3>1. x = Object(c(Converted(plain)))
        BY <2>2, <2>6 DEF ConvertedFrom
    <3>2. x.props = c(Converted(plain))
      <4> HIDE DEF c
      <4> QED BY <3>1 DEF Object
    <3>3. \A i \in DOMAIN x.props : Converted(plain)[x.props[i]] = x.props[i] /\ x.props[i] \in Inside(x)
        BY <2>6, <3>2 DEF Inside
    <3> HIDE DEF json, yaml, plain
    <3>4. c(Converted(json)) = c(Converted(yaml))
        BY <1>2, <3>3
    <3> QED BY <2>3, <2>6, <3>4 DEF ConvertedFrom
  <2>7. CASE x.kind \notin {"numeral", "array", "object"}
      BY <2>3, <2>7 DEF ConvertedFrom
  <2> QED BY <2>4, <2>5, <2>6, <2>7
<1> HIDE DEF Same
<1>3. 0 \in D
  <2>1. \A x \in Docs[0] : Inside(x) = {}
      BY <1>1, DocsAssumption
  <2>2. 0 \in 0..MaxDepth
      BY <1>1
  <2> QED BY <1>2, <2>1, <2>2
<1>4. ASSUME NEW n \in Nat, n \in D PROVE n + 1 \in D
  <2> SUFFICES ASSUME n + 1 <= MaxDepth, NEW x \in Docs[n + 1] PROVE Same(x)
      OBVIOUS
  <2>1. n <= MaxDepth /\ n + 1 \in 0..MaxDepth /\ (n + 1) - 1 = n /\ n + 1 # 0
      BY <1>1
  <2>2. Inside(x) \subseteq Docs[n]
      BY <2>1, DocsAssumption
  <2> QED BY <1>2, <1>4, <2>1, <2>2
<1>5. MaxDepth \in D
  <2> HIDE DEF D
  <2> QED BY <1>1, <1>3, <1>4, Induction
<1>6. Same(doc)
    BY <1>1, <1>5
<1> QED BY <1>6 DEF Same, HasPlainNumbers, ConvertToMap, YamlValue

-----------------------------------------------------------------------------
(* Archives *)

\* The buffer before the first read, and what the reads have made of it and of the text.
NoRead == [buffer |-> [i \in 1..BufferSize |-> "zero"], content |-> <<>>]
Reading(chunks) ==
    CHOOSE f : f = [k \in 0..Len(chunks) |-> IF k = 0 THEN NoRead ELSE AppendBuffer(f[k - 1], chunks[k])]

LEMMA ReadingEquation ==
    ASSUME NEW chunks, Len(chunks) \in Nat, NEW k \in 0..Len(chunks)
    PROVE  Reading(chunks)[k] = IF k = 0 THEN NoRead ELSE AppendBuffer(Reading(chunks)[k - 1], chunks[k])
<1> DEFINE n == Len(chunks)
           Body(f, j) == IF j = 0 THEN NoRead ELSE AppendBuffer(f[j - 1], chunks[j])
           Solution(f, m) == f = [j \in 0..m |-> Body(f, j)]
           D == {m \in Nat : \E f : Solution(f, m)}
<1>1. 0 \in D
  <2> DEFINE g == [j \in 0..0 |-> NoRead]
  <2>1. \A j \in 0..0 : j = 0
      OBVIOUS
  <2>2. g = [j \in 0..0 |-> Body(g, j)]
      BY <2>1
  <2> QED BY <2>2
<1>2. ASSUME NEW m \in Nat, m \in D PROVE m + 1 \in D
  <2>1. PICK f : Solution(f, m)
      BY <1>2
  <2> DEFINE g == [j \in 0..(m + 1) |-> Body(f, j)]
  <2>2. \A j \in 0..m : g[j] = f[j]
      BY <2>1
  <2>3. \A j \in 0..(m + 1) : j # 0 => j - 1 \in 0..m
      OBVIOUS
  <2>4. \A j \in 0..(m + 1) : Body(f, j) = Body(g, j)
    <3> HIDE DEF g
    <3> QED BY <2>2, <2>3
  <2>5. g = [j \in 0..(m + 1) |-> Body(g, j)]
      BY <2>4
  <2> HIDE DEF g
  <2> QED BY <2>5
<1>3. PICK g : Solution(g, n)
  <2> HIDE DEF D
  <2>1. n \in D
      BY <1>1, <1>2, Induction
  <2> QED BY <2>1 DEF D
<1> DEFINE f == CHOOSE f : Solution(f, n)
<1>4. Reading(chunks) = f
    BY DEF Reading
<1>5. Solution(f, n)
    BY <1>3
<1> HIDE DEF f
<1>6. f[k] = Body(f, k)
    BY <1>5
<1> QED BY <1>4, <1>6

\* A text with another after it: what is before the end of the first, and what is after it.
LEMMA BlockOfConcat ==
    ASSUME NEW Token, NEW c \in Seq(Token), NEW b \in Seq(Token)
    PROVE  /\ \A x, y \in Nat : 1 <= x /\ x <= y + 1 /\ y <= Len(c) => SubSeq(c \o b, x, y) = SubSeq(c, x, y)
           /\ SubSeq(c \o b, Len(c) + 1, Len(c) + Len(b)) = b
<1>1. c \o b \in Seq(Token) /\ Len(c \o b) = Len(c) + Len(b) /\ Len(c) \in Nat /\ Len(b) \in Nat
    BY ConcatProperties
<1>2. ASSUME NEW x \in Nat, NEW y \in Nat, 1 <= x, x <= y + 1, y <= Len(c)
      PROVE  SubSeq(c \o b, x, y) = SubSeq(c, x, y)
    BY <1>1, <1>2, SubSeqOfConcat1
<1>3. CutPrefix(c \o b, c) = b
    BY PrefixOfConcat
<1> QED BY <1>1, <1>2, <1>3 DEF CutPrefix

\* The text that an archive is compared as has a block for each read, which begins with
\* what was read: no byte of the files is left out, or replaced by what the buffer held.
THEOREM ArchiveIsInBlocks ==
    ASSUME NEW Token, "zero" \in Token, NEW chunks \in Seq(Seq(Token)),
           \A i \in DOMAIN chunks : Len(chunks[i]) <= BufferSize
    PROVE  BlocksHold(ZipContent(chunks), chunks)
<1> DEFINE n == Len(chunks)
           R == Reading(chunks)
           Block(text, i) == SubSeq(text, BufferSize * (i - 1) + 1, BufferSize * i)
           Good(k) == /\ R[k].buffer \in Seq(Token) /\ Len(R[k].buffer) = BufferSize
                      /\ R[k].content \in Seq(Token) /\ Len(R[k].content) = BufferSize * k
                      /\ \A i \in 1..k : IsPrefix(chunks[i], Block(R[k].content, i))
           D == {k \in Nat : k <= n => Good(k)}
<1>1. n \in Nat /\ DOMAIN chunks = 1..n /\ BufferSize \in Nat
    BY BufferAssumption
<1>2. R[0] = NoRead
    BY <1>1, ReadingEquation
<1> HIDE DEF R
<1>3. 0 \in D
  <2>1. [i \in 1..BufferSize |-> "zero"] \in Seq(Token) /\ Len([i \in 1..BufferSize |-> "zero"]) = BufferSize
      BY <1>1
  <2>2. <<>> \in Seq(Token) /\ Len(<<>>) = BufferSize * 0
      BY <1>1
  <2>3. NoRead.buffer = [i \in 1..BufferSize |-> "zero"] /\ NoRead.content = <<>>
      BY DEF NoRead
  <2>4. R[0].buffer \in Seq(Token) /\ Len(R[0].buffer) = BufferSize
      BY <1>2, <2>1, <2>3
  <2>5. R[0].content \in Seq(Token) /\ Len(R[0].content) = BufferSize * 0
      BY <1>2, <2>2, <2>3
  <2>6. \A i \in 1..0 : FALSE
      OBVIOUS
  <2> HIDE DEF Block
  <2> QED BY <2>4, <2>5, <2>6
<1>4. ASSUME NEW k \in Nat, k \in D PROVE k + 1 \in D
  <2> SUFFICES ASSUME k + 1 <= n PROVE Good(k + 1)
      OBVIOUS
  <2> DEFINE old == R[k].buffer
             c == R[k].content
             x == chunks[k + 1]
             b == x \o SubSeq(old, Len(x) + 1, BufferSize)
  <2>1. k <= n /\ k + 1 \in 0..n /\ k + 1 \in 1..n /\ (k + 1) - 1 = k /\ k + 1 # 0
      BY <1>1
  <2>2. Good(k)
      BY <1>4, <2>1
  <2>3. x \in Seq(Token) /\ Len(x) \in Nat /\ Len(x) <= BufferSize
    <3>1. k + 1 \in DOMAIN chunks
        BY <1>1, <2>1
    <3>2. chunks[k + 1] \in Seq(Token)
        BY <3>1
    <3>3. Len(chunks[k + 1]) <= BufferSize
        BY <3>1
    <3> QED BY <3>2, <3>3
  <2> HIDE DEF x
  <2>4. R[k + 1] = AppendBuffer(R[k], x)
      BY <1>1, <2>1, ReadingEquation DEF R, x
  <2>5. R[k + 1].buffer = b /\ R[k + 1].content = c \o b
    <3>1. AppendBuffer(R[k], x).buffer = b /\ AppendBuffer(R[k], x).content = c \o b
        BY DEF AppendBuffer
    <3> HIDE DEF b, c
    <3> QED BY <2>4, <3>1
  <2> DEFINE rest == SubSeq(old, Len(x) + 1, BufferSize)
  <2>6. rest \in Seq(Token) /\ Len(rest) = BufferSize - Len(x)
    <3>1. old \in Seq(Token) /\ Len(old) = BufferSize
        BY <2>2
    <3> HIDE DEF old
    <3> QED BY <1>1, <2>3, <3>1
  <2>7. b \in Seq(Token) /\ Len(b) = BufferSize /\ IsPrefix(x, b)
    <3>1. b = x \o rest
        OBVIOUS
    <3>2. Len(x) + (BufferSize - Len(x)) = BufferSize
        BY <1>1, <2>3
    <3> HIDE DEF rest, b
    <3>3. x \o rest \in Seq(Token) /\ Len(x \o rest) = Len(x) + Len(rest)
        BY <2>3, <2>6, ConcatProperties
    <3>4. IsPrefix(x, x \o rest)
        BY <2>3, <2>6, PrefixOfConcat
    <3> QED BY <2>6, <3>1, <3>2, <3>3, <3>4
  <2>8. c \in Seq(Token) /\ Len(c) = BufferSize * k
      BY <2>2
  <2>9. BufferSize * (k + 1) = BufferSize * k + BufferSize /\ BufferSize * k \in Nat
      BY <1>1
  <2> HIDE DEF b, c
  <2>10. c \o b \in Seq(Token) /\ Len(c \o b) = BufferSize * (k + 1)
    <3>1. c \o b \in Seq(Token) /\ Len(c \o b) = Len(c) + Len(b)
        BY <2>7, <2>8, ConcatProperties
    <3>2. Len(c) + Len(b) = BufferSize * k + BufferSize
        BY <2>7, <2>8
    <3> QED BY <2>9, <3>1, <3>2
  <2>11. ASSUME NEW i \in 1..(k + 1) PROVE IsPrefix(chunks[i], Block(c \o b, i))
    <3>1. CASE i = k + 1
      <4>1. Block(c \o b, i) = SubSeq(c \o b, Len(c) + 1, Len(c) + Len(b))
          BY <2>1, <2>7, <2>8, <2>9, <3>1
      <4>2. Block(c \o b, i) = b
        <5> HIDE DEF Block
        <5> QED BY <2>7, <2>8, <4>1, BlockOfConcat
      <4> HIDE DEF Block
      <4> QED BY <2>7, <3>1, <4>2 DEF x
    <3>2. CASE i # k + 1
      <4>1. i \in 1..k /\ i - 1 \in Nat /\ i \in Nat
          BY <3>2
      <4>2. /\ BufferSize * (i - 1) \in Nat /\ BufferSize * i \in Nat
            /\ BufferSize * i = BufferSize * (i - 1) + BufferSize
          BY <1>1, <4>1
      <4>3. BufferSize * i <= BufferSize * k
        <5>1. k - i \in Nat /\ BufferSize * (k - i) \in Nat
            BY <1>1, <4>1
        <5>2. BufferSize * k = BufferSize * i + BufferSize * (k - i)
            BY <1>1, <4>1
        <5> QED BY <4>2, <5>1, <5>2, <2>9
      <4>4. Block(c \o b, i) = Block(c, i)
        <5> DEFINE u == BufferSize * (i - 1) + 1
                   v == BufferSize * i
        <5>1. u \in Nat /\ v \in Nat /\ 1 <= u /\ u <= v + 1 /\ v <= Len(c)
          <6> DEFINE before == BufferSize * (i - 1)
          <6>1. u = before + 1 /\ v = before + BufferSize /\ before \in Nat /\ v <= Len(c)
              BY <1>1, <2>8, <4>2, <4>3
          <6> HIDE DEF before, u, v
          <6> QED BY <1>1, <6>1
        <5> HIDE DEF u, v
        <5>2. SubSeq(c \o b, u, v) = SubSeq(c, u, v)
            BY <2>7, <2>8, <5>1, BlockOfConcat
        <5> QED BY <5>2 DEF u, v
      <4> QED BY <2>2, <4>1, <4>4 DEF c
    <3> QED BY <3>1, <3>2
  <2> HIDE DEF Block
  <2> QED BY <2>5, <2>7, <2>10, <2>11
<1>5. Good(n)
  <2> HIDE DEF D, Good
  <2>1. n \in D
      BY <1>1, <1>3, <1>4, Induction
  <2> QED BY <1>1, <2>1 DEF D
<1>6. ZipContent(chunks) = R[n].content
    BY DEF ZipContent, Reading, NoRead, R
<1> QED BY <1>1, <1>5, <1>6 DEF BlocksHold

-----------------------------------------------------------------------------
(* Forms *)

\* A property of a form is decoded as a parameter of the query.
LEMMA PropertyFields ==
    ASSUME NEW n, NEW s, NEW enc
    PROVE  LET p == PropertyAs(n, s, enc) IN p.in = "query" /\ p.name = n /\ p.schema = s
BY DEF PropertyAs

\* What a form shows of a property is what a request carries for a parameter.
LEMMA FormIsWire ==
    ASSUME NEW Token, NEW texts, NEW s, NEW enc, IsForm(texts, s, enc, Token), NEW n \in DOMAIN s.props
    PROVE  IsWire(PropertyAs(n, s.props[n], enc), FormWire(texts, n), Token)
<1> DEFINE p == PropertyAs(n, s.props[n], enc)
           w == FormWire(texts, n)
<1>1. p.name = n
    BY PropertyFields
<1>2. n \in Token
  <2>1. IsWritten(p, Token)
      BY DEF IsForm
  <2> HIDE DEF p
  <2> QED BY <1>1, <2>1 DEF IsWritten
<1> HIDE DEF p
<1>3. w.values \in Seq(Seq(Token))
  <2>1. CASE n \in DOMAIN texts
    <3>1. w.values = texts[n]
        BY <2>1 DEF FormWire
    <3>2. texts \in [DOMAIN texts -> Seq(Seq(Token))]
        BY DEF IsForm
    <3> QED BY <2>1, <3>1, <3>2
  <2>2. CASE n \notin DOMAIN texts
    <3>1. w.values = <<>>
        BY <2>2 DEF FormWire
    <3> QED BY <3>1, EmptySeq
  <2> QED BY <2>1, <2>2
<1>4. DOMAIN w.others \subseteq {<<m>> : m \in DOMAIN texts}
    BY DEF FormWire
<1>5. DOMAIN Params(p, w) \subseteq {<<p.name>>} \cup DOMAIN w.others
  <2> HIDE DEF w
  <2> QED BY DEF Params
<1>6. \A m \in Token : <<m>> \in Seq(Token)
    OBVIOUS
<1>7. DOMAIN texts \subseteq Token
    BY DEF IsForm
<1> HIDE DEF w
<1>8. w.values \in Seq(Seq(Token)) /\ DOMAIN Params(p, w) \subseteq Seq(Token)
    BY <1>1, <1>2, <1>3, <1>4, <1>5, <1>6, <1>7
<1> QED BY <1>8 DEF IsWire, p, w

\* What urlencodedBodyDecoder makes of the properties.
LEMMA FormDecoded ==
    ASSUME NEW texts, NEW s, NEW enc, FormSupports(s)
    PROVE  LET r == [n \in DOMAIN s.props |-> DecodeValue(PropertyAs(n, s.props[n], enc), FormWire(texts, n))]
               b == UrlencodedBody(Form(texts), s, enc)
           IN  IF \E n \in DOMAIN s.props : r[n].err # "none" THEN b.err # "none"
               ELSE b = Ok(Object([n \in DOMAIN s.props |-> r[n].value]))
<1> DEFINE r == [n \in DOMAIN s.props |-> DecodeValue(PropertyAs(n, s.props[n], enc), FormWire(texts, n))]
<1>1. Form(texts).kind = "form" /\ Form(texts).form = texts
    BY DEF Form
<1>2. UrlencodedBody(Form(texts), s, enc) = FormObject(r)
    BY <1>1 DEF UrlencodedBody
<1>3. DOMAIN r = DOMAIN s.props
    OBVIOUS
<1> HIDE DEF r
<1>4. CASE \E n \in DOMAIN s.props : r[n].err # "none"
  <2>1. {r[n].err : n \in DOMAIN r} \ {"none"} # {}
      BY <1>3, <1>4
  <2>2. FormObject(r) \in {Bad, Panic, Either}
      BY <2>1 DEF FormObject
  <2>3. FormObject(r).err # "none"
      BY <2>2 DEF Bad, Panic, Either
  <2> QED BY <1>2, <1>4, <2>3 DEF r
<1>5. CASE \A n \in DOMAIN s.props : r[n].err = "none"
  <2>1. {r[n].err : n \in DOMAIN r} \ {"none"} = {}
      BY <1>3, <1>5
  <2>2. FormObject(r) = Ok(Object([n \in DOMAIN s.props |-> r[n].value]))
      BY <1>3, <2>1 DEF FormObject
  <2> QED BY <1>2, <1>5, <2>2 DEF r
<1> QED BY <1>4, <1>5

\* What a form is decoded to has, for each property of the schema, nothing or the whole of
\* what the form shows for it, of every schema and way to write it.
THEOREM DecodedFormIsWhole ==
    ASSUME NEW Token, NEW texts, NEW s, NEW enc, IsForm(texts, s, enc, Token),
           UrlencodedBody(Form(texts), s, enc).err = "none"
    PROVE  IsWholeForm(texts, s, enc, UrlencodedBody(Form(texts), s, enc).value, Token)
<1> DEFINE b == UrlencodedBody(Form(texts), s, enc)
           p(n) == PropertyAs(n, s.props[n], enc)
           w(n) == FormWire(texts, n)
           r == [n \in DOMAIN s.props |-> DecodeValue(p(n), w(n))]
<1>1. IF \E n \in DOMAIN s.props : r[n].err # "none" THEN b.err # "none"
      ELSE b = Ok(Object([n \in DOMAIN s.props |-> r[n].value]))
  <2>1. FormSupports(s)
      BY DEF IsForm
  <2> QED BY <2>1, FormDecoded
<1>2. ASSUME NEW n \in DOMAIN s.props
      PROVE  IsNothing(r[n].value) \/ IsWholeValue(p(n), w(n), r[n].value, Token)
  <2>1. IsWritten(p(n), Token)
      BY DEF IsForm
  <2>2. IsWire(p(n), w(n), Token)
      BY FormIsWire
  <2>3. LET v == DecodeValue(p(n), w(n)).value IN IsNothing(v) \/ IsWholeValue(p(n), w(n), v, Token)
    <3> HIDE DEF p, w
    <3> QED BY <2>1, <2>2, DecodedValueIsWhole
  <2>4. r[n] = DecodeValue(p(n), w(n))
    <3> HIDE DEF p, w
    <3> QED OBVIOUS
  <2> HIDE DEF p, w, r
  <2> QED BY <2>3, <2>4
<1>3. b.err = "none"
    OBVIOUS
<1> HIDE DEF b, r
<1>4. b.value = Object([n \in DOMAIN s.props |-> r[n].value])
    BY <1>1, <1>3 DEF Ok
<1>5. b.value.kind = "object" /\ b.value.props = [n \in DOMAIN s.props |-> r[n].value]
    BY <1>4 DEF Object
<1>6. IsWholeForm(texts, s, enc, b.value, Token)
  <2>1. DOMAIN b.value.props = DOMAIN s.props
      BY <1>5
  <2>2. \A n \in DOMAIN s.props : b.value.props[n] = r[n].value
      BY <1>5
  <2> QED BY <1>2, <1>5, <2>1, <2>2 DEF IsWholeForm
<1> QED BY <1>6 DEF b

\* A text or a list is decoded from its own texts only.
LEMMA OthersIgnored ==
    ASSUME NEW p, NEW s, s.of # "type" \/ s.type # "object", NEW w, NEW x, w.values = x.values
    PROVE  DecodePlain(p, w, s) = DecodePlain(p, x, s)
<1>1. Absent(p, w) <=> Absent(p, x)
    BY DEF Absent
<1>2. DecodePrimitive(p, w, s) = DecodePrimitive(p, x, s)
    BY <1>1 DEF DecodePrimitive
<1>3. DecodeArray(p, w, s) = DecodeArray(p, x, s)
    BY <1>1 DEF DecodeArray
<1> QED BY <1>2, <1>3 DEF DecodePlain

\* urlencodedBodyDecoder undoes the serialization: a form that shows values for all the
\* properties of the schema, as OpenAPI writes them, is decoded to these.
THEOREM WrittenFormIsDecoded ==
    ASSUME NEW Token, NEW texts, NEW s, NEW enc, IsForm(texts, s, enc, Token),
           NEW values, ShowsProperties(texts, s, enc, values, Token)
    PROVE  UrlencodedBody(Form(texts), s, enc) = Ok(Object(values))
<1> DEFINE p(n) == PropertyAs(n, s.props[n], enc)
           w(n) == FormWire(texts, n)
           r == [n \in DOMAIN s.props |-> DecodeValue(p(n), w(n))]
<1>1. FormSupports(s)
    BY DEF IsForm
<1>2. ASSUME NEW n \in DOMAIN s.props PROVE DecodeValue(p(n), w(n)) = Decoded(TRUE, Ok(values[n]))
  <2>1. IsWritten(p(n), Token) /\ p(n).schema = s.props[n]
      BY PropertyFields DEF IsForm
  <2>2. /\ IsPlainValue(p(n), values[n], Token) /\ Supported(p(n), Shape(values[n]))
        /\ \E x \in Serializations(p(n), values[n]) : w(n).values = x.values
      BY DEF ShowsProperties
  <2> HIDE DEF p, w
  <2>3. PICK x \in Serializations(p(n), values[n]) : w(n).values = x.values
      BY <2>2
  <2>4. DecodeStyledParameter(p(n), x) = Decoded(TRUE, Ok(values[n]))
    <3> DEFINE q == p(n)
               v == values[n]
    <3>1. IsWritten(q, Token) /\ IsPlainValue(q, v, Token) /\ Supported(q, Shape(v)) /\ x \in Serializations(q, v)
        BY <2>1, <2>2
    <3> HIDE DEF q, v
    <3>2. DecodeStyledParameter(q, x) = Decoded(TRUE, Ok(v))
        BY <3>1, WrittenIsDecoded
    <3> QED BY <3>2 DEF q, v
  <2>5. DecodeValue(p(n), x) = Decoded(TRUE, Ok(values[n]))
    <3>1. NotShown # Decoded(TRUE, Ok(values[n]))
      <4>1. NotShown.found = FALSE /\ Decoded(TRUE, Ok(values[n])).found = TRUE
          BY DEF NotShown, Decoded
      <4> QED BY <4>1
    <3> QED BY <2>4, <3>1 DEF DecodeStyledParameter
  <2>6. ~IsComposed(s.props[n]) /\ s.props[n] \in Schemas /\ s.props[n].of = "type" /\ s.props[n].type # "object"
    <3>1. s.props[n].of = "type"
      <4>1. IsPrimitive(s.props[n]) => s.props[n].of = "type"
          BY PrimitiveMeaning
      <4> QED BY <2>1, <2>2, <4>1 DEF IsPlainValue, ArePropertyTexts
    <3>2. TypeOf(s.props[n]) # "object"
        BY <1>1 DEF FormSupports
    <3> QED BY <2>1, <3>1, <3>2 DEF TypeOf, IsComposed, IsWritten
  <2>7. /\ DecodeValue(p(n), x) = DecodePlain(p(n), x, s.props[n])
        /\ DecodeValue(p(n), w(n)) = DecodePlain(p(n), w(n), s.props[n])
      BY <2>1, <2>6, PlainSchemaDecoded
  <2>8. DecodePlain(p(n), x, s.props[n]) = DecodePlain(p(n), w(n), s.props[n])
      BY <2>3, <2>6, OthersIgnored
  <2> QED BY <2>5, <2>7, <2>8
<1>3. \A n \in DOMAIN s.props : r[n].err = "none" /\ r[n].value = values[n]
  <2> HIDE DEF p, w
  <2>1. \A n \in DOMAIN s.props : r[n] = Decoded(TRUE, Ok(values[n]))
      BY <1>2
  <2> HIDE DEF r
  <2>2. \A n \in DOMAIN s.props : Decoded(TRUE, Ok(values[n])).err = "none" /\ Decoded(TRUE, Ok(values[n])).value = values[n]
      BY DEF Decoded, Ok
  <2> QED BY <2>1, <2>2
<1>4. IF \E n \in DOMAIN s.props : r[n].err # "none"
      THEN UrlencodedBody(Form(texts), s, enc).err # "none"
      ELSE UrlencodedBody(Form(texts), s, enc) = Ok(Object([n \in DOMAIN s.props |-> r[n].value]))
    BY <1>1, FormDecoded
<1>5. values = [n \in DOMAIN s.props |-> values[n]]
    BY DEF ShowsProperties
<1> HIDE DEF r
<1>6. [n \in DOMAIN s.props |-> r[n].value] = values
    BY <1>3, <1>5
<1> QED BY <1>3, <1>4, <1>6

-----------------------------------------------------------------------------
(* Requests whose bodies are decoded *)

\* What passes with a body that is declared was decoded, and fits.
LEMMA JudgedFits ==
    ASSUME IInv, result = "valid", op.declaresBody, Described,
           NEW r, NEW fits, op.data.value \in Judged(r, fits)
    PROVE  r.err = "none" /\ fits
<1>1. AcceptableBody
    BY DEF IInv, Justified, BodyRefused
<1>2. op.data.value \notin {"absent", "empty", "unreadable"}
    BY DEF Judged
<1>3. op.data.value = "fits"
    BY <1>1, <1>2 DEF AcceptableBody
<1> QED BY <1>3 DEF Judged

\* A JSON document that passes fits its schema as it was written, if its numbers are
\* written plainly.  fits: of each value, whether it fits.
THEOREM AcceptedDocumentIsMeant ==
    ASSUME NEW doc \in Docs[MaxDepth], HasPlainNumbers(doc), NEW fits
    PROVE  Spec => [](/\ result = "valid" /\ op.declaresBody /\ Described
                      /\ op.data.value \in Judged(Ok(ConvertToMap(doc)), fits[ConvertToMap(doc)])
                      => fits[YamlValue(doc)])
<1>1. IInv => (/\ result = "valid" /\ op.declaresBody /\ Described
               /\ op.data.value \in Judged(Ok(ConvertToMap(doc)), fits[ConvertToMap(doc)])
               => fits[YamlValue(doc)])
  <2> SUFFICES ASSUME IInv, result = "valid", op.declaresBody, Described,
                      op.data.value \in Judged(Ok(ConvertToMap(doc)), fits[ConvertToMap(doc)])
               PROVE  fits[YamlValue(doc)]
      OBVIOUS
  <2>1. fits[ConvertToMap(doc)]
      BY JudgedFits
  <2> QED BY <2>1, PlainNumbersAreKept
<1> QED BY Inductive, <1>1, PTL

\* Of a form that passes, each property of the schema is nothing, or the whole of what
\* the form shows for it, and they fit the schema.
THEOREM AcceptedFormIsWhole ==
    ASSUME NEW Token, NEW texts, NEW s, NEW enc, IsForm(texts, s, enc, Token), NEW fits
    PROVE  LET r == UrlencodedBody(Form(texts), s, enc)
           IN  Spec => [](result = "valid" /\ op.declaresBody /\ Described /\ op.data.value \in Judged(r, fits)
                          => fits /\ IsWholeForm(texts, s, enc, r.value, Token))
<1> DEFINE r == UrlencodedBody(Form(texts), s, enc)
<1>1. IInv => (result = "valid" /\ op.declaresBody /\ Described /\ op.data.value \in Judged(r, fits)
               => fits /\ IsWholeForm(texts, s, enc, r.value, Token))
  <2> SUFFICES ASSUME IInv, result = "valid", op.declaresBody, Described, op.data.value \in Judged(r, fits)
               PROVE  fits /\ IsWholeForm(texts, s, enc, r.value, Token)
      OBVIOUS
  <2>1. r.err = "none" /\ fits
    <3> HIDE DEF r
    <3> QED BY JudgedFits
  <2> QED BY <2>1, DecodedFormIsWhole
<1> QED BY Inductive, <1>1, PTL

\* A request with a form that shows values for all the properties of the schema, as OpenAPI
\* writes them, is not refused for it if they fit.
THEOREM WrittenFormIsAccepted ==
    ASSUME NEW Token, NEW texts, NEW s, NEW enc, IsForm(texts, s, enc, Token),
           NEW values, ShowsProperties(texts, s, enc, values, Token)
    PROVE  Spec => [](/\ pc = "done" /\ Authorized
                      /\ \A x \in Declared : Acceptable(x) /\ ~(IsNil(x) /\ x.default = "misfits")
                      /\ op.body.content = "matches" /\ ~op.data.omits
                      /\ op.data.value \in Judged(UrlencodedBody(Form(texts), s, enc), TRUE)
                      => result = "valid")
<1> DEFINE r == UrlencodedBody(Form(texts), s, enc)
<1>1. Judged(r, TRUE) = {"fits"}
  <2>1. r = Ok(Object(values))
      BY WrittenFormIsDecoded
  <2>2. r.err = "none"
    <3> HIDE DEF r
    <3> QED BY <2>1 DEF Ok
  <2> HIDE DEF r
  <2> QED BY <2>2 DEF Judged
<1> HIDE DEF r
<1>2. op.body.content = "matches" /\ ~op.data.omits /\ op.data.value \in Judged(r, TRUE) => ~BodyRefused
    BY <1>1 DEF BodyRefused, AcceptableBody
<1>3. IInv => (/\ pc = "done" /\ Authorized
               /\ \A x \in Declared : Acceptable(x) /\ ~(IsNil(x) /\ x.default = "misfits")
               /\ op.body.content = "matches" /\ ~op.data.omits
               /\ op.data.value \in Judged(r, TRUE)
               => result = "valid")
    BY <1>2, DeclaredMeaning, FineIsAcceptable, PanicIsRefused DEF IInv, Justified, TypeOK, Fine
<1> QED BY Inductive, <1>3, PTL DEF r

================================================================================
