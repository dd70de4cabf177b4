----------------------- MODULE ResponseValidationProofs -----------------------
(***************************************************************************)
(* ValidateResponse passes exactly what conforms, for any number of        *)
(* headers and every declaration of the responses.                         *)
(*                                                                         *)
(* PassesIfItConforms speaks of the end only.  What makes it inductive is  *)
(* what each phase has established (Established): the response in use is   *)
(* the right one from the moment it is chosen, the headers that are not    *)
(* left in todo are in order, and the body is looked at only when it has   *)
(* to be.                                                                  *)
(***************************************************************************)
EXTENDS ResponseValidation, TLAPS

\* The declared response decides: nothing exempts this one.
Subject ==
    /\ ~decl.head /\ ~decl.exempt
    /\ decl.keys \cap {"status", "default"} # {}
    /\ use = Chosen

\* The headers that were gone through are in order.
Checked(left) == \A h \in Object.headers \ {ContentType} : h \in left \/ InOrder(h)

Established ==
    /\ pc \in {"headers", "content", "body"} => Subject /\ result = "none"
    /\ pc = "headers" => todo \subseteq Object.headers \ {ContentType} /\ Checked(todo)
    /\ pc \in {"content", "body"} => Checked({})
    /\ pc = "body" => Object.content = "matches" /\ Object.schema

\* What each result means.
Justified ==
    /\ result = "none" <=> pc # "done"
    /\ result = "valid" =>
          \/ decl.head \/ decl.exempt \/ decl.keys = {}
          \/ Subject /\ Conforms(Object)
    /\ result = "status" => ~decl.head /\ ~decl.exempt /\ decl.keys = {"other"}
    /\ result = "header" =>
          Subject /\ \E h \in Object.headers \ {ContentType} : HeaderFails(h)
    /\ result = "body" => Subject /\ Checked({}) /\ ~Conforms(Object)
    /\ result = "panic" =>
          /\ Subject
          /\ (\E h \in Object.headers \ {ContentType} : Panics(h)) \/ (Checked({}) /\ ~Conforms(Object))

IInv == decl \in Declarations /\ TypeOK /\ Established /\ Justified

\* A response that is declared has the type of one.
LEMMA ObjectType ==
    ASSUME decl \in Declarations, Subject
    PROVE  Object \in Objects /\ use \in decl.keys \cap {"status", "default"}
<1>1. decl.keys \subseteq {"status", "default", "other"}
      /\ decl.object \in [{"status", "default"} -> Objects]
  BY DeclarationAssumption
<1>2. use \in decl.keys \cap {"status", "default"} BY DEF Subject, Chosen
<1> QED BY <1>1, <1>2 DEF Object

\* A header is in order exactly when OpenAPI has nothing against it.
LEMMA HeaderMeaning ==
    ASSUME decl \in Declarations, Subject, NEW h \in Object.headers
    PROVE  InOrder(h) <=>
             /\ decl.shown[h].value \notin {"undecodable", "panics"}
             /\ IF decl.shown[h].found THEN decl.shown[h].value = "fits" ELSE h \notin Object.required
<1>1. h \in Headers /\ decl.shown \in [Headers -> Shown]
  BY ObjectType, DeclarationAssumption DEF Objects
<1>2. decl.shown[h].value \in {"panics", "undecodable", "misfits", "fits"} BY <1>1 DEF Shown
<1> QED BY <1>2 DEF InOrder, HeaderFails, Panics

\* A response conforms when its headers are in order and its body is.
LEMMA ConformsMeaning ==
    ASSUME decl \in Declarations, Subject
    PROVE  Conforms(Object) <=>
             /\ Checked({})
             /\ Object.content # "differs"
             /\ Object.content = "matches" /\ Object.schema => decl.body = "fits"
BY HeaderMeaning DEF Conforms, Checked

\* Everything holds at the start.
LEMMA InitIInv == Init => IInv
BY DEF Init, IInv, TypeOK, Established, Justified

\* The choice of the declared response.
LEMMA StatusKeepsIInv ==
    ASSUME IInv, Skips \/ Undocumented \/ Choose
    PROVE  IInv'
<1> USE DEF IInv
<1>1. CASE Skips
  BY <1>1 DEF Skips, End, TypeOK, Established, Justified
<1>2. CASE Undocumented
  BY <1>2 DEF Undocumented, Validated, End, TypeOK, Established, Justified
<1>3. CASE Choose
  <2>1. decl.keys \subseteq {"status", "default", "other"} BY DeclarationAssumption
  <2>2. Subject' BY <1>3, <2>1 DEF Choose, Validated, Subject, Chosen
  <2>3. decl' = decl /\ Object' = decl.object[Chosen] /\ todo' = Object'.headers \ {ContentType}
    BY <1>3 DEF Choose, Object
  <2>4. Object' \in Objects BY <2>2, <2>3, ObjectType, <1>3, <2>1, DeclarationAssumption DEF Choose, Subject, Chosen
  <2>5. TypeOK'
    <3>1. todo' \subseteq Headers \ {ContentType} BY <2>3, <2>4 DEF Objects
    <3>2. use' \in {"none", "status", "default"} BY <1>3 DEF Choose, Chosen
    <3> QED BY <1>3, <3>1, <3>2 DEF Choose, Validated, TypeOK, Justified
  <2>6. Established'
    BY <1>3, <2>2, <2>3 DEF Choose, Validated, Established, Justified, Checked
  <2>7. Justified' BY <1>3 DEF Choose, Validated, Justified
  <2> QED BY <1>3, <2>5, <2>6, <2>7 DEF Choose
<1> QED BY <1>1, <1>2, <1>3

\* The headers, in any order.
LEMMA HeadersKeepIInv ==
    ASSUME IInv, HeadersEnd \/ \E h \in Headers : HeaderPasses(h) \/ HeaderRefused(h) \/ HeaderPanics(h)
    PROVE  IInv'
<1> USE DEF IInv
<1>1. pc = "headers" /\ Subject /\ result = "none" /\ Checked(todo)
      /\ todo \subseteq Object.headers \ {ContentType}
  BY DEF HeadersEnd, HeaderPasses, HeaderRefused, HeaderPanics, NextHeader, Established
<1>2. decl' = decl /\ use' = use /\ input' = input
  BY DEF HeadersEnd, HeaderPasses, HeaderRefused, HeaderPanics
<1>3. Object' = Object /\ Subject' BY <1>1, <1>2 DEF Object, Subject, Chosen
<1>4. ASSUME NEW h \in Headers, HeaderPasses(h) PROVE IInv'
  <2>1. todo' = todo \ {h} /\ pc' = pc /\ result' = result /\ InOrder(h)
    BY <1>4 DEF HeaderPasses
  <2>2. Checked(todo)' BY <1>1, <1>2, <1>3, <2>1 DEF Checked, InOrder, HeaderFails, Panics, Object
  <2> QED BY <1>1, <1>2, <1>3, <2>1, <2>2 DEF TypeOK, Established, Justified
<1>5. ASSUME NEW h \in Headers, HeaderRefused(h) PROVE IInv'
  <2>1. h \in todo /\ HeaderFails(h) /\ pc' = "done" /\ result' = "header" /\ todo' = todo
    BY <1>5 DEF HeaderRefused, NextHeader, End
  <2>2. HeaderFails(h)' BY <1>2, <2>1 DEF HeaderFails, Panics, Object
  <2>3. \E g \in Object'.headers \ {ContentType} : HeaderFails(g)' BY <1>1, <1>3, <2>1, <2>2
  <2>4. Justified'
    <3>1. (\E g \in Object.headers \ {ContentType} : HeaderFails(g))' BY <2>3
    <3> QED BY <1>3, <2>1, <3>1 DEF Justified
  <2>5. TypeOK' BY <1>1, <1>2, <2>1 DEF TypeOK
  <2> QED BY <1>2, <2>1, <2>4, <2>5 DEF Established
<1>6. ASSUME NEW h \in Headers, HeaderPanics(h) PROVE IInv'
  <2>1. h \in todo /\ Panics(h) /\ pc' = "done" /\ result' = "panic" /\ todo' = todo
    BY <1>6 DEF HeaderPanics, NextHeader, End
  <2>2. Panics(h)' BY <1>2, <2>1 DEF Panics
  <2>3. (\E g \in Object.headers \ {ContentType} : Panics(g))' BY <1>1, <1>3, <2>1, <2>2
  <2>4. Justified' BY <1>3, <2>1, <2>3 DEF Justified
  <2>5. TypeOK' BY <1>1, <1>2, <2>1 DEF TypeOK
  <2> QED BY <1>2, <2>1, <2>4, <2>5 DEF Established
<1>7. CASE HeadersEnd
  <2>1. todo = {} /\ pc' = "content" /\ todo' = todo /\ result' = result
    BY <1>7 DEF HeadersEnd
  <2>2. Checked({})' BY <1>1, <1>2, <1>3, <2>1 DEF Checked, InOrder, HeaderFails, Panics, Object
  <2> QED BY <1>1, <1>2, <1>3, <2>1, <2>2 DEF TypeOK, Established, Justified
<1> QED BY <1>4, <1>5, <1>6, <1>7

\* The body.
LEMMA BodyKeepsIInv ==
    ASSUME IInv, Unspecified \/ UnexpectedType \/ TakeBody \/ ReadFails \/ Decode \/ DecodingPanics
    PROVE  IInv'
<1> USE DEF IInv
<1>1. pc \in {"content", "body"} /\ Subject /\ result = "none" /\ Checked({})
      /\ (pc = "body" => Object.content = "matches" /\ Object.schema)
  BY DEF Unspecified, UnexpectedType, TakeBody, ReadFails, Decode, DecodingPanics, Established
<1>2. decl' = decl /\ use' = use /\ todo' = todo
  BY DEF Unspecified, UnexpectedType, TakeBody, ReadFails, Decode, DecodingPanics
<1>3. Object' = Object /\ Subject' /\ Checked({})'
  BY <1>1, <1>2 DEF Object, Subject, Chosen, Checked, InOrder, HeaderFails, Panics
<1>4. Conforms(Object)' <=> Conforms(Object) BY <1>2 DEF Conforms, Object
<1>5. CASE Unspecified
  <2>1. Conforms(Object) BY <1>1, <1>5, ConformsMeaning DEF Unspecified
  <2> QED BY <1>1, <1>2, <1>3, <1>4, <1>5, <2>1 DEF Unspecified, End, TypeOK, Established, Justified
<1>6. CASE UnexpectedType
  <2>1. ~Conforms(Object) BY <1>1, <1>6, ConformsMeaning DEF UnexpectedType
  <2> QED BY <1>1, <1>2, <1>3, <1>4, <1>6, <2>1 DEF UnexpectedType, End, TypeOK, Established, Justified
<1>7. CASE TakeBody
  BY <1>1, <1>2, <1>3, <1>7 DEF TakeBody, TypeOK, Established, Justified
<1>8. CASE ReadFails
  <2>1. ~Conforms(Object) BY <1>1, <1>8, ConformsMeaning DEF ReadFails
  <2> QED BY <1>1, <1>2, <1>3, <1>4, <1>8, <2>1 DEF ReadFails, End, TypeOK, Established, Justified
<1>9. CASE Decode
  <2>1. Conforms(Object) <=> decl.body = "fits" BY <1>1, <1>9, ConformsMeaning DEF Decode
  <2> QED BY <1>1, <1>2, <1>3, <1>4, <1>9, <2>1 DEF Decode, End, TypeOK, Established, Justified
<1>10. CASE DecodingPanics
  <2>1. ~Conforms(Object) BY <1>1, <1>10, ConformsMeaning DEF DecodingPanics
  <2> QED BY <1>1, <1>2, <1>3, <1>4, <1>10, <2>1 DEF DecodingPanics, End, TypeOK, Established, Justified
<1> QED BY <1>5, <1>6, <1>7, <1>8, <1>9, <1>10

\* The conjunction is an invariant, for every declaration.
THEOREM Inductive == Spec => []IInv
<1>1. ASSUME IInv, [Next]_vars PROVE IInv'
  <2>1. CASE Next BY <1>1, <2>1, StatusKeepsIInv, HeadersKeepIInv, BodyKeepsIInv DEF Next
  <2>2. CASE UNCHANGED vars
    BY <1>1, <2>2 DEF vars, IInv, TypeOK, Established, Justified, Subject, Chosen, Checked,
       InOrder, HeaderFails, Panics, Conforms, Object
  <2> QED BY <1>1, <2>1, <2>2
<1> QED BY InitIInv, <1>1, PTL DEF Spec

\* The types of the state; the input is without a body only while it is read, and
\* after a read that failed.
THEOREM TypeCorrect == Spec => []TypeOK
BY Inductive, PTL DEF IInv

\* A response passes exactly when it is exempt or conforms.
THEOREM PassesExactlyIfItConforms == Spec => []PassesIfItConforms
<1>1. ASSUME IInv PROVE PassesIfItConforms
  <2> USE <1>1 DEF IInv
  <2>1. ASSUME Subject
        PROVE  Conforms(Object) <=>
                 \/ "status" \in decl.keys /\ Conforms(decl.object["status"])
                 \/ /\ "default" \in decl.keys /\ "status" \notin decl.keys
                    /\ Conforms(decl.object["default"])
    BY <2>1 DEF Subject, Chosen, Object
  <2>2. Subject => ~decl.head /\ ~decl.exempt /\ decl.keys # {} BY DEF Subject
  <2>3. pc = "done" => result \in {"valid", "status", "header", "body", "panic"} BY DEF TypeOK, Justified
  <2>4. result \in {"header", "panic"} => Subject /\ ~Conforms(Object)
    BY ConformsMeaning DEF Justified, Checked, InOrder
  <2> QED BY <2>1, <2>2, <2>3, <2>4 DEF Justified, PassesIfItConforms
<1> QED BY Inductive, <1>1, PTL

\* The body is blamed only when everything before it is in order.
THEOREM BlamesBodyLast == Spec => []BodyIsBlamedLast
<1>1. IInv => BodyIsBlamedLast
  BY DEF IInv, Justified, Subject, Checked, BodyIsBlamedLast
<1> QED BY Inductive, <1>1, PTL

===============================================================================
