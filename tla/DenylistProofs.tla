---------------------------- MODULE DenylistProofs ----------------------------
(***************************************************************************)
(* A request that shows a listed token is blocked and no other is, for     *)
(* files of any length, any tokens and settings.                           *)
(*                                                                         *)
(* The two passes over the file have to agree: that numOfElements stays    *)
(* below totalEntries needs the counting of the first pass (Counted) next  *)
(* to the progress of the second (Loaded), which also says which lines     *)
(* have reached the cache, or were refused, so far.  What a verdict means  *)
(* (Decided) holds for good, because nothing is loaded after phase ready.  *)
(***************************************************************************)
EXTENDS Denylist, FiniteSetTheorems, SequenceTheorems, TLAPS

\* The entries among the first n lines.
EntriesIn(n) == {i \in 1..n : file[i].entry}

\* What the first pass has counted.
Counted ==
    /\ phase = "count" => totalEntries = Cardinality(EntriesIn(pos))
    /\ phase \in {"load", "panicked"} =>
          totalEntries > 0 /\ totalEntries = Cardinality(EntriesIn(Len(file)))

\* What the second pass has loaded, and nothing that is not in the file.
Loaded ==
    /\ phase = "count" => numOfElements = 0
    /\ phase = "load" =>
          /\ numOfElements <= Cardinality(EntriesIn(pos))
          /\ \A i \in EntriesIn(pos) : file[i].key \in cache \cup refused
    /\ phase = "ready" /\ cfg.file => totalEntries > 0 /\ Listed \subseteq cache \cup refused
    /\ cache \subseteq Listed

\* What the middleware's last verdict says.
Decided ==
    /\ verdict # "none" => phase = "ready"
    /\ verdict = "passed" /\ cfg.file => ~Found(request)
    /\ verdict = "blocked" => cfg.file /\ Found(request)

IInv == TypeOK /\ Counted /\ Loaded /\ Decided

\* A line is empty or has a key.
LEMMA LineTypes ==
    ASSUME NEW f \in Seq(Lines), NEW i \in 1..Len(f)
    PROVE  f[i] \in Lines /\ f[i].key \in Keys
<1>1. f[i] \in Lines BY ElementOfSeq
<1>2. CASE f[i] = EmptyLine
  <2>1. EmptyLine.key = "" BY DEF EmptyLine
  <2> QED BY <1>1, <1>2, <2>1 DEF Keys
<1>3. CASE f[i] \in [entry : {TRUE}, key : Keys] BY <1>1, <1>3
<1> QED BY <1>1, <1>2, <1>3 DEF Lines

\* One more line adds an entry or nothing.
LEMMA NextLineCounts ==
    ASSUME TypeOK, NEW n \in 0..Len(file), n < Len(file)
    PROVE  /\ Cardinality(EntriesIn(n)) \in Nat
           /\ file[n + 1].entry => /\ EntriesIn(n + 1) = EntriesIn(n) \cup {n + 1}
                                   /\ Cardinality(EntriesIn(n + 1)) = Cardinality(EntriesIn(n)) + 1
           /\ ~file[n + 1].entry => EntriesIn(n + 1) = EntriesIn(n)
<1>1. IsFiniteSet(EntriesIn(n))
  BY FS_Interval, FS_Subset, 1 \in Int, n \in Int DEF EntriesIn
<1>2. n + 1 \notin EntriesIn(n) BY DEF EntriesIn
<1>3. file[n + 1].entry => EntriesIn(n + 1) = EntriesIn(n) \cup {n + 1}
  BY DEF EntriesIn
<1>4. ~file[n + 1].entry => EntriesIn(n + 1) = EntriesIn(n)
  BY DEF EntriesIn
<1> QED BY <1>1, <1>2, <1>3, <1>4, FS_CardinalityType, FS_AddElement

\* The first lines have no more entries than the file.
LEMMA EntriesBound ==
    ASSUME TypeOK, NEW n \in 0..Len(file)
    PROVE  /\ Cardinality(EntriesIn(n)) \in Nat
           /\ Cardinality(EntriesIn(n)) <= Cardinality(EntriesIn(Len(file)))
           /\ Cardinality(EntriesIn(n)) <= n
<1>0. Len(file) \in Nat BY DEF TypeOK
<1>1. IsFiniteSet(EntriesIn(Len(file)))
  <2>1. IsFiniteSet(1..Len(file)) BY <1>0, FS_Interval
  <2>2. EntriesIn(Len(file)) \subseteq 1..Len(file) BY DEF EntriesIn
  <2> QED BY <2>1, <2>2, FS_Subset
<1>2. EntriesIn(n) \subseteq EntriesIn(Len(file)) BY <1>0 DEF EntriesIn
<1>3. EntriesIn(n) \subseteq 1..n BY DEF EntriesIn
<1>4. IsFiniteSet(1..n) /\ Cardinality(1..n) = n
  <2>1. n \in Nat BY <1>0
  <2>2. Cardinality(1..n) = (IF 1 > n THEN 0 ELSE n - 1 + 1) /\ IsFiniteSet(1..n)
    BY <2>1, FS_Interval
  <2> QED BY <2>1, <2>2
<1>5. Cardinality(EntriesIn(n)) <= n BY <1>3, <1>4, FS_Subset
<1>6. Cardinality(EntriesIn(n)) <= Cardinality(EntriesIn(Len(file))) BY <1>1, <1>2, FS_Subset
<1>7. Cardinality(EntriesIn(n)) \in Nat BY <1>3, <1>4, FS_Subset, FS_CardinalityType
<1> QED BY <1>5, <1>6, <1>7

LEMMA NoLineNoEntry == EntriesIn(0) = {} /\ Cardinality(EntriesIn(0)) = 0
BY FS_EmptySet DEF EntriesIn

\* Every file is a sequence of lines.
LEMMA FilesAreSequences == Files \subseteq Seq(Lines)
BY DEF Files, BoundedSeq, SeqOf

\* Everything holds before the file is opened.
LEMMA InitIInv == Init => IInv
<1> SUFFICES ASSUME Init PROVE IInv OBVIOUS
<1> USE DEF Init
<1>1. file \in Seq(Lines) BY FilesAreSequences
<1>2. NoRequest \in Requests BY DEF NoRequest, Requests, HeaderValues, Keys
<1>3. TypeOK BY <1>1, <1>2 DEF TypeOK
<1> QED BY <1>3, NoLineNoEntry DEF IInv, Counted, Loaded, Decided, Configs

\* The first pass.
LEMMA CountingKeepsIInv ==
    ASSUME IInv, CountLine \/ NewCache \/ FileError
    PROVE  IInv'
<1> USE DEF IInv
<1>0. EntriesIn(pos)' = {i \in 1..pos' : file'[i].entry} BY DEF EntriesIn
<1>1. CASE CountLine
  <2>1. pos \in 0..Len(file) /\ pos < Len(file) /\ file' = file /\ pos' = pos + 1
    BY <1>1 DEF CountLine, TypeOK
  <2>2. pos \in Nat /\ Len(file) \in Nat BY <2>1 DEF TypeOK
  <2>3. EntriesIn(pos)' = EntriesIn(pos + 1) /\ EntriesIn(Len(file))' = EntriesIn(Len(file))
    BY <2>1 DEF EntriesIn
  <2>4. totalEntries' = Cardinality(EntriesIn(pos + 1))
    BY <1>1, <2>1, NextLineCounts DEF CountLine, Counted
  <2>5. totalEntries' \in 0..Len(file)
    BY <2>1, <2>2, <2>4, EntriesBound
  <2>6. TypeOK'
    <3>1. numOfElements' \in 0..totalEntries' BY <1>1, <2>2, <2>5 DEF CountLine, Loaded
    <3>2. pos' \in 0..Len(file') BY <2>1, <2>2
    <3>3. totalEntries' \in 0..Len(file') BY <2>1, <2>5
    <3>4. UNCHANGED <<cfg, file, phase, cache, refused, request, verdict>>
      BY <1>1 DEF CountLine
    <3> QED BY <3>1, <3>2, <3>3, <3>4 DEF TypeOK
  <2>7. Counted' BY <1>1, <2>3, <2>4, <2>1 DEF CountLine, Counted
  <2>8. Loaded' /\ Decided' BY <1>1 DEF CountLine, Loaded, Decided, Listed, Found
  <2> QED BY <2>6, <2>7, <2>8
<1>2. CASE NewCache
  <2>1. pos = Len(file) /\ Len(file) \in Nat BY <1>2 DEF NewCache, TypeOK
  <2>2. EntriesIn(pos') = {} BY <1>2 DEF EntriesIn, NewCache
  <2>3. EntriesIn(pos)' = EntriesIn(pos') /\ EntriesIn(Len(file))' = EntriesIn(Len(file))
    BY <1>2 DEF EntriesIn, NewCache
  <2>4. UNCHANGED <<cfg, file, totalEntries, numOfElements, cache, refused, request, verdict>>
        /\ pos' = 0
    BY <1>2 DEF NewCache
  <2>5. TypeOK' BY <1>2, <2>1, <2>4 DEF NewCache, TypeOK
  <2>6. Counted' BY <1>2, <2>1, <2>3, <2>4 DEF NewCache, TypeOK, Counted
  <2>7. Cardinality(EntriesIn(pos))' = 0 BY <2>2, <2>3, FS_EmptySet
  <2>8. Loaded' BY <1>2, <2>2, <2>3, <2>4, <2>7 DEF NewCache, Loaded, Listed
  <2>9. Decided' BY <1>2, <2>4 DEF NewCache, Decided, Found
  <2> QED BY <2>5, <2>6, <2>8, <2>9
<1>3. CASE FileError
  BY <1>3 DEF FileError, TypeOK, Counted, Loaded, Decided, Listed, Found
<1> QED BY <1>1, <1>2, <1>3

\* The second pass: the keys of the lines up to the new position are in the cache or
\* refused, and the elements counted are no more than the entries passed.
LEMMA LoadingKeepsIInv ==
    ASSUME IInv, LoadEmpty \/ LoadEntry \/ LoadRefused
    PROVE  IInv'
<1> USE DEF IInv
<1>1. /\ phase = "load" /\ pos < Len(file) /\ pos' = pos + 1
      /\ UNCHANGED <<cfg, file, totalEntries, request, verdict>>
      /\ phase' \in {"load", "panicked"}
  BY DEF LoadEmpty, LoadEntry, LoadRefused
<1>2. Len(file) \in Nat /\ pos \in 0..Len(file) /\ pos' \in 0..Len(file)
  BY <1>1 DEF TypeOK
<1>3. EntriesIn(pos)' = EntriesIn(pos + 1) /\ EntriesIn(Len(file))' = EntriesIn(Len(file))
  BY <1>1 DEF EntriesIn
<1>4. LET k == file[pos + 1].key
      IN  k \in Keys /\ (file[pos + 1].entry => k \in Listed)
  <2>1. pos + 1 \in 1..Len(file) /\ file \in Seq(Lines) BY <1>1, <1>2 DEF TypeOK
  <2>2. file[pos + 1].key \in Keys BY <2>1, LineTypes
  <2>3. pos + 1 \in DOMAIN file BY <2>1
  <2> QED BY <2>2, <2>3 DEF Listed
<1>5. /\ numOfElements \in Nat /\ numOfElements <= Cardinality(EntriesIn(pos))
      /\ Cardinality(EntriesIn(pos)) \in Nat
      /\ totalEntries = Cardinality(EntriesIn(Len(file))) /\ totalEntries \in Nat
      /\ Cardinality(EntriesIn(pos + 1)) \in Nat
      /\ Cardinality(EntriesIn(pos + 1)) <= totalEntries
  <2>1. pos + 1 \in 0..Len(file) BY <1>1, <1>2
  <2> QED BY <1>1, <1>2, <2>1, EntriesBound DEF TypeOK, Counted, Loaded
<1>6. /\ numOfElements' \in Nat
      /\ numOfElements' <= Cardinality(EntriesIn(pos + 1))
  <2>1. CASE LoadEntry
    <3>1. Cardinality(EntriesIn(pos + 1)) = Cardinality(EntriesIn(pos)) + 1
      BY <1>1, <1>2, <2>1, NextLineCounts DEF LoadEntry
    <3> QED BY <1>5, <2>1, <3>1 DEF LoadEntry
  <2>2. CASE LoadEmpty \/ LoadRefused
    <3>1. Cardinality(EntriesIn(pos + 1)) >= Cardinality(EntriesIn(pos))
      BY <1>1, <1>2, <1>5, <2>2, NextLineCounts DEF LoadEmpty, LoadRefused
    <3> QED BY <1>5, <2>2, <3>1 DEF LoadEmpty, LoadRefused
  <2> QED BY <2>1, <2>2
<1>7. /\ cache \subseteq cache' /\ refused \subseteq refused'
      /\ cache' \subseteq Listed /\ cache' \subseteq Keys /\ refused' \subseteq Keys
      /\ file[pos + 1].entry => file[pos + 1].key \in cache' \cup refused'
  <2>1. CASE LoadEmpty BY <2>1 DEF LoadEmpty, TypeOK, Loaded
  <2>2. CASE LoadEntry BY <1>4, <2>2 DEF LoadEntry, TypeOK, Loaded
  <2>3. CASE LoadRefused BY <1>4, <2>3 DEF LoadRefused, TypeOK, Loaded
  <2> QED BY <2>1, <2>2, <2>3
<1>8. \A i \in EntriesIn(pos + 1) : file[i].key \in cache' \cup refused'
  <2>1. ASSUME NEW i \in EntriesIn(pos + 1) PROVE file[i].key \in cache' \cup refused'
    <3>1. CASE i = pos + 1 BY <1>7, <2>1, <3>1 DEF EntriesIn
    <3>2. CASE i \in EntriesIn(pos) BY <1>1, <1>7, <3>2 DEF Loaded
    <3>3. i = pos + 1 \/ i \in EntriesIn(pos) BY <1>2, <2>1 DEF EntriesIn
    <3> QED BY <3>1, <3>2, <3>3
  <2> QED BY <2>1
<1>9. Listed' = Listed BY <1>1 DEF Listed
<1>10. TypeOK'
  <2>1. numOfElements' \in 0..totalEntries' BY <1>1, <1>5, <1>6
  <2> QED BY <1>1, <1>2, <1>7, <2>1 DEF TypeOK
<1>11. Counted' BY <1>1, <1>3 DEF Counted
<1>12. Loaded' BY <1>1, <1>3, <1>6, <1>7, <1>8, <1>9 DEF Loaded
<1>13. Decided' BY <1>1 DEF Decided
<1> QED BY <1>10, <1>11, <1>12, <1>13

\* At the end of the second pass all lines are among the first Len(file).
LEMMA LoadEndKeepsIInv ==
    ASSUME IInv, LoadEnd
    PROVE  IInv'
<1> USE DEF IInv, LoadEnd
<1>1. Listed \subseteq cache \cup refused
  <2>1. ASSUME NEW i \in DOMAIN file, file[i].entry
        PROVE  file[i].key \in cache \cup refused
    <3>1. i \in 1..pos BY <2>1 DEF TypeOK
    <3> QED BY <2>1, <3>1 DEF Loaded, EntriesIn
  <2> QED BY <2>1 DEF Listed
<1>2. Loaded' BY <1>1 DEF Loaded, Counted, Listed
<1>3. TypeOK' BY DEF TypeOK
<1>4. Counted' /\ Decided' BY DEF Counted, Decided
<1> QED BY <1>2, <1>3, <1>4

\* The middleware changes nothing but its verdict.
LEMMA LookupKeepsIInv ==
    ASSUME IInv, Lookup
    PROVE  IInv'
<1> USE DEF IInv
<1>1. PICK r \in Requests :
        /\ request' = r
        /\ verdict' = IF cfg.file /\ totalEntries > 0 /\ Found(r) THEN "blocked" ELSE "passed"
  BY DEF Lookup
<1>2. phase = "ready" /\ UNCHANGED <<cfg, file, phase, pos, totalEntries, numOfElements, cache, refused>>
  BY DEF Lookup
<1>3. TypeOK' BY <1>1, <1>2 DEF TypeOK
<1>4. Counted' BY <1>2 DEF Counted, EntriesIn
<1>5. Loaded' BY <1>2 DEF Loaded, EntriesIn, Listed
<1>6. Found(request)' = Found(r) BY <1>1, <1>2 DEF Found
<1>7. Decided' BY <1>1, <1>2, <1>6 DEF Decided, Loaded
<1> QED BY <1>3, <1>4, <1>5, <1>7

\* The conjunction is an invariant, for every file and every sequence of requests.
THEOREM Inductive == Spec => []IInv
<1>1. ASSUME IInv, [Next]_vars PROVE IInv'
  <2>1. CASE Next
    BY <1>1, <2>1, CountingKeepsIInv, LoadingKeepsIInv, LoadEndKeepsIInv, LookupKeepsIInv DEF Next
  <2>2. CASE UNCHANGED vars
    <3>1. TypeOK' BY <1>1, <2>2 DEF vars, IInv, TypeOK
    <3>2. Counted' /\ Loaded' /\ Decided'
      BY <1>1, <2>2 DEF vars, IInv, Counted, Loaded, Decided, EntriesIn, Listed, Found
    <3> QED BY <3>1, <3>2 DEF IInv
  <2> QED BY <1>1, <2>1, <2>2
<1> QED BY InitIInv, <1>1, PTL DEF Spec

\* The types of the state: what is loaded never exceeds what was counted.
THEOREM TypeCorrect == Spec => []TypeOK
BY Inductive, PTL DEF IInv

\* A request is found exactly when it shows a key of the cache.
LEMMA FoundIsShown == ASSUME NEW r PROVE Found(r) <=> Shown(r) \cap cache # {}
<1>1. CASE cfg.cookie BY <1>1 DEF Found, Shown
<1>2. CASE ~cfg.cookie BY <1>2 DEF Found, Shown
<1> QED BY <1>1, <1>2

\* A request that shows a listed token is blocked, whatever the length of the file and
\* the place of the token, unless the cache refused it.
THEOREM ListedAreBlocked == Spec => []ListedIsBlocked
<1>1. ASSUME IInv PROVE ListedIsBlocked
  <2> USE <1>1 DEF IInv
  <2>1. ASSUME verdict = "passed", cfg.file PROVE Shown(request) \cap Listed \subseteq refused
    <3>1. Shown(request) \cap cache = {} BY <2>1, FoundIsShown DEF Decided
    <3>2. Listed \subseteq cache \cup refused BY <2>1 DEF Decided, Loaded
    <3> QED BY <3>1, <3>2
  <2> QED BY <2>1 DEF ListedIsBlocked
<1> QED BY Inductive, <1>1, PTL

\* No other request is blocked.
THEOREM OthersAreNotBlocked == Spec => []BlockedOnlyIfListed
<1>1. ASSUME IInv PROVE BlockedOnlyIfListed
  BY <1>1, FoundIsShown DEF IInv, Decided, Loaded, BlockedOnlyIfListed
<1> QED BY Inductive, <1>1, PTL

===============================================================================
