--------------------------- MODULE NavigationProofs ---------------------------
(***************************************************************************)
(* Titles, state and storage agree with what is shown, for any number of   *)
(* tabs, any pages and any trees of cards.                                 *)
(*                                                                         *)
(* Path is defined by recursion along Parent.  That the recursion has a    *)
(* value, and what its values look like, is shown by induction over the    *)
(* tree: PagesAssumption, taken for the set of the grids that have the     *)
(* property.  PathSolution is one solution of the recursion on a part of   *)
(* the page that has with a card the grid the card is in.                  *)
(***************************************************************************)
EXTENDS Navigation, SequenceTheorems, TLAPS

-----------------------------------------------------------------------------
(* The paths of a page *)

\* One unfolding of the recursion.
PathStep(p, h, g) == IF g \in Sections[p] THEN <<g>> ELSE Append(h[Parent[p][g]], g)

\* A solution of the recursion on D.
PathSolution(p, D, h) ==
    /\ D \subseteq Grids(p)
    /\ \A c \in D \cap Cards(p) : Parent[p][c] \in D
    /\ \A g \in D : h[g] = PathStep(p, h, g)

\* Where two solutions are defined, they agree.
LEMMA SolutionsAgree ==
    ASSUME NEW p \in Pages, NEW D, NEW h, NEW E, NEW k,
           PathSolution(p, D, h), PathSolution(p, E, k)
    PROVE  \A g \in D \cap E : h[g] = k[g]
<1> DEFINE S == {g \in Grids(p) : g \in D \cap E => h[g] = k[g]}
<1>1. ASSUME NEW s \in Sections[p] PROVE s \in S
  <2>1. s \in D \cap E => h[s] = <<s>> /\ k[s] = <<s>> BY DEF PathSolution, PathStep
  <2> QED BY <2>1 DEF Grids
<1>2. ASSUME NEW c \in Cards(p), Parent[p][c] \in S PROVE c \in S
  <2>1. c \in Grids(p) /\ c \notin Sections[p] BY PagesAssumption DEF Grids
  <2> SUFFICES ASSUME c \in D \cap E PROVE h[c] = k[c] BY <2>1
  <2>2. Parent[p][c] \in D \cap E BY DEF PathSolution
  <2>3. h[Parent[p][c]] = k[Parent[p][c]] BY <1>2, <2>2
  <2> QED BY <2>1, <2>3 DEF PathSolution, PathStep
<1>3. S = Grids(p) BY <1>1, <1>2, PagesAssumption
<1> QED BY <1>3 DEF PathSolution

\* Every grid is in the domain of a solution.
LEMMA SolutionsCover ==
    ASSUME NEW p \in Pages, NEW g \in Grids(p)
    PROVE  \E D, h : g \in D /\ PathSolution(p, D, h)
<1> DEFINE S == {x \in Grids(p) : \E D, h : x \in D /\ PathSolution(p, D, h)}
<1>1. ASSUME NEW s \in Sections[p] PROVE s \in S
  <2>1. s \in Grids(p) /\ s \notin Cards(p) BY PagesAssumption DEF Grids
  <2>2. PathSolution(p, {s}, [x \in {s} |-> <<x>>])
    BY <2>1 DEF PathSolution, PathStep
  <2> QED BY <2>1, <2>2
<1>2. ASSUME NEW c \in Cards(p), Parent[p][c] \in S PROVE c \in S
  <2>1. c \in Grids(p) /\ c \notin Sections[p] BY PagesAssumption DEF Grids
  <2>2. PICK D, h : Parent[p][c] \in D /\ PathSolution(p, D, h) BY <1>2
  <2>3. CASE c \in D BY <2>1, <2>2, <2>3
  <2>4. CASE c \notin D
    <3> DEFINE k == [x \in D \cup {c} |-> IF x = c THEN Append(h[Parent[p][c]], c) ELSE h[x]]
    <3>1. D \cup {c} \subseteq Grids(p) BY <2>1, <2>2 DEF PathSolution
    <3>2. \A x \in (D \cup {c}) \cap Cards(p) : Parent[p][x] \in D BY <2>2 DEF PathSolution
    <3>3. \A x \in D : k[x] = h[x] BY <2>4
    <3>4. k[c] = PathStep(p, k, c) BY <2>1, <2>2, <3>3 DEF PathStep
    <3>5. ASSUME NEW x \in D PROVE k[x] = PathStep(p, k, x)
      <4>1. h[x] = PathStep(p, h, x) BY <2>2 DEF PathSolution
      <4>2. CASE x \in Sections[p] BY <3>3, <4>1, <4>2 DEF PathStep
      <4>3. CASE x \notin Sections[p]
        <5>1. Parent[p][x] \in D BY <2>2, <3>1, <3>2, <4>3 DEF Grids
        <5> QED BY <3>3, <4>1, <4>3, <5>1 DEF PathStep
      <4> QED BY <4>2, <4>3
    <3>6. PathSolution(p, D \cup {c}, k) BY <3>1, <3>2, <3>4, <3>5 DEF PathSolution
    <3> HIDE DEF k
    <3> QED BY <2>1, <3>6
  <2> QED BY <2>3, <2>4
<1>3. S = Grids(p) BY <1>1, <1>2, PagesAssumption
<1> QED BY <1>3

\* The recursion has a value: the solutions put together.
LEMMA PathIsSolution ==
    ASSUME NEW p \in Pages
    PROVE  /\ Path(p) = [g \in Grids(p) |-> PathStep(p, Path(p), g)]
           /\ DOMAIN Path(p) = Grids(p)
<1> DEFINE solution(g) == CHOOSE x : \E D, h : g \in D /\ PathSolution(p, D, h) /\ x = h[g]
           f == [g \in Grids(p) |-> solution(g)]
<1>1. ASSUME NEW D, NEW h, PathSolution(p, D, h), NEW g \in D
      PROVE  f[g] = h[g]
  <2>1. \E x : \E E, k : g \in E /\ PathSolution(p, E, k) /\ x = k[g] BY <1>1
  <2>2. \E E, k : g \in E /\ PathSolution(p, E, k) /\ solution(g) = k[g] BY <2>1
  <2>3. PICK E, k : g \in E /\ PathSolution(p, E, k) /\ solution(g) = k[g] BY <2>2
  <2>4. k[g] = h[g] BY <1>1, <2>3, SolutionsAgree
  <2>5. g \in Grids(p) BY <1>1 DEF PathSolution
  <2> QED BY <2>3, <2>4, <2>5
<1> HIDE DEF f
<1>2. ASSUME NEW g \in Grids(p) PROVE f[g] = PathStep(p, f, g)
  <2>1. PICK D, h : g \in D /\ PathSolution(p, D, h) BY SolutionsCover
  <2>2. f[g] = h[g] /\ h[g] = PathStep(p, h, g) BY <1>1, <2>1 DEF PathSolution
  <2>3. CASE g \in Sections[p] BY <2>2, <2>3 DEF PathStep
  <2>4. CASE g \notin Sections[p]
    <3>1. Parent[p][g] \in D BY <2>1, <2>4 DEF PathSolution, Grids
    <3>2. f[Parent[p][g]] = h[Parent[p][g]] BY <1>1, <2>1, <3>1
    <3> QED BY <2>2, <2>4, <3>2 DEF PathStep
  <2> QED BY <2>3, <2>4
<1>3. f = [g \in Grids(p) |-> PathStep(p, f, g)]
  <2>1. f = [g \in Grids(p) |-> f[g]] BY DEF f
  <2> QED BY <1>2, <2>1
<1>4. Path(p) = CHOOSE path : path = [g \in Grids(p) |-> PathStep(p, path, g)]
  BY DEF Path, PathStep
<1>5. Path(p) = [g \in Grids(p) |-> PathStep(p, Path(p), g)] BY <1>3, <1>4
<1> QED BY <1>5

\* A path runs from a section to its grid; the section's own is the only one of length 1.
LEMMA PathProperties ==
    ASSUME NEW p \in Pages, NEW g \in Grids(p)
    PROVE  /\ Path(p)[g] \in Seq(Grids(p)) /\ Len(Path(p)[g]) >= 1
           /\ Path(p)[g][1] \in Sections[p] /\ Last(Path(p)[g]) = g
           /\ g \in Sections[p] =>
                Path(p)[g] = <<g>> /\ Len(Path(p)[g]) = 1 /\ Path(p)[g][1] = g
           /\ g \in Cards(p) => Len(Path(p)[g]) > 1 /\ Len(Path(p)[g]) # 1
<1> DEFINE q == Path(p)
           S == {x \in Grids(p) : /\ q[x] \in Seq(Grids(p)) /\ Len(q[x]) >= 1
                                  /\ q[x][1] \in Sections[p]}
<1>1. ASSUME NEW s \in Sections[p] 
      PROVE  s \in S /\ q[s] = <<s>> /\ Len(q[s]) = 1 /\ q[s][1] = s /\ Last(q[s]) = s
  <2>1. s \in Grids(p) BY DEF Grids
  <2>2. q[s] = <<s>> BY <2>1, PathIsSolution DEF PathStep
  <2> HIDE DEF q
  <2>3. q[s] \in Seq(Grids(p)) /\ Len(q[s]) = 1 /\ q[s][1] = s BY <2>1, <2>2
  <2>4. s \in S BY <2>1, <2>3
  <2> QED BY <2>2, <2>3, <2>4 DEF Last
<1>2. ASSUME NEW c \in Cards(p), Parent[p][c] \in S
      PROVE  c \in S /\ Last(q[c]) = c /\ Len(q[c]) > 1 /\ Len(q[c]) # 1
  <2>1. c \in Grids(p) /\ c \notin Sections[p] BY PagesAssumption DEF Grids
  <2>2. q[c] = Append(q[Parent[p][c]], c) BY <2>1, PathIsSolution DEF PathStep
  <2> HIDE DEF q
  <2>3. Len(q[Parent[p][c]]) \in Nat BY <1>2, LenProperties
  <2>4. /\ q[c] \in Seq(Grids(p)) /\ Len(q[c]) = Len(q[Parent[p][c]]) + 1
        /\ q[c][Len(q[c])] = c /\ q[c][1] = q[Parent[p][c]][1]
    BY <1>2, <2>1, <2>2, <2>3, AppendProperties
  <2> QED BY <1>2, <2>1, <2>3, <2>4 DEF Last
<1>3. S = Grids(p) BY <1>1, <1>2, PagesAssumption
<1>4. CASE g \in Sections[p]
  <2>1. g \notin Cards(p) BY <1>4, PagesAssumption
  <2> QED BY <1>1, <1>3, <1>4, <2>1
<1>5. CASE g \in Cards(p)
  <2>1. Parent[p][g] \in S /\ g \notin Sections[p] BY <1>3, <1>5, PagesAssumption
  <2> QED BY <1>2, <1>3, <1>5, <2>1
<1> QED BY <1>4, <1>5 DEF Grids

-----------------------------------------------------------------------------
(* What is stored *)

\* updateStateItem writes or removes the entry of one section.
LEMMA OneEntryUpdated ==
    ASSUME NEW st, NEW path
    PROVE  LET next == UpdateStateItem(st, path) IN
           /\ \A s : s # path[1] => (s \in DOMAIN next <=> s \in DOMAIN st)
           /\ \A s \in DOMAIN st : s # path[1] => next[s] = st[s]
           /\ Len(path) = 1 => path[1] \notin DOMAIN next
           /\ Len(path) # 1 => path[1] \in DOMAIN next /\ next[path[1]] = path
<1> DEFINE kept == [s \in DOMAIN st \ {path[1]} |-> st[s]]
<1>1. UpdateStateItem(st, path) = IF Len(path) = 1 THEN kept ELSE Set(st, path)
  BY DEF UpdateStateItem
<1>2. /\ DOMAIN kept = DOMAIN st \ {path[1]}
      /\ \A s \in DOMAIN st \ {path[1]} : kept[s] = st[s]
  OBVIOUS
<1>3. /\ DOMAIN Set(st, path) = DOMAIN st \cup {path[1]}
      /\ \A s \in DOMAIN st \cup {path[1]} :
            Set(st, path)[s] = IF s = path[1] THEN path ELSE st[s]
  BY DEF Set
<1> HIDE DEF kept
<1> QED BY <1>1, <1>2, <1>3

\* What it writes is the path of a card below its own section.
LEMMA EntriesUpdated ==
    ASSUME NEW st, Entries(st), NEW p \in Pages, NEW g \in Grids(p)
    PROVE  Entries(UpdateStateItem(st, Path(p)[g]))
<1> DEFINE path == Path(p)[g]
           next == UpdateStateItem(st, path)
<1> SUFFICES ASSUME NEW s \in DOMAIN next
             PROVE  \E q \in Pages : \E c \in Cards(q) : next[s] = Path(q)[c] /\ next[s][1] = s
  BY DEF Entries
<1>1. CASE s # path[1]
  <2>1. s \in DOMAIN st /\ next[s] = st[s] BY <1>1, OneEntryUpdated
  <2> QED BY <2>1 DEF Entries
<1>2. CASE s = path[1]
  <2>1. Len(path) # 1 /\ next[s] = path BY <1>2, OneEntryUpdated
  <2>2. g \notin Sections[p] BY <2>1, PathProperties
  <2>3. g \in Cards(p) BY <2>2 DEF Grids
  <2> QED BY <1>2, <2>1, <2>3
<1> QED BY <1>1, <1>2

\* A stored path of which the page has the last grid is that grid's path there, and its
\* section is the page's.
LEMMA StoredPathIsThePages ==
    ASSUME NEW st, Entries(st), NEW s \in DOMAIN st,
           NEW p \in Pages, Last(st[s]) \in Grids(p)
    PROVE  /\ st[s] = Path(p)[Last(st[s])]
           /\ s = Path(p)[Last(st[s])][1] /\ s \in Sections[p]
<1>0. PICK q \in Pages : \E c \in Cards(q) : st[s] = Path(q)[c] /\ st[s][1] = s
  BY DEF Entries
<1>1. PICK c \in Cards(q) : st[s] = Path(q)[c] /\ st[s][1] = s BY <1>0
<1>2. c \in Grids(q) BY DEF Grids
<1>3. Last(st[s]) = c BY <1>1, <1>2, PathProperties
<1>4. Path(p)[c] = Path(q)[c] BY <1>2, <1>3, VersionsAssumption
<1>5. Path(p)[c][1] \in Sections[p] BY <1>3, PathProperties
<1> QED BY <1>1, <1>3, <1>4, <1>5

-----------------------------------------------------------------------------
(* The invariant *)

Inv == TypeOK /\ TitleLeadsToCurrent /\ StateLeadsToCurrent

\* A navigation shows the grid, draws the title and remembers the path of one section
\* of one tab.
LEMMA NavigationKeeps ==
    ASSUME Inv, NEW t \in Tabs, Open(t), NEW id, NavigateToGrid(t, id)
    PROVE  Inv'
<1> DEFINE p == page[t]
           path == Path(p)[id]
           s == path[1]
           next == UpdateStateItem(state[t], path)
<1>1. p \in Pages /\ id \in Grids(p) BY DEF Inv, TypeOK, Open, NavigateToGrid
<1>2. /\ s \in Sections[p] /\ Last(path) = id
      /\ id \in Sections[p] => path = <<id>> /\ Len(path) = 1 /\ s = id
      /\ id \in Cards(p) => Len(path) # 1
  BY <1>1, PathProperties
<1>3. /\ \A r : r # s => (r \in DOMAIN next <=> r \in DOMAIN state[t])
      /\ \A r \in DOMAIN state[t] : r # s => next[r] = state[t][r]
      /\ Len(path) = 1 => s \notin DOMAIN next
      /\ Len(path) # 1 => s \in DOMAIN next /\ next[s] = path
  BY OneEntryUpdated
<1>4. page' = page /\ storage' = next
      /\ state' = [state EXCEPT ![t] = next]
      /\ current' = [current EXCEPT ![t][s] = id]
      /\ title' = [title EXCEPT ![t][s] = Drawn(next, s)]
  BY DEF NavigateToGrid
<1>5. /\ DOMAIN state = Tabs /\ DOMAIN current = Tabs /\ DOMAIN title = Tabs
      /\ current[t] \in [Sections[p] -> Grids(p)] /\ DOMAIN title[t] = Sections[p]
  BY DEF Inv, TypeOK
<1>6. Entries(next) BY <1>1, EntriesUpdated DEF Inv, TypeOK
<1> HIDE DEF p, path, s, next
<1>7. /\ state'[t] = next
      /\ current'[t] = [current[t] EXCEPT ![s] = id]
      /\ title'[t] = [title[t] EXCEPT ![s] = Drawn(next, s)]
  BY <1>4, <1>5
<1>8. \A u \in Tabs \ {t} :
        state'[u] = state[u] /\ current'[u] = current[u] /\ title'[u] = title[u]
  BY <1>4, <1>5
<1>9. /\ current'[t][s] = id /\ title'[t][s] = Drawn(next, s)
      /\ \A r \in Sections[p] \ {s} :
            current'[t][r] = current[t][r] /\ title'[t][r] = title[t][r]
  BY <1>2, <1>5, <1>7
<1>10. TypeOK'
  <2>1. DOMAIN state' = Tabs /\ DOMAIN current' = Tabs /\ DOMAIN title' = Tabs
    BY <1>4, <1>5
  <2>2. current'[t] \in [Sections[p] -> Grids(p)] /\ DOMAIN title'[t] = Sections[p]
    <3>1. [current[t] EXCEPT ![s] = id] \in [Sections[p] -> Grids(p)] BY <1>1, <1>5
    <3>2. DOMAIN [title[t] EXCEPT ![s] = Drawn(next, s)] = Sections[p] BY <1>5
    <3> QED BY <1>7, <3>1, <3>2
  <2>3. \A u \in Tabs : Open(u)' => /\ current'[u] \in [Sections[page'[u]] -> Grids(page'[u])]
                                    /\ DOMAIN title'[u] = Sections[page'[u]]
    BY <1>4, <1>8, <2>2 DEF Inv, TypeOK, Open, p
  <2>4. Entries(storage') /\ \A u \in Tabs : Entries(state'[u])
    BY <1>4, <1>6, <1>7, <1>8 DEF Inv, TypeOK
  <2> QED BY <1>4, <2>1, <2>3, <2>4 DEF Inv, TypeOK, Entries
<1>11. TitleLeadsToCurrent'
  <2>1. Drawn(next, s) = path
    <3>1. CASE id \in Sections[p] BY <1>2, <1>3, <3>1 DEF Drawn
    <3>2. CASE id \in Cards(p) BY <1>2, <1>3, <3>2 DEF Drawn
    <3> QED BY <1>1, <3>1, <3>2 DEF Grids
  <2>2. \A r \in Sections[p] : title'[t][r] = Path(p)[current'[t][r]]
    BY <1>9, <2>1 DEF Inv, TitleLeadsToCurrent, p, path
  <2> QED BY <1>4, <1>8, <2>2 DEF Inv, TitleLeadsToCurrent, Open, p
<1>12. StateLeadsToCurrent'
  <2>1. \A r \in Sections[p] :
          IF r \notin DOMAIN next THEN current'[t][r] = r
          ELSE \/ next[r] = Path(p)[current'[t][r]]
               \/ current'[t][r] = r /\ Last(next[r]) \notin Grids(p)
    <3> SUFFICES ASSUME NEW r \in Sections[p]
                 PROVE  IF r \notin DOMAIN next THEN current'[t][r] = r
                        ELSE \/ next[r] = Path(p)[current'[t][r]]
                             \/ current'[t][r] = r /\ Last(next[r]) \notin Grids(p)
      OBVIOUS
    <3>1. CASE r # s BY <1>3, <1>9, <3>1 DEF Inv, StateLeadsToCurrent, p
    <3>2. CASE r = s
      <4>1. CASE id \in Sections[p] BY <1>2, <1>3, <1>9, <3>2, <4>1
      <4>2. CASE id \in Cards(p) BY <1>2, <1>3, <1>9, <3>2, <4>2 DEF path
      <4> QED BY <1>1, <4>1, <4>2 DEF Grids
    <3> QED BY <3>1, <3>2
  <2> QED BY <1>4, <1>7, <1>8, <2>1 DEF Inv, StateLeadsToCurrent, Open, p
<1> QED BY <1>10, <1>11, <1>12 DEF Inv

\* What a load shows: of each section the last grid of its stored path, when the page
\* has that grid, and the main grid otherwise.
LEMMA LoadShows ==
    ASSUME Inv, NEW t \in Tabs, NEW p \in Pages, Load(t, p)
    PROVE  /\ page' = [page EXCEPT ![t] = p]
           /\ current'[t] \in [Sections[p] -> Grids(p)]
           /\ DOMAIN title'[t] = Sections[p]
           /\ storage' = state'[t] /\ DOMAIN state'[t] = DOMAIN storage
           /\ \A s \in Sections[p] :
                /\ title'[t][s] = Path(p)[current'[t][s]]
                /\ IF s \in DOMAIN storage /\ Last(storage[s]) \in Grids(p)
                   THEN current'[t][s] = Last(storage[s]) ELSE current'[t][s] = s
           /\ \A s \in DOMAIN storage : state'[t][s] =
                IF s \in Sections[p] /\ current'[t][s] # s
                THEN Path(p)[current'[t][s]] ELSE storage[s]
           /\ \A u \in Tabs \ {t} :
                state'[u] = state[u] /\ current'[u] = current[u] /\ title'[u] = title[u]
           /\ DOMAIN state' = Tabs /\ DOMAIN current' = Tabs /\ DOMAIN title' = Tabs
<1> DEFINE opened == Restored(p, storage)
           shown == [s \in Sections[p] |->
                       IF \E g \in Grids(p) : <<s, g>> \in opened
                       THEN CHOOSE g \in Grids(p) : <<s, g>> \in opened ELSE s]
<1>1. DOMAIN state = Tabs /\ DOMAIN current = Tabs /\ DOMAIN title = Tabs
  BY DEF Inv, TypeOK
<1>2. /\ page' = [page EXCEPT ![t] = p]
      /\ state' = [state EXCEPT ![t] = Remembered(p, storage, shown)]
      /\ storage' = state'[t]
      /\ current' = [current EXCEPT ![t] = shown]
      /\ title' = [title EXCEPT ![t] = [s \in Sections[p] |-> Path(p)[shown[s]]]]
  BY DEF Load
<1>3. \A s, g : <<s, g>> \in opened <=>
        s \in DOMAIN storage /\ Last(storage[s]) \in Grids(p) /\ g = Last(storage[s])
  BY DEF Restored
<1>4. ASSUME NEW s \in Sections[p]
      PROVE  shown[s] = IF s \in DOMAIN storage /\ Last(storage[s]) \in Grids(p)
                        THEN Last(storage[s]) ELSE s
  BY <1>3
<1>5. DOMAIN shown = Sections[p] /\ shown = [s \in Sections[p] |-> shown[s]] OBVIOUS
<1> HIDE DEF shown, opened
<1>6. shown \in [Sections[p] -> Grids(p)] BY <1>4, <1>5 DEF Grids
<1>7. /\ state'[t] = Remembered(p, storage, shown) /\ current'[t] = shown
      /\ title'[t] = [s \in Sections[p] |-> Path(p)[shown[s]]]
  BY <1>1, <1>2
<1>8. /\ DOMAIN state'[t] = DOMAIN storage
      /\ \A s \in DOMAIN storage : state'[t][s] =
            IF s \in Sections[p] /\ shown[s] # s THEN Path(p)[shown[s]] ELSE storage[s]
  BY <1>7 DEF Remembered
<1> QED BY <1>1, <1>2, <1>4, <1>6, <1>7, <1>8

\* Loading a page keeps the invariant.
LEMMA LoadKeeps ==
    ASSUME Inv, NEW t \in Tabs, NEW p \in Pages, Load(t, p)
    PROVE  Inv'
<1>1. /\ page \in [Tabs -> Pages \cup {"none"}] /\ Entries(storage)
      /\ \A u \in Tabs : Entries(state[u])
  BY DEF Inv, TypeOK
<1>2. page' \in [Tabs -> Pages \cup {"none"}] /\ page'[t] = p
      /\ \A u \in Tabs \ {t} : page'[u] = page[u]
  BY <1>1, LoadShows
\* A path that is restored is written again as it was stored.
<1>3. ASSUME NEW s \in DOMAIN storage PROVE state'[t][s] = storage[s]
  <2>1. CASE s \in Sections[p] /\ current'[t][s] # s
    <3>1. Last(storage[s]) \in Grids(p) /\ current'[t][s] = Last(storage[s])
      BY <2>1, LoadShows
    <3>2. storage[s] = Path(p)[Last(storage[s])] BY <1>1, <3>1, StoredPathIsThePages
    <3> QED BY <2>1, <3>1, <3>2, LoadShows
  <2>2. CASE ~(s \in Sections[p] /\ current'[t][s] # s) BY <2>2, LoadShows
  <2> QED BY <2>1, <2>2
<1>4. Entries(state'[t]) BY <1>1, <1>3, LoadShows DEF Entries
<1>5. TypeOK'
  <2>1. Entries(storage') /\ \A u \in Tabs : Entries(state'[u]) BY <1>1, <1>4, LoadShows
  <2>2. \A u \in Tabs : Open(u)' => /\ current'[u] \in [Sections[page'[u]] -> Grids(page'[u])]
                                    /\ DOMAIN title'[u] = Sections[page'[u]]
    BY <1>2, LoadShows DEF Inv, TypeOK, Open
  <2>3. DOMAIN state' = Tabs /\ DOMAIN current' = Tabs /\ DOMAIN title' = Tabs BY LoadShows
  <2> QED BY <1>2, <2>1, <2>2, <2>3 DEF TypeOK, Entries
<1>6. TitleLeadsToCurrent'
  BY <1>2, LoadShows DEF Inv, TitleLeadsToCurrent, Open
<1>7. StateLeadsToCurrent'
  <2>1. ASSUME NEW s \in Sections[p]
        PROVE  IF s \notin DOMAIN state'[t] THEN current'[t][s] = s
               ELSE \/ state'[t][s] = Path(p)[current'[t][s]]
                    \/ current'[t][s] = s /\ Last(state'[t][s]) \notin Grids(p)
    <3>1. CASE s \notin DOMAIN storage BY <3>1, LoadShows
    <3>2. CASE s \in DOMAIN storage /\ Last(storage[s]) \notin Grids(p)
      BY <1>3, <3>2, LoadShows
    <3>3. CASE s \in DOMAIN storage /\ Last(storage[s]) \in Grids(p)
      BY <1>1, <1>3, <3>3, LoadShows, StoredPathIsThePages
    <3> QED BY <3>1, <3>2, <3>3
  <2> QED BY <1>2, <2>1, LoadShows DEF Inv, StateLeadsToCurrent, Open
<1> QED BY <1>5, <1>6, <1>7 DEF Inv

\* The first page is loaded into empty tabs and an empty storage.
LEMMA InitInv == Init => Inv
<1> SUFFICES ASSUME Init PROVE Inv OBVIOUS
<1>1. \A t \in Tabs : ~Open(t) BY DEF Init, Open
<1>2. Entries(Nothing) BY DEF Entries, Nothing
<1>3. TypeOK BY <1>1, <1>2 DEF Init, TypeOK
<1> QED BY <1>1, <1>3 DEF Inv, TitleLeadsToCurrent, StateLeadsToCurrent

\* Leaving a page and clearing the storage touch no title that is on screen.
LEMMA LeaveKeeps == ASSUME Inv, NEW t \in Tabs, Leave(t) PROVE Inv'
<1>1. Entries(Nothing) BY DEF Entries, Nothing
<1>2. /\ page \in [Tabs -> Pages \cup {"none"}]
      /\ DOMAIN state = Tabs /\ DOMAIN current = Tabs /\ DOMAIN title = Tabs
  BY DEF Inv, TypeOK
<1>3. /\ page' \in [Tabs -> Pages \cup {"none"}] /\ page'[t] = "none" /\ state'[t] = Nothing
      /\ storage' = storage
      /\ DOMAIN state' = Tabs /\ DOMAIN current' = Tabs /\ DOMAIN title' = Tabs
      /\ \A u \in Tabs \ {t} : /\ page'[u] = page[u] /\ state'[u] = state[u]
                               /\ current'[u] = current[u] /\ title'[u] = title[u]
  BY <1>2 DEF Leave
<1>4. \A u \in Tabs : Entries(state'[u]) BY <1>1, <1>3 DEF Inv, TypeOK
<1>5. Entries(storage') BY <1>3 DEF Inv, TypeOK
<1>6. TypeOK' BY <1>3, <1>4, <1>5 DEF Inv, TypeOK, Open, Entries
<1>7. TitleLeadsToCurrent' BY <1>3 DEF Inv, TitleLeadsToCurrent, Open
<1>8. StateLeadsToCurrent' BY <1>3 DEF Inv, StateLeadsToCurrent, Open
<1> QED BY <1>6, <1>7, <1>8 DEF Inv

\* Next is a navigation, a load, a leave or a clear.
LEMMA Steps ==
    ASSUME Next
    PROVE  \/ \E t \in Tabs : Open(t) /\ \E id : NavigateToGrid(t, id)
           \/ \E t \in Tabs : \E p \in Pages : Load(t, p)
           \/ \E t \in Tabs : Leave(t)
           \/ Clear
<1>1. ASSUME NEW t \in Tabs, ClickDeploymentCard(t) \/ ClickBreadcrumb(t) \/ ClickBack(t)
      PROVE  Open(t) /\ \E id : NavigateToGrid(t, id)
  BY <1>1 DEF ClickDeploymentCard, ClickBreadcrumb, ClickBack
<1> QED BY <1>1 DEF Next

LEMMA NextInv == Inv /\ [Next]_vars => Inv'
<1> SUFFICES ASSUME Inv, [Next]_vars PROVE Inv' OBVIOUS
<1>1. CASE \E t \in Tabs : Open(t) /\ \E id : NavigateToGrid(t, id) BY <1>1, NavigationKeeps
<1>2. CASE \E t \in Tabs : \E p \in Pages : Load(t, p) BY <1>2, LoadKeeps
<1>3. CASE \E t \in Tabs : Leave(t) BY <1>3, LeaveKeeps
<1>4. CASE Clear
  <2>1. Entries(Nothing) BY DEF Entries, Nothing
  <2>2. TypeOK' BY <1>4, <2>1 DEF Clear, Inv, TypeOK, Open, Entries
  <2> QED BY <1>4, <2>2 DEF Clear, Inv, TitleLeadsToCurrent, StateLeadsToCurrent, Open
<1>5. CASE UNCHANGED vars
  BY <1>5 DEF vars, Inv, TypeOK, Entries, TitleLeadsToCurrent, StateLeadsToCurrent, Open
<1> QED BY <1>1, <1>2, <1>3, <1>4, <1>5, Steps

-----------------------------------------------------------------------------

\* The invariant that says titles, state and storage agree.
THEOREM IndInvariant == Spec => []Inv
<1>1. Init => Inv BY InitInv
<1>2. Inv /\ [Next]_vars => Inv' BY NextInv
<1> QED BY <1>1, <1>2, PTL DEF Spec

\* Every entry in memory or in the storage is the path of a card of some page below
\* its section, and what a page shows are grids of its own.
THEOREM TypeCorrect == Spec => []TypeOK
<1>1. Inv => TypeOK BY DEF Inv
<1> QED BY <1>1, IndInvariant, PTL

\* The title of a section leads to the grid that it shows (drawTitle and navigateToGrid).
THEOREM TitlesLeadToCurrent == Spec => []TitleLeadsToCurrent
<1>1. Inv => TitleLeadsToCurrent BY DEF Inv
<1> QED BY <1>1, IndInvariant, PTL

\* The state has the path to the grid shown, or one that the page does not have
\* (recalculateSectionTitleState and updateStateItem).
THEOREM StatesLeadToCurrent == Spec => []StateLeadsToCurrent
<1>1. Inv => StateLeadsToCurrent BY DEF Inv
<1> QED BY <1>1, IndInvariant, PTL

\* A page that is loaded again shows what it showed, when the storage holds its state:
\* a path that leads to what is shown is restored, any other leads nowhere.
THEOREM ReloadsRestore == Spec => ReloadRestores
<1>1. ASSUME Inv, NEW t \in Tabs, Open(t), storage = state[t], Load(t, page[t])
      PROVE  current'[t] = current[t]
  <2> DEFINE p == page[t]
  <2>1. p \in Pages /\ current[t] \in [Sections[p] -> Grids(p)]
    BY <1>1 DEF Inv, TypeOK, Open
  <2>2. current'[t] \in [Sections[p] -> Grids(p)] BY <1>1, <2>1, LoadShows
  <2>3. ASSUME NEW s \in Sections[p] PROVE current'[t][s] = current[t][s]
    <3>1. current[t][s] \in Grids(p) BY <2>1
    <3>2. CASE s \notin DOMAIN storage
      BY <1>1, <2>1, <3>2, LoadShows DEF Inv, StateLeadsToCurrent
    <3>3. CASE s \in DOMAIN storage /\ storage[s] = Path(p)[current[t][s]]
      <4>1. Last(storage[s]) = current[t][s] BY <2>1, <3>1, <3>3, PathProperties
      <4> QED BY <1>1, <2>1, <3>1, <3>3, <4>1, LoadShows
    <3>4. CASE s \in DOMAIN storage /\ current[t][s] = s /\ Last(storage[s]) \notin Grids(p)
      BY <1>1, <2>1, <3>4, LoadShows
    <3> QED BY <1>1, <3>2, <3>3, <3>4 DEF Inv, StateLeadsToCurrent
  <2> QED BY <2>1, <2>2, <2>3
<1>2. Inv => [\A t \in Tabs : Open(t) /\ storage = state[t] /\ Load(t, page[t])
                => current'[t] = current[t]]_vars
  BY <1>1
<1> QED BY <1>2, IndInvariant, PTL DEF ReloadRestores

\* A load or a click writes no path of a section that the open pages do not have.
THEOREM OthersAreKept == Spec => OtherVersionsKept
<1> DEFINE Kept ==
      (\A t \in Tabs : Open(t) => state[t] = storage) /\ ~Clear =>
        \A s \in DOMAIN storage :
            (\A t \in Tabs : page'[t] # "none" => s \notin Sections[page'[t]])
                => s \in DOMAIN storage' /\ storage'[s] = storage[s]
<1>1. ASSUME Inv, [Next]_vars PROVE Kept
  <2> SUFFICES ASSUME \A t \in Tabs : Open(t) => state[t] = storage, ~Clear,
                      NEW s \in DOMAIN storage,
                      \A t \in Tabs : page'[t] # "none" => s \notin Sections[page'[t]]
               PROVE  s \in DOMAIN storage' /\ storage'[s] = storage[s]
    OBVIOUS
  <2>1. CASE \E t \in Tabs : Open(t) /\ \E id : NavigateToGrid(t, id)
    <3>1. PICK t \in Tabs : Open(t) /\ \E id : NavigateToGrid(t, id) BY <2>1
    <3>2. PICK id : NavigateToGrid(t, id) BY <3>1
    <3> DEFINE path == Path(page[t])[id]
    <3>3. page[t] \in Pages /\ id \in Grids(page[t])
      BY <1>1, <3>1, <3>2 DEF Inv, TypeOK, Open, NavigateToGrid
    <3>4. path[1] \in Sections[page[t]] BY <3>3, PathProperties
    <3>5. s # path[1] BY <3>1, <3>2, <3>4 DEF Open, NavigateToGrid
    <3>6. storage' = UpdateStateItem(storage, path) BY <3>1, <3>2 DEF NavigateToGrid
    <3> QED BY <3>5, <3>6, OneEntryUpdated
  <2>2. CASE \E t \in Tabs : \E p \in Pages : Load(t, p)
    <3>1. PICK t \in Tabs : \E p \in Pages : Load(t, p) BY <2>2
    <3>2. PICK p \in Pages : Load(t, p) BY <3>1
    <3>3. page'[t] = p BY <1>1, <3>2, LoadShows DEF Inv, TypeOK
    <3>4. p # "none" BY PagesAssumption
    <3> QED BY <1>1, <3>2, <3>3, <3>4, LoadShows
  <2>3. CASE \E t \in Tabs : Leave(t) BY <2>3 DEF Leave
  <2>4. CASE UNCHANGED vars BY <2>4 DEF vars
  <2> QED BY <1>1, <2>1, <2>2, <2>3, <2>4, Steps
<1>2. Inv /\ [Next]_vars => [Kept]_vars BY <1>1
<1> HIDE DEF Kept
<1>3. Spec => [][Kept]_vars BY <1>2, IndInvariant, PTL DEF Spec
<1> QED BY <1>3 DEF Kept, OtherVersionsKept

=============================================================================
