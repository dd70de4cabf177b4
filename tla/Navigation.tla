------------------------------ MODULE Navigation ------------------------------
(***************************************************************************)
(* The deployment options of the documentation site                        *)
(* (src/stylesheets/supported-platforms.js).  A page has sections, each    *)
(* with a main grid of cards and grids nested under its cards, one of them *)
(* shown.  What is shown is kept per section as a path of ids, in the      *)
(* memory of the tab and in the entry 'do' of localStorage, which all tabs *)
(* share, and with them the pages of all versions of the documentation.    *)
(*                                                                         *)
(* A grid is named by what its data-for names: its card, or its section's  *)
(* title for the main grid.  Every script of the page runs to its end      *)
(* before another event, so a click and a load are one step each.          *)
(***************************************************************************)
EXTENDS Naturals, Sequences, SequencesExt

CONSTANTS
    Tabs,
    Pages,
    Sections,   \* of each page: the ids of the titles of its sections
    Parent      \* of each page: for each card with a grid, the grid it is in

Cards(p) == DOMAIN Parent[p]
Grids(p) == Sections[p] \cup Cards(p)

\* From the section down to the grid, the parts a title shows.
Path(p) ==
    LET path[g \in Grids(p)] ==
            IF g \in Sections[p] THEN <<g>> ELSE Append(path[Parent[p][g]], g)
    IN  path

\* The ids of a page are its own, and its grids are a tree below each section: no set
\* with the sections, and with each card the grid of which it has, leaves one out.
ASSUME PagesAssumption ==
    /\ "none" \notin Pages
    /\ \A p \in Pages :
        /\ Cards(p) \cap Sections[p] = {}
        /\ \A c \in Cards(p) : Parent[p][c] \in Grids(p)
        /\ \A S \in SUBSET Grids(p) :
            Sections[p] \subseteq S /\ (\A c \in Cards(p) : Parent[p][c] \in S => c \in S)
                => S = Grids(p)

\* The pages of two versions agree on where a card is that both have; each may have
\* sections and cards the other has not.
ASSUME VersionsAssumption ==
    \A p, q \in Pages : \A c \in Grids(p) \cap Grids(q) : Path(p)[c] = Path(q)[c]

VARIABLES
    page,       \* each tab's page, or "none"
    state,      \* each tab's state: from sections to paths
    current,    \* each tab's [data-current] grid, by section
    title,      \* the parts each section's title shows
    storage     \* the entry 'do' of localStorage

vars == <<page, state, current, title, storage>>

Nothing == [s \in {} |-> <<>>]
Open(t) == page[t] # "none"

Init ==
    /\ page = [t \in Tabs |-> "none"]
    /\ state = [t \in Tabs |-> Nothing]
    /\ current = [t \in Tabs |-> Nothing]
    /\ title = [t \in Tabs |-> Nothing]
    /\ storage = Nothing

-----------------------------------------------------------------------------

\* The state with a section's entry set to its path.
Set(st, path) ==
    [s \in DOMAIN st \cup {path[1]} |-> IF s = path[1] THEN path ELSE st[s]]

\* Mutant: the entry of a section that is back at its main grid is kept.
UpdateStateItem_Kept(st, value) == IF Len(value) = 1 THEN st ELSE Set(st, value)

\* Mutant: an entry for every section, also at its main grid.
UpdateStateItem_Always(st, value) == Set(st, value)

UpdateStateItem(st, value) ==
    IF Len(value) = 1 THEN [s \in DOMAIN st \ {value[1]} |-> st[s]] ELSE Set(st, value)

\* What drawTitle makes of a section's entry.
Drawn(st, s) == IF s \in DOMAIN st THEN st[s] ELSE <<s>>

\* Mutant: the title is drawn before the state is updated.
NavigateToGrid_DrawsFirst(t, id) ==
    /\ id \in Grids(page[t])
    /\ LET path == Path(page[t])[id]
           s == path[1]
           next == UpdateStateItem(state[t], path)
       IN  /\ current' = [current EXCEPT ![t][s] = id]
           /\ state' = [state EXCEPT ![t] = next]
           /\ storage' = next
           /\ title' = [title EXCEPT ![t][s] = Drawn(state[t], s)]
    /\ UNCHANGED page

\* navigateToGrid: the whole of the tab's state is stored, not the entry alone.
NavigateToGrid(t, id) ==
    /\ id \in Grids(page[t])
    /\ LET path == Path(page[t])[id]
           s == path[1]
           next == UpdateStateItem(state[t], path)
       IN  /\ current' = [current EXCEPT ![t][s] = id]
           /\ state' = [state EXCEPT ![t] = next]
           /\ storage' = next
           /\ title' = [title EXCEPT ![t][s] = Drawn(next, s)]
    /\ UNCHANGED page

\* A card of the grid that a section shows.
ClickDeploymentCard(t) ==
    /\ Open(t)
    /\ \E c \in Cards(page[t]) :
        /\ \E s \in Sections[page[t]] : Parent[page[t]][c] = current[t][s]
        /\ NavigateToGrid(t, c)

\* A part of a title before its last.
ClickBreadcrumb(t) ==
    /\ Open(t)
    /\ \E s \in Sections[page[t]] : \E i \in 1..(Len(title[t][s]) - 1) :
        NavigateToGrid(t, title[t][s][i])

\* The grid of the card that the grid shown belongs to.
ClickBack(t) ==
    /\ Open(t)
    /\ \E s \in Sections[page[t]] :
        /\ current[t][s] \in Cards(page[t])
        /\ NavigateToGrid(t, Parent[page[t]][current[t][s]])

\* Mutant: the first part below the section is opened.
Restored_First(p, st) == {<<s, st[s][2]>> : s \in {r \in DOMAIN st : st[r][2] \in Grids(p)}}

\* The sections and grids that the loop over the stored paths opens: of each path
\* the last part, when the page has a grid for it.
Restored(p, st) == {<<s, Last(st[s])>> : s \in {r \in DOMAIN st : Last(st[r]) \in Grids(p)}}

\* Mutant: the state is made anew of the paths that were restored.
Remembered_Restored(p, st, shown) ==
    [s \in {r \in Sections[p] : shown[r] # r} |-> Path(p)[shown[s]]]

\* The state when the stored paths have been navigated.
Remembered(p, st, shown) ==
    [s \in DOMAIN st |->
        IF s \in Sections[p] /\ shown[s] # s THEN Path(p)[shown[s]] ELSE st[s]]

\* A page is loaded, or loaded again.  Its pages being as VersionsAssumption says, the
\* loop opens at most one grid of a section, and writes what it has read.
Load(t, p) ==
    LET opened == Restored(p, storage)
        shown == [s \in Sections[p] |->
                    IF \E g \in Grids(p) : <<s, g>> \in opened
                    THEN CHOOSE g \in Grids(p) : <<s, g>> \in opened ELSE s]
    IN  /\ page' = [page EXCEPT ![t] = p]
        /\ state' = [state EXCEPT ![t] = Remembered(p, storage, shown)]
        /\ storage' = state'[t]
        /\ current' = [current EXCEPT ![t] = shown]
        /\ title' = [title EXCEPT ![t] = [s \in Sections[p] |-> Path(p)[shown[s]]]]

Leave(t) ==
    /\ Open(t)
    /\ page' = [page EXCEPT ![t] = "none"]
    /\ state' = [state EXCEPT ![t] = Nothing]
    /\ current' = [current EXCEPT ![t] = Nothing]
    /\ title' = [title EXCEPT ![t] = Nothing]
    /\ UNCHANGED storage

\* The reader, or the browser, clears the storage; open tabs do not see it.
Clear ==
    /\ storage # Nothing
    /\ storage' = Nothing
    /\ UNCHANGED <<page, state, current, title>>

Next ==
    \/ \E t \in Tabs :
        \/ ClickDeploymentCard(t) \/ ClickBreadcrumb(t) \/ ClickBack(t) \/ Leave(t)
        \/ \E p \in Pages : Load(t, p)
    \/ Clear

Spec == Init /\ [][Next]_vars

-----------------------------------------------------------------------------
(* Properties *)

\* What is in memory, or stored: paths below a section, of some page.
Entries(st) ==
    \A s \in DOMAIN st : \E p \in Pages : \E c \in Cards(p) :
        st[s] = Path(p)[c] /\ st[s][1] = s

TypeOK ==
    /\ page \in [Tabs -> Pages \cup {"none"}]
    /\ DOMAIN state = Tabs /\ DOMAIN current = Tabs /\ DOMAIN title = Tabs
    /\ \A t \in Tabs : Open(t) =>
        /\ current[t] \in [Sections[page[t]] -> Grids(page[t])]
        /\ DOMAIN title[t] = Sections[page[t]]
    /\ Entries(storage) /\ \A t \in Tabs : Entries(state[t])

\* The title of a section leads to the grid that it shows, whichever of cards, titles,
\* back buttons and stored paths brought the reader there.
TitleLeadsToCurrent ==
    \A t \in Tabs : Open(t) =>
        \A s \in Sections[page[t]] : title[t][s] = Path(page[t])[current[t][s]]

\* The state of a tab has for a section the path to the grid that it shows, or, until
\* it is navigated, a path that this version of the page does not have.
StateLeadsToCurrent ==
    \A t \in Tabs : Open(t) =>
        \A s \in Sections[page[t]] :
            IF s \notin DOMAIN state[t] THEN current[t][s] = s
            ELSE \/ state[t][s] = Path(page[t])[current[t][s]]
                 \/ current[t][s] = s /\ Last(state[t][s]) \notin Grids(page[t])

\* Loading a page again shows what it showed, as long as no other tab stored another
\* state in between: also after a way back, and after pages of other versions.
ReloadRestores ==
    [][\A t \in Tabs : Open(t) /\ storage = state[t] /\ Load(t, page[t])
          => current'[t] = current[t]]_vars

\* A page keeps what is stored for sections that only other versions have, while no tab
\* holds an older state: neither a load nor a click on that page loses their paths.
OtherVersionsKept ==
    [][(\A t \in Tabs : Open(t) => state[t] = storage) /\ ~Clear =>
        \A s \in DOMAIN storage :
            (\A t \in Tabs : page'[t] # "none" => s \notin Sections[page'[t]])
                => s \in DOMAIN storage' /\ storage'[s] = storage[s]]_vars

=============================================================================
