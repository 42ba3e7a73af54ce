--------------------------- MODULE DesignerEditing ---------------------------
(***************************************************************************)
(* The editor of the designer: a tree of layouts and regions, one tab for  *)
(* the deployment and one per layout, and on each tab a command stack of   *)
(* its own. Every action of the user runs on the stack of the active tab   *)
(* (DelegatingCommandStack), whatever element is selected in the outline.  *)
(* The editor keeps its tabs in step with the layouts of the tree by       *)
(* property changes and shows whether there is something to save.          *)
(*                                                                         *)
(* The command stack is GEF's, the tab folder SWT's: both are external. A  *)
(* selection is one element; components, which a region holds the way a    *)
(* layout holds regions, property values and Save As are left out.         *)
(***************************************************************************)
EXTENDS Integers, SequencesExt

CONSTANTS
    Layouts, Regions,   \* every layout and region there may be
    Dep, Nil,           \* the deployment; no element
    Opened,             \* the layouts of the file, in order
    OpenedIn,           \* the regions of each of them
    MaxCommands         \* bound: commands a user gives

ASSUME OpenedAssumption ==
    /\ Opened \in Seq(Layouts) /\ IsInjective(Opened)
    /\ OpenedIn \in [Layouts -> SUBSET Regions]
    /\ \A l, m \in Layouts : l # m => OpenedIn[l] \cap OpenedIn[m] = {}
    /\ \A l \in Layouts \ Range(Opened) : OpenedIn[l] = {}
    /\ MaxCommands \in Nat

ASSUME ElementsAssumption ==
    /\ IsFiniteSet(Layouts) /\ IsFiniteSet(Regions)
    /\ Layouts \cap Regions = {}
    /\ Dep # Nil /\ {Dep, Nil} \cap (Layouts \cup Regions) = {}

Elements == Layouts \cup Regions
Holders == Layouts \cup {Dep}

\* A command on a stack: what it does, to which element, and the element that
\* holds it; of a deletion, Nil when nothing could be removed.
Command ==
    [op : {"create", "paste", "delete", "up", "down", "none"},
     e : Elements \cup {Dep}, at : Holders \cup {Nil}]

\* A tab: what it shows and the stack of its editor. saved is the length of
\* the undo list when the stack was last marked as saved, -1 if that is gone.
Tab == [shows : Holders, undo : Seq(Command), redo : Seq(Command), saved : Int]
NewTab(h) == [shows |-> h, undo |-> <<>>, redo |-> <<>>, saved |-> 0]

VARIABLES
    ed,      \* the tree and the tabs, see Init
    dirty,   \* isDirty of the editor
    file,    \* the regions of each layout as last saved
    made,    \* elements that have been created
    given,   \* commands given
    worked,  \* history: the tabs on which the user changed or saved something
    lost,    \* history: a tab the user worked on was closed
    failed   \* a command threw, or an element is listed twice: the model stops

vars == <<ed, dirty, file, made, given, worked, lost, failed>>

\* The content that is saved, siblings unordered.
Content(s) == [l \in Range(s.kids[Dep]) |-> Range(s.kids[l])]

\* kids, up: the children of an element and its parent; tabs, active: the tab
\* folder; page: pagesMap, the index of a layout's tab, 0 if it has none;
\* closed: the tabs closed in this step.
Init ==
    /\ ed = [kids   |-> [h \in Holders |-> IF h = Dep THEN Opened
                                           ELSE SetToSeq(OpenedIn[h])],
             up     |-> [e \in Elements \cup {Dep} |->
                            IF e \in Range(Opened) THEN Dep
                            ELSE LET in == {l \in Range(Opened) : e \in OpenedIn[l]}
                                 IN  IF in = {} THEN Nil ELSE CHOOSE l \in in : TRUE],
             tabs   |-> <<NewTab(Dep)>> \o [i \in DOMAIN Opened |-> NewTab(Opened[i])],
             page   |-> [l \in Layouts |-> IF l \in Range(Opened)
                                           THEN CHOOSE i \in DOMAIN Opened : Opened[i] = l
                                           ELSE 0],
             active |-> 1,
             closed |-> {}]
    /\ dirty = FALSE
    /\ file = Content(ed)
    /\ made = Range(Opened) \cup UNION {OpenedIn[l] : l \in Range(Opened)}
    /\ given = 0
    /\ worked = {}
    /\ lost = FALSE
    /\ failed = FALSE

-----------------------------------------------------------------------------
(* The tab folder. Index 0 of the code is tabs[1], the deployment's. *)

AddPage(s, i, l) ==
    [s EXCEPT !.tabs = InsertAt(@, i + 1, NewTab(l)),
              !.page[l] = i,
              !.active = IF @ > i THEN @ + 1 ELSE @]

\* Closing the active tab selects the one on its left.
RemovePage(s, i) ==
    [s EXCEPT !.tabs = RemoveAt(@, i + 1),
              !.active = IF @ > i THEN @ - 1 ELSE @,
              !.closed = @ \cup {s.tabs[i + 1].shows}]

LayoutAdded(s, l) == AddPage(s, Cardinality({c \in Layouts : s.page[c] # 0}) + 1, l)

\* A bug to try: the tabs behind a closed one keep their number.
LayoutRemovedAlone(s, l) == [RemovePage(s, s.page[l]) EXCEPT !.page[l] = 0]

LayoutRemoved(s, l) ==
    LET i == s.page[l]
    IN  [RemovePage(s, i) EXCEPT
            !.page = [c \in Layouts |-> IF c = l THEN 0
                                        ELSE IF @[c] > i THEN @[c] - 1 ELSE @[c]]]

\* A moved layout changes place with the neighbour and gets a new tab, with a
\* new editor and a new stack; by is 1 down and -1 up.
LayoutMoved(s, l, by) ==
    LET i == s.page[l]
        swapped == [s EXCEPT !.page = [c \in Layouts |-> IF @[c] = i + by /\ c # l
                                                         THEN i ELSE @[c]]]
    IN  AddPage(RemovePage(swapped, i), i + by, l)

-----------------------------------------------------------------------------
(* The tree: add, removeChild, moveChildUp and moveChildDown. *)

Added(s, p, e) ==
    LET t == [s EXCEPT !.kids[p] = Append(@, e), !.up[e] = p]
    IN  IF p = Dep THEN LayoutAdded(t, e) ELSE t

\* A bug to try: the removed element keeps its parent.
RemovedOnly(s, p, e) ==
    LET t == [s EXCEPT !.kids[p] = RemoveFirst(@, e)]
    IN  IF e \notin Range(s.kids[p]) THEN s
        ELSE IF p = Dep THEN LayoutRemoved(t, e) ELSE t

Removed(s, p, e) ==
    LET t == [s EXCEPT !.kids[p] = RemoveFirst(@, e), !.up[e] = Nil]
    IN  IF e \notin Range(s.kids[p]) THEN s
        ELSE IF p = Dep THEN LayoutRemoved(t, e) ELSE t

PlaceOf(s, p, e) == SelectInSeq(s.kids[p], LAMBDA x : x = e)

Moved(s, p, e, by) ==
    LET i == PlaceOf(s, p, e)
        t == [s EXCEPT !.kids[p] = InsertAt(RemoveAt(@, i), i + by, e)]
    IN  IF i = 0 \/ i + by \notin DOMAIN s.kids[p] THEN s
        ELSE IF p = Dep THEN LayoutMoved(t, e, by) ELSE t

By(op) == IF op = "down" THEN 1 ELSE -1

\* What redo and undo of a command do to the tree. A moved element that has no
\* parent any more makes both throw: Throws.
Throws(s, c) == c.op \in {"up", "down"} /\ s.up[c.e] = Nil

Redone(s, c) ==
    CASE c.op \in {"create", "paste"}       -> Added(s, c.at, c.e)
      [] c.op = "delete" /\ s.up[c.e] # Nil -> Removed(s, s.up[c.e], c.e)
      [] c.op \in {"up", "down"}            -> Moved(s, s.up[c.e], c.e, By(c.op))
      [] OTHER                              -> s

\* A deletion remembers the parent it took the element from.
Remembered(s, c) == IF c.op = "delete" THEN [c EXCEPT !.at = s.up[c.e]] ELSE c

\* A bug to try: the undo of a deletion adds a layout only.
UndoneLayouts(s, c) ==
    CASE c.op = "create"                    -> Removed(s, c.at, c.e)
      [] c.op = "paste" /\ s.up[c.e] # Nil  -> Removed(s, s.up[c.e], c.e)
      [] c.op = "delete" /\ c.at = Dep      -> Added(s, c.at, c.e)
      [] c.op \in {"up", "down"}            -> Moved(s, s.up[c.e], c.e, -By(c.op))
      [] OTHER                              -> s

Undone(s, c) ==
    CASE c.op = "create"                    -> Removed(s, c.at, c.e)
      [] c.op = "paste" /\ s.up[c.e] # Nil  -> Removed(s, s.up[c.e], c.e)
      [] c.op = "delete" /\ c.at # Nil      -> Added(s, c.at, c.e)
      [] c.op \in {"up", "down"}            -> Moved(s, s.up[c.e], c.e, -By(c.op))
      [] OTHER                              -> s

\* canUndo of a command: a deletion that removed nothing cannot be undone.
CanUndo(c) == ~(c.op = "delete" /\ c.at = Nil)

-----------------------------------------------------------------------------
(* The stacks. *)

IsDirty(tab) == Len(tab.undo) # tab.saved
Current == ed.tabs[ed.active]

\* A bug to try: only the stack that has changed is asked.
ShownByCurrent(s) == IsDirty(s.tabs[s.active])

\* commandStackChanged: the editor is dirty if one of its stacks is.
Shown(s) == \E i \in DOMAIN s.tabs : IsDirty(s.tabs[i])

\* A stack changes to tab, and tells the editor, unless its tab was closed by
\* the command itself: then nobody listens and the stack is gone.
Ends(s, tab) ==
    LET i == SelectInSeq(s.tabs, LAMBDA t : t.shows = tab.shows)
        t == IF tab.shows \in s.closed THEN s ELSE [s EXCEPT !.tabs[i] = tab]
    IN  /\ ed' = [t EXCEPT !.closed = {}]
        /\ dirty' = IF tab.shows \in s.closed THEN dirty ELSE Shown(t)
        /\ worked' = worked \cup {tab.shows}
        /\ lost' = (lost \/ s.closed \cap worked' # {})
        /\ failed' = \E h \in Holders : ~IsInjective(s.kids[h])

\* CommandStack.execute
Execute(s, c) ==
    /\ ~failed
    /\ given < MaxCommands
    /\ given' = given + 1
    /\ Ends(Redone(s, c),
            [Current EXCEPT !.undo = Append(@, Remembered(s, c)),
                            !.redo = <<>>,
                            !.saved = IF @ > Len(Current.undo) THEN -1 ELSE @])
    /\ UNCHANGED file

\* The command threw: it is off its stack, and nobody is told.
Fails(tab) ==
    /\ ed' = [ed EXCEPT !.tabs[ed.active] = tab]
    /\ worked' = worked \cup {tab.shows}
    /\ failed' = TRUE
    /\ UNCHANGED <<dirty, lost>>

\* UndoAction and CommandStack.undo
Undo ==
    /\ ~failed
    /\ Current.undo # <<>>
    /\ LET c == Last(Current.undo)
           popped == [Current EXCEPT !.undo = Front(@)]
       IN  /\ CanUndo(c)
           /\ IF Throws(ed, c)
              THEN Fails(popped)
              ELSE Ends(Undone(ed, c), [popped EXCEPT !.redo = Append(@, c)])
    /\ UNCHANGED <<file, made, given>>

\* RedoAction and CommandStack.redo
Redo ==
    /\ ~failed
    /\ Current.redo # <<>>
    /\ LET c == Last(Current.redo)
           popped == [Current EXCEPT !.redo = Front(@)]
       IN  IF Throws(ed, c)
           THEN Fails(popped)
           ELSE Ends(Redone(ed, c),
                     [popped EXCEPT !.undo = Append(@, Remembered(ed, c))])
    /\ UNCHANGED <<file, made, given>>

-----------------------------------------------------------------------------
(* The actions of the user. *)

Listed == Range(ed.kids[Dep]) \cup UNION {Range(ed.kids[l]) : l \in Range(ed.kids[Dep])}
NewLayout == CHOOSE l \in Layouts : l \notin made
NewRegions(n) == SubSeq(SetToSeq(Regions \ made), 1, n)

\* CreateLayoutAction, with the deployment selected.
CreateLayout ==
    /\ ~ (Layouts \subseteq made)
    /\ Execute(ed, [op |-> "create", e |-> NewLayout, at |-> Dep])
    /\ made' = made \cup {NewLayout}

\* A region drawn on the tab of a layout.
CreateRegion ==
    /\ Current.shows # Dep
    /\ ~ (Regions \subseteq made)
    /\ Execute(ed, [op |-> "create", e |-> NewRegions(1)[1], at |-> Current.shows])
    /\ made' = made \cup Range(NewRegions(1))

\* Delete and Cut of an element in the outline, the deployment itself included.
Delete(e) ==
    /\ e \in Listed \cup {Dep}
    /\ Execute(ed, [op |-> "delete", e |-> e, at |-> Nil])
    /\ UNCHANGED made

\* Delete Layout looks for layouts among edit parts, finds none and does
\* nothing, and is on the stack all the same.
DeleteLayout(l) ==
    /\ l \in Range(ed.kids[Dep])
    /\ Execute(ed, [op |-> "none", e |-> l, at |-> Dep])
    /\ UNCHANGED made

Move(e, op) ==
    /\ e \in Listed
    /\ ed.up[e] # Nil
    /\ PlaceOf(ed, ed.up[e], e) + By(op) \in DOMAIN ed.kids[ed.up[e]]
    /\ Execute(ed, [op |-> op, e |-> e, at |-> Nil])
    /\ UNCHANGED made

\* Paste of a copied or cut region into a layout. The copy is a new element.
PasteRegion(src, l) ==
    /\ src \in made \cap Regions
    /\ l \in Range(ed.kids[Dep])
    /\ ~ (Regions \subseteq made)
    /\ Execute(ed, [op |-> "paste", e |-> NewRegions(1)[1], at |-> l])
    /\ made' = made \cup Range(NewRegions(1))

\* Paste of a layout. deepCopy fills the list of the copy, whose regions do
\* not learn of their parent.
PasteLayout(src) ==
    LET n == Len(ed.kids[src])
    IN  /\ src \in made
        /\ ~ (Layouts \subseteq made)
        /\ Cardinality(Regions \ made) >= n
        /\ Execute([ed EXCEPT !.kids[NewLayout] = NewRegions(n)],
                   [op |-> "paste", e |-> NewLayout, at |-> Dep])
        /\ made' = made \cup {NewLayout} \cup Range(NewRegions(n))

\* doSave, which the workbench offers for a dirty editor: the whole tree is
\* written, the stack of the active tab is marked as saved.
Save ==
    /\ ~failed
    /\ dirty
    /\ file' = Content(ed)
    /\ Ends(ed, [Current EXCEPT !.saved = Len(Current.undo)])
    /\ UNCHANGED <<made, given>>

\* A click on a tab.
SelectTab(i) ==
    /\ i \in DOMAIN ed.tabs
    /\ ed' = [ed EXCEPT !.active = i]
    /\ UNCHANGED <<dirty, file, made, given, worked, lost, failed>>

Next ==
    \/ CreateLayout
    \/ CreateRegion
    \/ \E e \in Elements \cup {Dep} : Delete(e)
    \/ \E l \in Layouts : DeleteLayout(l) \/ PasteLayout(l)
    \/ \E e \in Elements, op \in {"up", "down"} : Move(e, op)
    \/ \E src \in Regions, l \in Layouts : PasteRegion(src, l)
    \/ Undo
    \/ Redo
    \/ Save
    \/ \E i \in 1..(Cardinality(Layouts) + 1) : SelectTab(i)

Spec == Init /\ [][Next]_vars

-----------------------------------------------------------------------------
(* Properties. *)

\* The tabs are those of the deployment's layouts, in their order, one of them
\* is selected, and the map of the editor knows the place of each, however
\* layouts are created, moved, deleted and brought back from whichever tab.
TabsFollowLayouts ==
    ~failed =>
        /\ ed.active \in DOMAIN ed.tabs
        /\ [i \in DOMAIN ed.tabs |-> ed.tabs[i].shows] = <<Dep>> \o ed.kids[Dep]
        /\ \A l \in Layouts : ed.page[l] = PlaceOf(ed, Dep, l)

\* A tab with something to save is enough for the editor to offer the save.
DirtyTabShows == ~failed /\ Shown(ed) => dirty

\* Undo and redo on one tab never list an element twice, and an element that
\* has a parent is in its list.
ListedOnce ==
    Cardinality(worked) <= 1 =>
        /\ \A e \in Elements :
            /\ \A p, q \in Holders :
                e \in Range(ed.kids[p]) \cap Range(ed.kids[q]) => p = q
            /\ ed.up[e] # Nil => e \in Range(ed.kids[ed.up[e]])
        /\ \A p \in Holders : IsInjective(ed.kids[p])

\* An editor with nothing to save shows what is in the file, however the user
\* creates, deletes, moves, undoes, redoes and saves, as long as that is on
\* one tab, and the tab is not closed. Siblings may have another order.
CleanIsSaved ==
    ~dirty /\ ~lost /\ Cardinality(worked) <= 1 => file = Content(ed)
=============================================================================
