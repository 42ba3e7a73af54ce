----------------------- MODULE DesignerEditing_proofs -----------------------
(***************************************************************************)
(* For any layouts, regions and commands: the tabs of the editor are those *)
(* of the layouts, one with something to save shows (DirtyCorrect), a      *)
(* layout is listed once (ListedOnceCorrect), and a tab with nothing to    *)
(* save shows what the file says (CleanCorrect).  The last two follow the  *)
(* trees that the commands of a tab have made, one after the other.        *)
(***************************************************************************)
EXTENDS DesignerEditing, FiniteSetTheorems, TLAPS

-----------------------------------------------------------------------------
(* Sequences: where something is, and what is taken out or put in.         *)

LEMMA MinOfOne == ASSUME NEW i \in Nat PROVE Min({i}) = i
BY DEF Min

LEMMA PlaceOfListed ==
    ASSUME NEW s, NEW p, NEW e, s.kids[p] \in Seq(Elements),
           IsInjective(s.kids[p]), NEW i \in 1 .. Len(s.kids[p]),
           s.kids[p][i] = e
    PROVE  PlaceOf(s, p, e) = i
<1> DEFINE q == s.kids[p]
<1>1. {j \in 1 .. Len(q) : q[j] = e} = {i}
  BY DEF IsInjective
<1>2. i \in Nat
  OBVIOUS
<1> QED
  BY <1>1, <1>2, MinOfOne DEF PlaceOf, SelectInSeq

LEMMA PlaceOfOthers ==
    ASSUME NEW s, NEW p, NEW e, s.kids[p] \in Seq(Elements),
           e \notin Range(s.kids[p])
    PROVE  PlaceOf(s, p, e) = 0
<1>1. {j \in 1 .. Len(s.kids[p]) : s.kids[p][j] = e} = {}
  BY DEF Range
<1> QED
  BY <1>1 DEF PlaceOf, SelectInSeq

LEMMA RemoveFirstIs ==
    ASSUME NEW S, NEW q \in Seq(S), IsInjective(q), NEW i \in 1 .. Len(q)
    PROVE  RemoveFirst(q, q[i]) = RemoveAt(q, i)
<1>1. {j \in 1 .. Len(q) : q[j] = q[i]} = {i}
  BY DEF IsInjective
<1>2. i \in Nat
  OBVIOUS
<1> QED
  BY <1>1, <1>2, MinOfOne DEF RemoveFirst, SelectInSeq

LEMMA Joined ==
    ASSUME NEW S, NEW a \in Seq(S), NEW b \in Seq(S)
    PROVE  a \o b \in Seq(S) /\ Len(a \o b) = Len(a) + Len(b)
OBVIOUS

LEMMA RemoveAtIs ==
    ASSUME NEW S, NEW q \in Seq(S), NEW i \in 1 .. Len(q)
    PROVE  /\ RemoveAt(q, i) \in Seq(S)
           /\ Len(RemoveAt(q, i)) = Len(q) - 1
           /\ \A j \in 1 .. (i - 1) : RemoveAt(q, i)[j] = q[j]
           /\ \A j \in i .. (Len(q) - 1) : RemoveAt(q, i)[j] = q[j + 1]
<1> DEFINE a == SubSeq(q, 1, i - 1)
           b == SubSeq(q, i + 1, Len(q))
<1>1. /\ a \in Seq(S) /\ Len(a) = i - 1
      /\ \A j \in 1 .. (i - 1) : a[j] = q[j]
  OBVIOUS
<1>2. /\ b \in Seq(S) /\ Len(b) = Len(q) - i
      /\ \A j \in 1 .. (Len(q) - i) : b[j] = q[i + j]
  OBVIOUS
<1>3. RemoveAt(q, i) = a \o b
  BY DEF RemoveAt
<1> HIDE DEF a, b
<1>4. a \o b \in Seq(S) /\ Len(a \o b) = Len(q) - 1
  <2>1. a \o b \in Seq(S) /\ Len(a \o b) = Len(a) + Len(b)
    BY <1>1, <1>2, Joined, Zenon
  <2>2. (i - 1) + (Len(q) - i) = Len(q) - 1
    OBVIOUS
  <2> QED
    BY <1>1, <1>2, <2>1, <2>2, Zenon
<1>5. \A j \in 1 .. (i - 1) : (a \o b)[j] = q[j]
  BY <1>1, <1>2
<1>6. ASSUME NEW j \in i .. (Len(q) - 1) PROVE (a \o b)[j] = q[j + 1]
  <2>1. j - (i - 1) \in 1 .. (Len(q) - i) /\ i + (j - (i - 1)) = j + 1
    OBVIOUS
  <2>2. (a \o b)[j] = b[j - (i - 1)]
    BY <1>1, <1>2
  <2> QED
    BY <1>2, <2>1, <2>2
<1> QED
  BY <1>3, <1>4, <1>5, <1>6

\* r is q with e as its element i.
PutIn(S, q, i, e, r) ==
    /\ r \in Seq(S) /\ Len(r) = Len(q) + 1 /\ r[i] = e
    /\ \A j \in 1 .. (i - 1) : r[j] = q[j]
    /\ \A j \in (i + 1) .. (Len(q) + 1) : r[j] = q[j - 1]

LEMMA InsertAtIs ==
    ASSUME NEW S, NEW q \in Seq(S), NEW i \in 1 .. (Len(q) + 1), NEW e \in S
    PROVE  PutIn(S, q, i, e, InsertAt(q, i, e))
<1> DEFINE a == SubSeq(q, 1, i - 1)
           b == SubSeq(q, i, Len(q))
           c == a \o <<e>>
<1>1. /\ a \in Seq(S) /\ Len(a) = i - 1
      /\ \A j \in 1 .. (i - 1) : a[j] = q[j]
  OBVIOUS
<1>2. /\ b \in Seq(S) /\ Len(b) = Len(q) - i + 1
      /\ \A j \in 1 .. (Len(q) - i + 1) : b[j] = q[i + j - 1]
  OBVIOUS
<1>3. InsertAt(q, i, e) = c \o b
  BY DEF InsertAt
<1> HIDE DEF a, b
<1>4. /\ c \in Seq(S) /\ Len(c) = i /\ c[i] = e
      /\ \A j \in 1 .. (i - 1) : c[j] = q[j]
  BY <1>1
<1> HIDE DEF c
<1>5. c \o b \in Seq(S) /\ Len(c \o b) = Len(q) + 1
  <2>1. c \o b \in Seq(S) /\ Len(c \o b) = Len(c) + Len(b)
    BY <1>2, <1>4, Joined, Zenon
  <2>2. i + (Len(q) - i + 1) = Len(q) + 1
    OBVIOUS
  <2> QED
    BY <1>2, <1>4, <2>1, <2>2, Zenon
<1>6. \A j \in 1 .. i : (c \o b)[j] = c[j]
  BY <1>2, <1>4
<1>7. ASSUME NEW j \in (i + 1) .. (Len(q) + 1) PROVE (c \o b)[j] = q[j - 1]
  <2>1. j - i \in 1 .. (Len(q) - i + 1) /\ i + (j - i) - 1 = j - 1
    OBVIOUS
  <2>2. (c \o b)[j] = b[j - i]
    BY <1>2, <1>4
  <2> QED
    BY <1>2, <2>1, <2>2
<1> QED
  BY <1>3, <1>4, <1>5, <1>6, <1>7 DEF PutIn

-----------------------------------------------------------------------------
(* The tree and its tabs.                                                  *)

\* What stands in the deployment is a layout.
ProperCommand ==
    {c \in Command :
        /\ c.at = Dep => c.e \in Layouts
        /\ c.at # Nil => c.e \in Elements
        /\ c.op \in {"up", "down"} => c.e \in Elements
        /\ c.op \in {"create", "paste"} => c.at # Nil}
ProperTab == [shows : Holders, undo : Seq(ProperCommand),
              redo : Seq(ProperCommand), saved : Int]

Editor ==
    [kids : [Holders -> Seq(Elements)],
     up : [Elements \cup {Dep} -> Holders \cup {Nil}],
     tabs : Seq(ProperTab), page : [Layouts -> Nat], active : Nat,
     closed : SUBSET Holders]

\* No region stands in the deployment, which stands nowhere.
Upward(s) ==
    /\ \A e \in Regions : s.up[e] # Dep
    /\ s.up[Dep] = Nil

\* The tabs follow the layouts of s, none of which is listed twice.
InStep(s) ==
    LET k == s.kids[Dep] IN
    /\ \A h \in Holders : IsInjective(s.kids[h])
    /\ \A i \in 1 .. Len(k) : k[i] \in Layouts
    /\ Len(s.tabs) = Len(k) + 1
    /\ s.active \in 1 .. (Len(k) + 1)
    /\ s.tabs[1].shows = Dep
    /\ \A i \in 1 .. Len(k) : s.tabs[i + 1].shows = k[i] /\ s.page[k[i]] = i
    /\ \A l \in Layouts : l \notin Range(k) => s.page[l] = 0
    /\ Upward(s)

\* A tab of t is a new one, or one of s that was not closed; and of these t
\* has all. The step from s to t begins with no tab closed.
Follows(s, t) ==
    /\ \A i \in 1 .. Len(t.tabs) :
        \/ t.tabs[i] = NewTab(t.tabs[i].shows)
        \/ /\ t.tabs[i].shows \notin t.closed
           /\ \E j \in 1 .. Len(s.tabs) : t.tabs[i] = s.tabs[j]
    /\ \A j \in 1 .. Len(s.tabs) :
        \/ s.tabs[j].shows \in t.closed
        \/ \E i \in 1 .. Len(t.tabs) : t.tabs[i] = s.tabs[j]

LEMMA FollowsSame ==
    ASSUME NEW s, NEW t, t.tabs = s.tabs, t.closed = {}
    PROVE  Follows(s, t)
BY DEF Follows

LEMMA DepIsNoLayout == Dep \notin Layouts /\ Dep \notin Regions /\ Dep \in Holders
BY ElementsAssumption DEF Holders, Elements

LEMMA NewTabTyped ==
    ASSUME NEW l \in Holders
    PROVE  NewTab(l) \in ProperTab /\ NewTab(l).shows = l /\ ~IsDirty(NewTab(l))
BY DEF NewTab, ProperTab, IsDirty

LEMMA SameTabs ==
    ASSUME NEW s, NEW t, InStep(s),
           t.kids[Dep] = s.kids[Dep] /\ t.tabs = s.tabs
           /\ t.page = s.page /\ t.active = s.active,
           \A h \in Holders : IsInjective(t.kids[h]),
           Upward(t)
    PROVE  InStep(t)
BY DEF InStep

\* The same of m layouts q.
StepsWith(u, q, m) ==
    /\ \A i \in 1 .. m : q[i] \in Layouts
    /\ Len(u.tabs) = m + 1 /\ u.active \in 1 .. (m + 1)
    /\ u.tabs[1].shows = Dep
    /\ \A i \in 1 .. m : u.tabs[i + 1].shows = q[i] /\ u.page[q[i]] = i
    /\ \A l \in Layouts : l \notin Range(q) => u.page[l] = 0

LEMMA InStepIs ==
    ASSUME NEW u, NEW q, NEW m, q = u.kids[Dep], Len(q) = m,
           \A h \in Holders : IsInjective(u.kids[h]),
           StepsWith(u, q, m), Upward(u)
    PROVE  InStep(u)
BY DEF InStep, StepsWith

\* As many layouts have a tab as are listed.
LEMMA TabsOfLayouts ==
    ASSUME NEW s \in Editor, InStep(s)
    PROVE  Cardinality({c \in Layouts : s.page[c] # 0}) = Len(s.kids[Dep])
<1> DEFINE k == s.kids[Dep]
           T == {c \in Layouts : s.page[c] # 0}
<1>1. k \in Seq(Elements) /\ IsInjective(k) /\ Len(k) \in Nat
  BY DepIsNoLayout DEF Editor, InStep
<1>2. T = Range(k)
  <2>1. \A i \in 1 .. Len(k) : k[i] \in Layouts /\ s.page[k[i]] = i /\ i # 0
    BY DEF InStep
  <2>2. \A l \in Layouts : l \notin Range(k) => s.page[l] = 0
    BY DEF InStep
  <2>3. Range(k) = {k[i] : i \in 1 .. Len(k)}
    BY <1>1 DEF Range
  <2> HIDE DEF k
  <2> QED
    BY <2>1, <2>2, <2>3
<1>3. k \in Bijection(1 .. Len(k), Range(k))
  <2>1. DOMAIN k = 1 .. Len(k) /\ k \in [1 .. Len(k) -> Range(k)]
    BY <1>1 DEF Range
  <2> QED
    BY <1>1, <2>1 DEF Bijection, Injection, Surjection, IsInjective, Range
<1>4. Cardinality(Range(k)) = Len(k)
  BY <1>1, <1>3, FS_CountingElements DEF ExistsBijection
<1> QED
  BY <1>2, <1>4

\* Each tab of an editor shows something else.
LEMMA ShowsOnce ==
    ASSUME NEW s \in Editor, InStep(s), NEW i \in 1 .. Len(s.tabs),
           NEW j \in 1 .. Len(s.tabs), s.tabs[i].shows = s.tabs[j].shows
    PROVE  i = j
<1> DEFINE k == s.kids[Dep]
<1>1. /\ s.tabs \in Seq(ProperTab) /\ k \in Seq(Elements) /\ IsInjective(k)
      /\ Dep \notin Layouts
  BY DepIsNoLayout DEF Editor, InStep
<1>2. /\ Len(s.tabs) = Len(k) + 1 /\ s.tabs[1].shows = Dep /\ Len(k) \in Nat
      /\ \A m \in 1 .. Len(k) : s.tabs[m + 1].shows = k[m] /\ k[m] \in Layouts
  BY <1>1 DEF InStep
<1>3. \A m \in 1 .. (Len(k) + 1) : m = 1 \/ (m - 1 \in 1 .. Len(k) /\ (m - 1) + 1 = m)
  BY <1>2
<1>4. i \in 1 .. (Len(k) + 1) /\ j \in 1 .. (Len(k) + 1)
  BY <1>2
<1>5. ASSUME NEW m \in 1 .. (Len(k) + 1), m # 1
      PROVE  /\ m - 1 \in DOMAIN k
             /\ s.tabs[m].shows = k[m - 1] /\ k[m - 1] \in Layouts
  <2>1. m - 1 \in 1 .. Len(k) /\ (m - 1) + 1 = m
    BY <1>3, <1>5
  <2>2. PICK x \in 1 .. Len(k) : x = m - 1 /\ x + 1 = m
    BY <2>1
  <2>3. s.tabs[m].shows = k[x] /\ k[x] \in Layouts
    BY <1>2, <2>2
  <2>4. x \in DOMAIN k
    BY <1>1, <2>2
  <2> QED
    BY <2>2, <2>3, <2>4, Zenon
<1> HIDE DEF k
<1>6. \A m \in 1 .. (Len(k) + 1) : m # 1 => s.tabs[m].shows # s.tabs[1].shows
  BY <1>1, <1>2, <1>5, Zenon
<1>7. CASE i = 1 \/ j = 1
  BY <1>4, <1>6, <1>7, Zenon
<1>8. CASE i # 1 /\ j # 1
  <2>1. k[i - 1] = k[j - 1] /\ i - 1 \in DOMAIN k /\ j - 1 \in DOMAIN k
    BY <1>4, <1>5, <1>8
  <2>2. i - 1 = j - 1
    BY <1>1, <2>1 DEF IsInjective
  <2> QED
    BY <1>4, <2>2
<1> QED
  BY <1>7, <1>8

LEMMA AddPageIs ==
    ASSUME NEW s \in Editor, NEW l \in Layouts, NEW i \in 1 .. Len(s.tabs)
    PROVE  LET t == AddPage(s, i, l) IN
           /\ t \in Editor
           /\ t.kids = s.kids /\ t.up = s.up /\ t.closed = s.closed
           /\ t.tabs = InsertAt(s.tabs, i + 1, NewTab(l))
           /\ t.page = [s.page EXCEPT ![l] = i]
           /\ t.active = IF s.active > i THEN s.active + 1 ELSE s.active
<1>1. s.tabs \in Seq(ProperTab) /\ s.active \in Nat /\ s.page \in [Layouts -> Nat]
  BY DEF Editor
<1>2. NewTab(l) \in ProperTab
  BY NewTabTyped DEF Holders
<1>3. InsertAt(s.tabs, i + 1, NewTab(l)) \in Seq(ProperTab)
  <2>1. i + 1 \in 1 .. (Len(s.tabs) + 1)
    BY <1>1
  <2> QED
    BY <1>1, <1>2, <2>1, InsertAtIs DEF PutIn
<1>4. i \in Nat
  OBVIOUS
<1>5. /\ [s.page EXCEPT ![l] = i] \in [Layouts -> Nat]
      /\ (IF s.active > i THEN s.active + 1 ELSE s.active) \in Nat
  BY <1>1, <1>4
<1> QED
  BY <1>3, <1>5 DEF AddPage, Editor

LEMMA RemovePageIs ==
    ASSUME NEW s \in Editor, NEW i \in Nat, i + 1 \in 1 .. Len(s.tabs)
    PROVE  LET t == RemovePage(s, i) IN
           /\ t \in Editor
           /\ t.kids = s.kids /\ t.up = s.up /\ t.page = s.page
           /\ t.closed = s.closed \cup {s.tabs[i + 1].shows}
           /\ t.tabs = RemoveAt(s.tabs, i + 1)
           /\ t.active = IF s.active > i THEN s.active - 1 ELSE s.active
<1>1. s.tabs \in Seq(ProperTab) /\ s.active \in Nat
  BY DEF Editor
<1>2. RemoveAt(s.tabs, i + 1) \in Seq(ProperTab)
  BY <1>1, RemoveAtIs
<1>3. s.tabs[i + 1].shows \in Holders
  <2>1. s.tabs[i + 1] \in ProperTab
    BY <1>1
  <2> QED
    BY <2>1 DEF ProperTab
<1>4. (IF s.active > i THEN s.active - 1 ELSE s.active) \in Nat
  BY <1>1
<1> QED
  BY <1>1, <1>2, <1>3, <1>4 DEF RemovePage, Editor

\* add of an element, which is then listed once.
LEMMA AddedInStep ==
    ASSUME NEW s \in Editor, InStep(s), NEW p \in Holders, NEW e \in Elements,
           p = Dep => e \in Layouts, s.closed = {},
           \A h \in Holders : IsInjective(Added(s, p, e).kids[h])
    PROVE  /\ Added(s, p, e) \in Editor /\ InStep(Added(s, p, e))
           /\ Follows(s, Added(s, p, e))
<1> DEFINE k == s.kids[Dep]
           t == [s EXCEPT !.kids[p] = Append(@, e), !.up[e] = p]
<1>1. /\ s.kids \in [Holders -> Seq(Elements)] /\ s.tabs \in Seq(ProperTab)
      /\ s.page \in [Layouts -> Nat] /\ k \in Seq(Elements) /\ Dep \in Holders
      /\ s.up \in [Elements \cup {Dep} -> Holders \cup {Nil}]
  BY DepIsNoLayout DEF Editor
<1>2. Append(s.kids[p], e) \in Seq(Elements)
  BY <1>1
<1>3. /\ t \in Editor
      /\ t.kids = [s.kids EXCEPT ![p] = Append(@, e)]
      /\ t.up = [s.up EXCEPT ![e] = p]
      /\ t.tabs = s.tabs /\ t.page = s.page /\ t.active = s.active
      /\ t.closed = s.closed
  BY <1>1, <1>2 DEF Editor
<1> HIDE DEF t
<1>4. Upward(t)
  <2>1. Upward(s)
    BY DEF InStep
  <2>2. /\ \A r \in Regions : r \in Elements \cup {Dep} /\ r \notin Layouts
        /\ e # Dep /\ Dep \in Elements \cup {Dep}
    BY ElementsAssumption DEF Elements
  <2> QED
    BY <1>1, <1>3, <2>1, <2>2 DEF Upward
<1>5. CASE p # Dep
  <2>1. Added(s, p, e) = t
    BY <1>5 DEF Added, t
  <2>2. t.kids[Dep] = k
    BY <1>1, <1>3, <1>5
  <2>3. InStep(t)
    <3>1. \A h \in Holders : IsInjective(t.kids[h])
      BY <2>1
    <3> QED
      BY <1>3, <1>4, <2>2, <3>1, SameTabs
  <2> QED
    BY <1>3, <2>1, <2>3, FollowsSame
<1>6. CASE p = Dep
  <2> DEFINE n == Len(k)
             u == AddPage(t, n + 1, e)
  <2>1. e \in Layouts /\ n \in Nat
    BY <1>1, <1>6
  <2>2. Added(s, p, e) = u
    <3>1. {c \in Layouts : t.page[c] # 0} = {c \in Layouts : s.page[c] # 0}
      BY <1>3
    <3>2. Added(s, p, e) = LayoutAdded(t, e)
      BY <1>6 DEF Added, t
    <3>3. LayoutAdded(t, e) =
             AddPage(t, Cardinality({c \in Layouts : t.page[c] # 0}) + 1, e)
      BY DEF LayoutAdded
    <3> HIDE DEF n
    <3> QED
      BY <3>1, <3>2, <3>3, TabsOfLayouts DEF n
  <2>3. Len(s.tabs) = n + 1 /\ s.active \in 1 .. (n + 1)
    BY DEF InStep
  <2>4. n + 1 \in 1 .. Len(t.tabs)
    BY <1>3, <2>1, <2>3
  <2>5. /\ u \in Editor
        /\ u.kids = t.kids /\ u.up = t.up /\ u.closed = t.closed
        /\ u.tabs = InsertAt(t.tabs, n + 2, NewTab(e))
        /\ u.page = [t.page EXCEPT ![e] = n + 1]
        /\ u.active = t.active
    <3> HIDE DEF n
    <3>1. ~(t.active > n + 1) /\ (n + 1) + 1 = n + 2
      BY <1>3, <2>1, <2>3
    <3> QED
      BY <1>3, <2>1, <2>4, <3>1, AddPageIs
  <2>6. u.kids[Dep] = Append(k, e)
    BY <1>1, <1>3, <1>6, <2>5
  <2>7. /\ Len(Append(k, e)) = n + 1 /\ Append(k, e)[n + 1] = e
        /\ \A i \in 1 .. n : Append(k, e)[i] = k[i]
    BY <1>1, <1>6
  <2>8. /\ Len(u.tabs) = n + 2 /\ u.tabs[n + 2] = NewTab(e)
        /\ \A i \in 1 .. (n + 1) : u.tabs[i] = s.tabs[i]
    <3>1. NewTab(e) \in ProperTab /\ n + 2 \in 1 .. (Len(s.tabs) + 1)
      BY <2>1, <2>3, NewTabTyped DEF Holders
    <3>2. /\ Len(InsertAt(s.tabs, n + 2, NewTab(e))) = Len(s.tabs) + 1
          /\ \A j \in 1 .. (n + 2 - 1) : InsertAt(s.tabs, n + 2, NewTab(e))[j] = s.tabs[j]
          /\ InsertAt(s.tabs, n + 2, NewTab(e))[n + 2] = NewTab(e)
      <4>1. PICK m \in 1 .. (Len(s.tabs) + 1) : m = n + 2
        BY <3>1
      <4>2. s.tabs \in Seq(ProperTab) /\ NewTab(e) \in ProperTab
        BY <1>1, <3>1
      <4>3. /\ Len(InsertAt(s.tabs, m, NewTab(e))) = Len(s.tabs) + 1
            /\ \A j \in 1 .. (m - 1) : InsertAt(s.tabs, m, NewTab(e))[j] = s.tabs[j]
            /\ InsertAt(s.tabs, m, NewTab(e))[m] = NewTab(e)
        <5>1. PutIn(ProperTab, s.tabs, m, NewTab(e), InsertAt(s.tabs, m, NewTab(e)))
          BY <4>2, InsertAtIs
        <5> QED
          BY <5>1, Zenon DEF PutIn
      <4> QED
        BY <4>1, <4>3
    <3> HIDE DEF n, u
    <3>3. n + 2 - 1 = n + 1 /\ (n + 1) + 1 = n + 2
      BY <2>1
    <3> QED
      BY <1>3, <2>3, <2>5, <3>2, <3>3
  <2>9. e \notin Range(k)
    <3>1. IsInjective(Append(k, e))
      BY <1>1, <2>2, <2>6
    <3> SUFFICES ASSUME NEW i \in 1 .. n, k[i] = e PROVE FALSE
      BY <1>1 DEF Range
    <3>2. i \in DOMAIN Append(k, e) /\ n + 1 \in DOMAIN Append(k, e) /\ i # n + 1
      BY <1>1, <2>7
    <3>3. Append(k, e)[i] = Append(k, e)[n + 1]
      BY <2>7, <3>2
    <3>4. \A a, b \in DOMAIN Append(k, e) :
              Append(k, e)[a] = Append(k, e)[b] => a = b
      BY <3>1, Zenon DEF IsInjective
    <3> HIDE DEF n, k
    <3> QED
      BY <3>2, <3>3, <3>4, Zenon
  <2>10. InStep(u)
    <3> DEFINE q == u.kids[Dep]
    <3>1. /\ Len(q) = n + 1 /\ q[n + 1] = e /\ \A i \in 1 .. n : q[i] = k[i]
      BY <2>6, <2>7
    <3>2. \A h \in Holders : IsInjective(u.kids[h])
      BY <2>2
    <3> HIDE DEF n, u, q
    <3>3. \A i \in 1 .. n : /\ k[i] \in Layouts /\ k[i] # e
                            /\ s.tabs[i + 1].shows = k[i] /\ s.page[k[i]] = i
      BY <1>1, <2>9 DEF InStep, Range, n
    <3>4. ASSUME NEW i \in 1 .. (n + 1)
          PROVE  q[i] \in Layouts /\ u.tabs[i + 1].shows = q[i] /\ u.page[q[i]] = i
      <4>1. CASE i = n + 1
        <5>1. (n + 1) + 1 = n + 2
          BY <2>1
        <5> QED
          BY <1>1, <1>3, <2>1, <2>5, <2>8, <3>1, <4>1, <5>1, NewTabTyped DEF Holders
      <4>2. CASE i # n + 1
        <5>1. i \in 1 .. n /\ i + 1 \in 1 .. (n + 1)
          BY <2>1, <4>2
        <5>2. q[i] = k[i] /\ u.tabs[i + 1] = s.tabs[i + 1]
          BY <2>8, <3>1, <5>1
        <5>3. u.page[k[i]] = s.page[k[i]]
          BY <1>1, <1>3, <2>5, <3>3, <5>1
        <5> QED
          BY <3>3, <5>1, <5>2, <5>3
      <4> QED
        BY <4>1, <4>2
    <3>5. ASSUME NEW l \in Layouts, l \notin Range(q) PROVE u.page[l] = 0
      <4>1. l \notin Range(k) /\ l # e
        <5>1. DOMAIN k = 1 .. n /\ DOMAIN q = 1 .. (n + 1)
          BY <1>1, <1>2, <1>6, <2>6, <3>1 DEF n, q
        <5>2. \A i \in 1 .. n : i \in 1 .. (n + 1)
          BY <2>1
        <5>3. n + 1 \in 1 .. (n + 1)
          BY <2>1
        <5> QED
          BY <3>1, <3>5, <5>1, <5>2, <5>3, Zenon DEF Range
      <4> QED
        BY <1>1, <1>3, <2>1, <2>5, <4>1 DEF InStep
    <3>6. u.tabs[1].shows = Dep /\ u.active \in 1 .. (n + 2) /\ Len(u.tabs) = n + 2
      <4>1. 1 \in 1 .. (n + 1)
        BY <2>1
      <4>2. s.tabs[1].shows = Dep
        BY DEF InStep
      <4> QED
        BY <1>3, <2>1, <2>3, <2>5, <2>8, <4>1, <4>2
    <3>7. (n + 1) + 1 = n + 2
      BY <2>1
    <3>8. Upward(u)
      BY <1>4, <2>5 DEF Upward
    <3>9. q = u.kids[Dep]
      BY DEF q
    <3>10. /\ Len(u.tabs) = (n + 1) + 1 /\ u.active \in 1 .. ((n + 1) + 1)
           /\ \A i \in 1 .. (n + 1) : q[i] \in Layouts
           /\ \A i \in 1 .. (n + 1) : u.tabs[i + 1].shows = q[i] /\ u.page[q[i]] = i
           /\ \A l \in Layouts : l \notin Range(q) => u.page[l] = 0
           /\ u.tabs[1].shows = Dep /\ Len(q) = n + 1
      BY <3>1, <3>4, <3>5, <3>6, <3>7
    <3>11. StepsWith(u, q, n + 1)
      BY <3>10, Zenon DEF StepsWith
    <3> HIDE DEF k
    <3> QED
      BY <3>1, <3>2, <3>8, <3>9, <3>11, InStepIs
  <2>11. Follows(s, u)
    <3> HIDE DEF n, u
    <3>1. \A i \in 1 .. (n + 2) : i = n + 2 \/ i \in 1 .. (n + 1)
      BY <2>1
    <3>2. \A i \in 1 .. (n + 1) : i \in 1 .. (n + 2)
      BY <2>1
    <3>3. u.closed = {} /\ NewTab(e) = NewTab(NewTab(e).shows)
      BY <1>3, <2>1, <2>5, NewTabTyped DEF Holders
    <3> QED
      BY <2>3, <2>8, <3>1, <3>2, <3>3 DEF Follows
  <2> QED
    BY <2>2, <2>5, <2>10, <2>11
<1> QED
  BY <1>5, <1>6

\* r is q with e at j and, at i, what has been at j.
Swapped(S, q, i, j, e, r) ==
    /\ r \in Seq(S) /\ Len(r) = Len(q)
    /\ r[j] = e /\ r[i] = q[j]
    /\ \A m \in 1 .. Len(q) : m # i /\ m # j => r[m] = q[m]

\* Taking something out and putting it back one place on swaps two neighbours.
LEMMA SwappedIs ==
    ASSUME NEW S, NEW q \in Seq(S), NEW i \in 1 .. Len(q), NEW j \in 1 .. Len(q),
           j = i + 1 \/ j = i - 1, NEW e \in S
    PROVE  Swapped(S, q, i, j, e, InsertAt(RemoveAt(q, i), j, e))
<1> DEFINE o == RemoveAt(q, i)
           r == InsertAt(o, j, e)
<1>1. /\ o \in Seq(S) /\ Len(o) = Len(q) - 1
      /\ \A m \in 1 .. (i - 1) : o[m] = q[m]
      /\ \A m \in i .. (Len(q) - 1) : o[m] = q[m + 1]
  BY RemoveAtIs
<1> HIDE DEF o
<1>2. Len(q) \in Nat /\ j \in 1 .. (Len(o) + 1)
  <2>1. Len(q) \in Nat /\ Len(o) + 1 = Len(q)
    BY <1>1
  <2> QED
    BY <2>1
<1>3. /\ r \in Seq(S) /\ Len(r) = Len(o) + 1 /\ r[j] = e
      /\ \A m \in 1 .. (j - 1) : r[m] = o[m]
      /\ \A m \in (j + 1) .. (Len(o) + 1) : r[m] = o[m - 1]
  <2>1. PutIn(S, o, j, e, r)
    BY <1>1, <1>2, InsertAtIs
  <2> QED
    BY <2>1, Zenon DEF PutIn
<1> HIDE DEF r
<1>4. Len(r) = Len(q) /\ Len(o) + 1 = Len(q)
  BY <1>1, <1>2, <1>3
<1>5. r[i] = q[j]
  <2>1. CASE j = i + 1
    <3>1. i \in 1 .. (j - 1) /\ i \in i .. (Len(q) - 1)
      BY <1>2, <2>1
    <3> QED
      BY <1>1, <1>3, <2>1, <3>1
  <2>2. CASE j = i - 1
    <3>1. i \in (j + 1) .. (Len(o) + 1) /\ i - 1 = j /\ j \in 1 .. (i - 1)
      BY <1>2, <1>4, <2>2
    <3> QED
      BY <1>1, <1>3, <3>1
  <2> QED
    BY <2>1, <2>2
<1>6. ASSUME NEW m \in 1 .. Len(q), m # i, m # j PROVE r[m] = q[m]
  <2>1. CASE m < i /\ m < j
    <3>1. m \in 1 .. (j - 1) /\ m \in 1 .. (i - 1)
      BY <2>1
    <3> QED
      BY <1>1, <1>3, <3>1
  <2>2. CASE m > i /\ m > j
    <3>1. /\ m \in (j + 1) .. (Len(o) + 1) /\ m - 1 \in i .. (Len(q) - 1)
          /\ (m - 1) + 1 = m
      BY <1>2, <1>4, <2>2
    <3> QED
      BY <1>1, <1>3, <3>1
  <2> QED
    BY <1>6, <2>1, <2>2
<1> QED
  BY <1>3, <1>4, <1>5, <1>6 DEF o, r, Swapped

\* removeChild, which takes the tab of a layout away.
LEMMA RemovedInStep ==
    ASSUME NEW s \in Editor, InStep(s), NEW p \in Holders, NEW e \in Elements,
           s.closed = {},
           \A h \in Holders : IsInjective(Removed(s, p, e).kids[h])
    PROVE  /\ Removed(s, p, e) \in Editor /\ InStep(Removed(s, p, e))
           /\ Follows(s, Removed(s, p, e))
<1> DEFINE k == s.kids[Dep]
<1>1. /\ s.kids \in [Holders -> Seq(Elements)] /\ s.tabs \in Seq(ProperTab)
      /\ s.page \in [Layouts -> Nat] /\ k \in Seq(Elements) /\ Dep \in Holders
      /\ s.up \in [Elements \cup {Dep} -> Holders \cup {Nil}]
      /\ s.kids[p] \in Seq(Elements) /\ IsInjective(s.kids[p])
      /\ s.closed \in SUBSET Holders /\ s.active \in Nat
  BY DepIsNoLayout DEF Editor, InStep
<1>2. CASE e \notin Range(s.kids[p])
  <2>1. Removed(s, p, e) = s
    BY <1>2 DEF Removed
  <2> QED
    BY <2>1, FollowsSame
<1>3. CASE e \in Range(s.kids[p])
  <2>1. PICK i \in 1 .. Len(s.kids[p]) : s.kids[p][i] = e
    BY <1>1, <1>3 DEF Range
  <2>2. RemoveFirst(s.kids[p], e) = RemoveAt(s.kids[p], i)
    BY <1>1, <2>1, RemoveFirstIs
  <2> DEFINE q == RemoveAt(s.kids[p], i)
             t == [s EXCEPT !.kids[p] = RemoveFirst(@, e), !.up[e] = Nil]
  <2>3. /\ q \in Seq(Elements) /\ Len(q) = Len(s.kids[p]) - 1
        /\ \A j \in 1 .. (i - 1) : q[j] = s.kids[p][j]
        /\ \A j \in i .. (Len(s.kids[p]) - 1) : q[j] = s.kids[p][j + 1]
    BY <1>1, RemoveAtIs
  <2> HIDE DEF q
  <2>4. /\ t \in Editor
        /\ t.kids = [s.kids EXCEPT ![p] = q]
        /\ t.up = [s.up EXCEPT ![e] = Nil]
        /\ t.tabs = s.tabs /\ t.page = s.page /\ t.active = s.active
        /\ t.closed = s.closed
    BY <1>1, <2>2, <2>3 DEF Editor, q
  <2> HIDE DEF t
  <2>5. Upward(t)
    <3>1. Upward(s)
      BY DEF InStep
    <3>2. /\ \A r \in Regions : r \in Elements \cup {Dep}
          /\ e # Dep /\ Dep # Nil
      BY ElementsAssumption DEF Elements
    <3> QED
      BY <1>1, <2>4, <3>1, <3>2 DEF Upward
  <2>6. CASE p # Dep
    <3>1. Removed(s, p, e) = t
      BY <1>3, <2>6 DEF Removed, t
    <3>2. t.kids[Dep] = k
      BY <1>1, <2>4, <2>6
    <3>3. InStep(t)
      <4>1. \A h \in Holders : IsInjective(t.kids[h])
        BY <3>1
      <4> QED
        BY <2>4, <2>5, <3>2, <4>1, SameTabs
    <3> QED
      BY <2>4, <3>1, <3>3, FollowsSame
  <2>7. CASE p = Dep
    <3> DEFINE n == Len(k)
               v == RemovePage(t, i)
               u == [v EXCEPT !.page = [c \in Layouts |->
                        IF c = e THEN 0 ELSE IF @[c] > i THEN @[c] - 1 ELSE @[c]]]
    <3>1. /\ n \in Nat /\ i \in 1 .. n /\ k[i] = e /\ e \in Layouts
          /\ Len(s.tabs) = n + 1 /\ s.active \in 1 .. (n + 1)
          /\ s.page[e] = i /\ s.tabs[i + 1].shows = e
      <4>1. n \in Nat /\ i \in 1 .. n /\ k[i] = e
        BY <1>1, <2>1, <2>7
      <4>2. /\ Len(s.tabs) = n + 1 /\ s.active \in 1 .. (n + 1)
            /\ \A j \in 1 .. n : /\ k[j] \in Layouts /\ s.page[k[j]] = j
                                /\ s.tabs[j + 1].shows = k[j]
        BY DEF InStep
      <4> QED
        BY <4>1, <4>2
    <3>2. Removed(s, p, e) = u
      <4>1. Removed(s, p, e) = LayoutRemoved(t, e)
        BY <1>3, <2>7 DEF Removed, t
      <4>2. t.page[e] = i
        BY <2>4, <3>1
      <4> QED
        BY <4>1, <4>2 DEF LayoutRemoved
    <3>3. i \in Nat /\ i + 1 \in 1 .. Len(t.tabs)
      BY <2>4, <3>1
    <3>4. /\ v \in Editor
          /\ v.kids = t.kids /\ v.up = t.up /\ v.page = t.page
          /\ v.closed = t.closed \cup {t.tabs[i + 1].shows}
          /\ v.tabs = RemoveAt(t.tabs, i + 1)
          /\ v.active = IF t.active > i THEN t.active - 1 ELSE t.active
      BY <2>4, <3>3, RemovePageIs
    <3> HIDE DEF v, n
    <3>5. [c \in Layouts |-> IF c = e THEN 0 ELSE IF v.page[c] > i
                              THEN v.page[c] - 1 ELSE v.page[c]] \in [Layouts -> Nat]
      <4>1. \A c \in Layouts : v.page[c] \in Nat
        BY <1>1, <2>4, <3>4
      <4> QED
        BY <3>3, <4>1
    <3>6. /\ u \in Editor
          /\ u.kids = t.kids /\ u.up = t.up /\ u.closed = s.closed \cup {e}
          /\ u.tabs = RemoveAt(s.tabs, i + 1)
          /\ u.page = [c \in Layouts |-> IF c = e THEN 0 ELSE IF s.page[c] > i
                                          THEN s.page[c] - 1 ELSE s.page[c]]
          /\ u.active = IF s.active > i THEN s.active - 1 ELSE s.active
      <4>1. /\ u \in Editor
            /\ u.kids = v.kids /\ u.up = v.up /\ u.closed = v.closed
            /\ u.tabs = v.tabs /\ u.active = v.active
            /\ u.page = [c \in Layouts |-> IF c = e THEN 0 ELSE IF v.page[c] > i
                                            THEN v.page[c] - 1 ELSE v.page[c]]
        BY <3>4, <3>5 DEF Editor
      <4> HIDE DEF u
      <4>2. /\ v.closed = s.closed \cup {e} /\ v.page = s.page
            /\ v.active = IF s.active > i THEN s.active - 1 ELSE s.active
            /\ v.tabs = RemoveAt(s.tabs, i + 1)
        BY <2>4, <3>1, <3>4
      <4> QED
        BY <3>4, <4>1, <4>2
    <3> HIDE DEF u
    <3>7. u.kids[Dep] = q /\ Len(q) = n - 1
      BY <1>1, <2>3, <2>4, <2>7, <3>6 DEF n
    <3>8. /\ Len(u.tabs) = n
          /\ \A j \in 1 .. i : u.tabs[j] = s.tabs[j]
          /\ \A j \in (i + 1) .. n : u.tabs[j] = s.tabs[j + 1]
      <4>1. PICK m \in 1 .. Len(s.tabs) : m = i + 1
        BY <2>4, <3>3
      <4>2. /\ Len(RemoveAt(s.tabs, m)) = Len(s.tabs) - 1
            /\ \A j \in 1 .. (m - 1) : RemoveAt(s.tabs, m)[j] = s.tabs[j]
            /\ \A j \in m .. (Len(s.tabs) - 1) : RemoveAt(s.tabs, m)[j] = s.tabs[j + 1]
        <5>1. s.tabs \in Seq(ProperTab)
          BY <1>1
        <5> QED
          BY <5>1, RemoveAtIs
      <4>3. m - 1 = i /\ Len(s.tabs) - 1 = n
        BY <3>1, <4>1
      <4> QED
        BY <3>6, <4>1, <4>2, <4>3
    <3>9. \A j \in 1 .. n : /\ k[j] \in Layouts /\ s.tabs[j + 1].shows = k[j]
                            /\ s.page[k[j]] = j
      BY DEF InStep, n
    <3>10. /\ \A j \in 1 .. (i - 1) : q[j] = k[j]
           /\ \A j \in i .. (n - 1) : q[j] = k[j + 1]
      BY <2>3, <2>7 DEF n
    <3>11. ASSUME NEW j \in 1 .. (n - 1)
           PROVE  q[j] \in Layouts /\ u.tabs[j + 1].shows = q[j] /\ u.page[q[j]] = j
      <4>1. CASE j < i
        <5>1. j \in 1 .. n /\ j \in 1 .. (i - 1) /\ j + 1 \in 1 .. i /\ j # i /\ ~(j > i)
          BY <3>1, <4>1
        <5>2. q[j] = k[j] /\ u.tabs[j + 1] = s.tabs[j + 1] /\ k[j] # e
          BY <3>1, <3>8, <3>9, <3>10, <5>1
        <5> QED
          BY <3>6, <3>9, <5>1, <5>2
      <4>2. CASE j >= i
        <5>1. /\ j \in i .. (n - 1) /\ j + 1 \in 1 .. n /\ j + 1 \in (i + 1) .. n
              /\ j + 1 # i /\ j + 1 > i /\ (j + 1) - 1 = j
          BY <3>1, <4>2
        <5>2. q[j] = k[j + 1] /\ u.tabs[j + 1] = s.tabs[(j + 1) + 1] /\ k[j + 1] # e
          BY <3>1, <3>8, <3>9, <3>10, <5>1
        <5>3. u.page[k[j + 1]] = j
          BY <3>6, <3>9, <5>1, <5>2
        <5> QED
          BY <3>9, <5>1, <5>2, <5>3
      <4> QED
        BY <3>1, <4>1, <4>2
    <3>12. ASSUME NEW l \in Layouts, l \notin Range(q) PROVE u.page[l] = 0
      <4>1. CASE l = e
        BY <3>6, <4>1
      <4>2. CASE l # e
        <5>1. DOMAIN q = 1 .. (n - 1) /\ DOMAIN k = 1 .. n
          BY <1>1, <2>3, <3>7 DEF n
        <5>2. l \notin Range(k)
          <6> SUFFICES ASSUME NEW j \in 1 .. n, k[j] = l PROVE FALSE
            BY <5>1 DEF Range
          <6>1. CASE j < i
            <7>1. j \in 1 .. (i - 1) /\ j \in 1 .. (n - 1)
              BY <3>1, <6>1
            <7> QED
              BY <3>10, <3>12, <5>1, <7>1 DEF Range
          <6>2. CASE j > i
            <7>1. j - 1 \in i .. (n - 1) /\ j - 1 \in 1 .. (n - 1) /\ (j - 1) + 1 = j
              BY <3>1, <6>2
            <7> QED
              BY <3>10, <3>12, <5>1, <7>1 DEF Range
          <6> QED
            BY <3>1, <4>2, <6>1, <6>2
        <5>3. s.page[l] = 0 /\ ~(0 > i)
          BY <3>3, <5>2 DEF InStep
        <5> QED
          BY <3>6, <4>2, <5>3
      <4> QED
        BY <4>1, <4>2
    <3>13. u.tabs[1].shows = Dep /\ u.active \in 1 .. n
      <4>1. 1 \in 1 .. i /\ s.tabs[1].shows = Dep
        BY <3>1 DEF InStep
      <4>2. u.tabs[1].shows = Dep
        BY <3>8, <4>1
      <4> QED
        BY <3>1, <3>6, <4>2
    <3>14. InStep(u)
      <4>1. \A h \in Holders : IsInjective(u.kids[h])
        BY <3>2
      <4>2. Len(q) + 1 = n
        BY <3>1, <3>7
      <4>3. (n - 1) + 1 = n
        BY <3>1
      <4>4. Upward(u)
        BY <2>5, <3>6 DEF Upward
      <4>5. /\ Len(u.tabs) = (n - 1) + 1 /\ u.active \in 1 .. ((n - 1) + 1)
            /\ \A j \in 1 .. (n - 1) : q[j] \in Layouts
            /\ \A j \in 1 .. (n - 1) : u.tabs[j + 1].shows = q[j] /\ u.page[q[j]] = j
            /\ \A l \in Layouts : l \notin Range(q) => u.page[l] = 0
            /\ q = u.kids[Dep] /\ Len(q) = n - 1
        BY <3>7, <3>8, <3>11, <3>12, <3>13, <4>3
      <4>6. StepsWith(u, q, n - 1)
        BY <3>13, <4>5, Zenon DEF StepsWith
      <4> QED
        BY <4>1, <4>4, <4>5, <4>6, InStepIs
    <3>15. Follows(s, u)
      <4>1. ASSUME NEW j \in 1 .. n
            PROVE  /\ u.tabs[j].shows \notin {e}
                   /\ \E m \in 1 .. Len(s.tabs) : u.tabs[j] = s.tabs[m]
        <5>1. PICK m \in 1 .. Len(s.tabs) : u.tabs[j] = s.tabs[m] /\ m # i + 1
          <6>1. CASE j \in 1 .. i
            <7>1. j \in 1 .. Len(s.tabs) /\ j # i + 1
              BY <3>1, <6>1
            <7> QED
              BY <3>8, <6>1, <7>1
          <6>2. CASE j \in (i + 1) .. n
            <7>1. j + 1 \in 1 .. Len(s.tabs) /\ j + 1 # i + 1
              BY <3>1, <6>2
            <7> QED
              BY <3>8, <6>2, <7>1
          <6> QED
            BY <3>1, <6>1, <6>2
        <5>2. PICK m2 \in 1 .. Len(s.tabs) : m2 = i + 1 /\ s.tabs[m2].shows = e
          BY <2>4, <3>1, <3>3
        <5>3. s.tabs[m].shows # e
          BY <5>1, <5>2, ShowsOnce
        <5> QED
          BY <5>1, <5>3
      <4>2. ASSUME NEW m \in 1 .. Len(s.tabs), m # i + 1
            PROVE  \E j \in 1 .. n : u.tabs[j] = s.tabs[m]
        <5>1. CASE m <= i
          <6>1. m \in 1 .. i /\ m \in 1 .. n
            BY <3>1, <5>1
          <6> QED
            BY <3>8, <6>1
        <5>2. CASE m > i + 1
          <6>1. m - 1 \in (i + 1) .. n /\ m - 1 \in 1 .. n /\ (m - 1) + 1 = m
            BY <3>1, <5>2
          <6> QED
            BY <3>8, <6>1
        <5> QED
          BY <3>1, <4>2, <5>1, <5>2
      <4>3. u.closed = {e} /\ Len(u.tabs) = n
        BY <3>6, <3>8
      <4> QED
        BY <3>1, <4>1, <4>2, <4>3 DEF Follows
    <3> QED
      BY <3>2, <3>6, <3>14, <3>15
  <2> QED
    BY <2>6, <2>7
<1> QED
  BY <1>2, <1>3

\* moveChildUp and moveChildDown, which give a layout a new tab.
LEMMA MovedInStep ==
    ASSUME NEW s \in Editor, InStep(s), NEW p \in Holders, NEW e \in Elements,
           NEW by \in {1, -1}, s.closed = {},
           \A h \in Holders : IsInjective(Moved(s, p, e, by).kids[h])
    PROVE  /\ Moved(s, p, e, by) \in Editor /\ InStep(Moved(s, p, e, by))
           /\ Follows(s, Moved(s, p, e, by))
<1> DEFINE k == s.kids[Dep]
           i == PlaceOf(s, p, e)
           j == i + by
<1>1. /\ s.kids \in [Holders -> Seq(Elements)] /\ s.tabs \in Seq(ProperTab)
      /\ s.page \in [Layouts -> Nat] /\ k \in Seq(Elements) /\ Dep \in Holders
      /\ s.kids[p] \in Seq(Elements) /\ IsInjective(s.kids[p])
      /\ s.closed \in SUBSET Holders /\ s.active \in Nat
  BY DepIsNoLayout DEF Editor, InStep
<1>2. CASE i = 0 \/ j \notin DOMAIN s.kids[p]
  <2>1. Moved(s, p, e, by) = s
    BY <1>2 DEF Moved
  <2> QED
    BY <2>1, FollowsSame
<1>3. CASE ~(i = 0 \/ j \notin DOMAIN s.kids[p])
  <2>1. PICK m \in 1 .. Len(s.kids[p]) : s.kids[p][m] = e
    BY <1>1, <1>3, PlaceOfOthers DEF Range
  <2>2. /\ i \in 1 .. Len(s.kids[p]) /\ j \in 1 .. Len(s.kids[p])
        /\ s.kids[p][i] = e
    <3>1. i = m
      BY <1>1, <2>1, PlaceOfListed
    <3> HIDE DEF i
    <3> QED
      BY <1>1, <1>3, <2>1, <3>1
  <2> DEFINE q == InsertAt(RemoveAt(s.kids[p], i), j, e)
             t == [s EXCEPT !.kids[p] = InsertAt(RemoveAt(@, i), j, e)]
  <2>3. Moved(s, p, e, by) = IF p = Dep THEN LayoutMoved(t, e, by) ELSE t
    BY <1>3 DEF Moved
  <2> HIDE DEF i
  <2>4. (j = i + 1 \/ j = i - 1) /\ i \in Nat /\ j \in Nat /\ i # j
    BY <2>2
  <2> HIDE DEF j
  <2>5. /\ q \in Seq(Elements) /\ Len(q) = Len(s.kids[p])
        /\ q[j] = e /\ q[i] = s.kids[p][j]
        /\ \A o \in 1 .. Len(s.kids[p]) : o # i /\ o # j => q[o] = s.kids[p][o]
    <3>1. Swapped(Elements, s.kids[p], i, j, e, q)
      BY <1>1, <2>2, <2>4, SwappedIs
    <3> QED
      BY <3>1, Zenon DEF Swapped
  <2> HIDE DEF q
  <2>6. /\ t \in Editor
        /\ t.kids = [s.kids EXCEPT ![p] = q]
        /\ t.up = s.up
        /\ t.tabs = s.tabs /\ t.page = s.page /\ t.active = s.active
        /\ t.closed = s.closed
    BY <1>1, <2>5 DEF Editor, q
  <2> HIDE DEF t
  <2>7. Upward(t)
    BY <2>6 DEF InStep, Upward
  <2>8. CASE p # Dep
    <3>1. Moved(s, p, e, by) = t
      BY <2>3, <2>8
    <3>2. t.kids[Dep] = k
      BY <1>1, <2>6, <2>8
    <3>3. InStep(t)
      <4>1. \A h \in Holders : IsInjective(t.kids[h])
        BY <3>1
      <4> QED
        BY <2>6, <2>7, <3>2, <4>1, SameTabs
    <3> QED
      BY <2>6, <3>1, <3>3, FollowsSame
  <2>9. CASE p = Dep
    <3> DEFINE n == Len(k)
    <3>1. /\ n \in Nat /\ i \in 1 .. n /\ j \in 1 .. n /\ k[i] = e /\ e \in Layouts
          /\ Len(s.tabs) = n + 1 /\ s.active \in 1 .. (n + 1)
          /\ s.page[e] = i /\ s.tabs[i + 1].shows = e
      <4>1. n \in Nat /\ i \in 1 .. n /\ j \in 1 .. n /\ k[i] = e
        BY <1>1, <2>2, <2>9
      <4> QED
        BY <4>1 DEF InStep
    <3> DEFINE w == [t EXCEPT !.page = [c \in Layouts |->
                        IF t.page[c] = j /\ c # e THEN i ELSE t.page[c]]]
               v == RemovePage(w, i)
               u == AddPage(v, j, e)
    <3>2. Moved(s, p, e, by) = u
      <4>1. t.page[e] + by = j /\ t.page[e] = i
        BY <2>6, <3>1 DEF j
      <4> QED
        BY <2>3, <2>9, <4>1 DEF LayoutMoved
    <3>3. /\ w \in Editor
          /\ w.kids = t.kids /\ w.up = t.up /\ w.tabs = s.tabs
          /\ w.active = s.active /\ w.closed = s.closed
          /\ w.page = [c \in Layouts |-> IF s.page[c] = j /\ c # e THEN i
                                          ELSE s.page[c]]
      <4>1. [c \in Layouts |-> IF t.page[c] = j /\ c # e THEN i ELSE t.page[c]]
               \in [Layouts -> Nat]
        BY <1>1, <2>4, <2>6
      <4> QED
        BY <2>6, <4>1 DEF Editor
    <3> HIDE DEF n, w
    <3>4. i + 1 \in 1 .. Len(w.tabs) /\ j + 1 \in 1 .. Len(w.tabs)
      BY <2>4, <3>1, <3>3
    <3>5. /\ v \in Editor
          /\ v.kids = t.kids /\ v.up = t.up /\ v.page = w.page
          /\ v.closed = s.closed \cup {e}
          /\ v.tabs = RemoveAt(s.tabs, i + 1)
          /\ v.active = IF s.active > i THEN s.active - 1 ELSE s.active
      <4>1. /\ v \in Editor
            /\ v.kids = w.kids /\ v.up = w.up /\ v.page = w.page
            /\ v.closed = w.closed \cup {w.tabs[i + 1].shows}
            /\ v.tabs = RemoveAt(w.tabs, i + 1)
            /\ v.active = IF w.active > i THEN w.active - 1 ELSE w.active
        BY <2>4, <3>3, <3>4, RemovePageIs
      <4> HIDE DEF v
      <4> QED
        BY <3>1, <3>3, <4>1
    <3> HIDE DEF v
    <3>6. Len(v.tabs) = n /\ j \in 1 .. Len(v.tabs)
      <4>1. PICK m2 \in 1 .. Len(s.tabs) : m2 = i + 1
        BY <3>3, <3>4
      <4>2. Len(RemoveAt(s.tabs, m2)) = Len(s.tabs) - 1
        BY <1>1, RemoveAtIs
      <4> QED
        BY <3>1, <3>5, <4>1, <4>2
    <3>7. /\ u \in Editor
          /\ u.kids = t.kids /\ u.up = t.up
          /\ u.closed = s.closed \cup {e}
          /\ u.tabs = InsertAt(RemoveAt(s.tabs, i + 1), j + 1, NewTab(e))
          /\ u.page = [w.page EXCEPT ![e] = j]
          /\ u.active = IF v.active > j THEN v.active + 1 ELSE v.active
      <4>1. /\ u \in Editor
            /\ u.kids = v.kids /\ u.up = v.up /\ u.closed = v.closed
            /\ u.tabs = InsertAt(v.tabs, j + 1, NewTab(e))
            /\ u.page = [v.page EXCEPT ![e] = j]
            /\ u.active = IF v.active > j THEN v.active + 1 ELSE v.active
        BY <3>1, <3>5, <3>6, AddPageIs
      <4> HIDE DEF u
      <4> QED
        BY <3>5, <4>1
    <3> HIDE DEF u
    <3>8. /\ Len(u.tabs) = n + 1
          /\ u.tabs[j + 1] = NewTab(e) /\ u.tabs[i + 1] = s.tabs[j + 1]
          /\ \A o \in 1 .. (n + 1) : o # i + 1 /\ o # j + 1 => u.tabs[o] = s.tabs[o]
      <4>1. PICK a \in 1 .. Len(s.tabs), b \in 1 .. Len(s.tabs) :
                a = i + 1 /\ b = j + 1 /\ (b = a + 1 \/ b = a - 1)
        BY <2>4, <3>3, <3>4
      <4>2. NewTab(e) \in ProperTab
        BY <3>1, NewTabTyped DEF Holders
      <4>3. u.tabs = InsertAt(RemoveAt(s.tabs, a), b, NewTab(e))
        BY <3>7, <4>1
      <4>4. /\ Len(u.tabs) = Len(s.tabs)
            /\ u.tabs[b] = NewTab(e) /\ u.tabs[a] = s.tabs[b]
            /\ \A o \in 1 .. Len(s.tabs) : o # a /\ o # b => u.tabs[o] = s.tabs[o]
        <5>1. Swapped(ProperTab, s.tabs, a, b, NewTab(e), u.tabs)
          BY <1>1, <4>1, <4>2, <4>3, SwappedIs
        <5> QED
          BY <5>1, Zenon DEF Swapped
      <4> QED
        BY <3>1, <4>1, <4>4
    <3>9. \A o \in 1 .. n : /\ k[o] \in Layouts /\ s.tabs[o + 1].shows = k[o]
                            /\ s.page[k[o]] = o
      BY DEF InStep, n
    <3>10. /\ u.kids[Dep] = q /\ Len(q) = n
           /\ q[j] = e /\ q[i] = k[j]
           /\ \A o \in 1 .. n : o # i /\ o # j => q[o] = k[o]
      BY <1>1, <2>5, <2>6, <2>9, <3>7 DEF n
    <3>11. \A c \in Layouts : c # e => u.page[c] = IF s.page[c] = j THEN i ELSE s.page[c]
      BY <3>3, <3>7
    <3>12. ASSUME NEW o \in 1 .. n
           PROVE  q[o] \in Layouts /\ u.tabs[o + 1].shows = q[o] /\ u.page[q[o]] = o
      <4>1. CASE o = j
        <5>1. u.page[e] = j
          BY <1>1, <3>1, <3>3, <3>7
        <5> QED
          BY <3>1, <3>8, <3>10, <4>1, <5>1, NewTabTyped DEF Holders
      <4>2. CASE o = i
        <5>1. k[j] # e /\ k[j] \in Layouts /\ s.page[k[j]] = j
          BY <2>4, <3>1, <3>9
        <5>2. q[i] = k[j] /\ u.tabs[i + 1] = s.tabs[j + 1]
          BY <3>8, <3>10
        <5>3. s.tabs[j + 1].shows = k[j]
          BY <3>1, <3>9
        <5>4. u.page[k[j]] = i
          BY <3>11, <5>1
        <5> QED
          BY <4>2, <5>1, <5>2, <5>3, <5>4
      <4>3. CASE o # i /\ o # j
        <5>1. o + 1 \in 1 .. (n + 1) /\ o + 1 # i + 1 /\ o + 1 # j + 1
          BY <2>4, <3>1, <4>3
        <5>2. q[o] = k[o] /\ u.tabs[o + 1] = s.tabs[o + 1] /\ k[o] # e
          BY <3>1, <3>8, <3>9, <3>10, <4>3, <5>1
        <5> QED
          BY <3>9, <3>11, <4>3, <5>2
      <4> QED
        BY <4>1, <4>2, <4>3
    <3>13. ASSUME NEW l \in Layouts, l \notin Range(q) PROVE u.page[l] = 0
      <4>1. DOMAIN q = 1 .. n /\ DOMAIN k = 1 .. n
        BY <1>1, <2>5, <3>10 DEF n
      <4>2. l # e /\ l # k[j] /\ \A o \in 1 .. n : o # i /\ o # j => k[o] # l
        BY <3>1, <3>10, <3>13, <4>1 DEF Range
      <4>3. l \notin Range(k)
        BY <3>1, <4>1, <4>2 DEF Range
      <4>4. s.page[l] = 0 /\ j # 0
        BY <3>1, <4>3 DEF InStep
      <4> QED
        BY <3>11, <4>2, <4>4
    <3>14. u.tabs[1].shows = Dep /\ u.active \in 1 .. (n + 1)
      <4>1. 1 \in 1 .. (n + 1) /\ 1 # i + 1 /\ 1 # j + 1 /\ s.tabs[1].shows = Dep
        BY <2>4, <3>1 DEF InStep
      <4>2. u.tabs[1].shows = Dep
        BY <3>8, <4>1
      <4>3. v.active \in 1 .. n
        BY <3>1, <3>5
      <4>4. u.active = v.active \/ u.active = v.active + 1
        BY <3>7
      <4> QED
        BY <3>1, <4>2, <4>3, <4>4
    <3>15. InStep(u)
      <4>1. \A h \in Holders : IsInjective(u.kids[h])
        BY <3>2
      <4>2. Upward(u)
        BY <2>7, <3>7 DEF Upward
      <4> QED
        BY <3>8, <3>10, <3>12, <3>13, <3>14, <4>1, <4>2 DEF InStep
    <3>16. Follows(s, u)
      <4>1. PICK a \in 1 .. (n + 1), b \in 1 .. (n + 1) :
                a = i + 1 /\ b = j + 1 /\ a # b
        BY <2>4, <3>1, <3>3, <3>4
      <4>2. /\ u.tabs[b] = NewTab(e) /\ u.tabs[a] = s.tabs[b]
            /\ \A o \in 1 .. (n + 1) : o # a /\ o # b => u.tabs[o] = s.tabs[o]
            /\ Len(u.tabs) = n + 1 /\ Len(s.tabs) = n + 1 /\ u.closed = {e}
            /\ s.tabs[a].shows = e
        BY <3>1, <3>7, <3>8, <4>1
      <4>3. \A o \in 1 .. (n + 1) : o # a => s.tabs[o].shows # e
        BY <4>2, ShowsOnce
      <4>4. NewTab(e) = NewTab(NewTab(e).shows)
        BY <3>1, NewTabTyped DEF Holders
      <4>5. ASSUME NEW o \in 1 .. (n + 1)
            PROVE  \/ u.tabs[o] = NewTab(u.tabs[o].shows)
                   \/ /\ u.tabs[o].shows \notin u.closed
                      /\ \E m2 \in 1 .. Len(s.tabs) : u.tabs[o] = s.tabs[m2]
        <5>1. CASE o = b
          BY <4>2, <4>4, <5>1
        <5>2. CASE o = a
          BY <4>1, <4>2, <4>3, <5>2
        <5>3. CASE o # a /\ o # b
          BY <4>2, <4>3, <5>3
        <5> QED
          BY <5>1, <5>2, <5>3
      <4>6. ASSUME NEW o \in 1 .. (n + 1)
            PROVE  \/ s.tabs[o].shows \in u.closed
                   \/ \E m2 \in 1 .. Len(u.tabs) : u.tabs[m2] = s.tabs[o]
        <5>1. CASE o = a
          BY <4>2, <5>1
        <5>2. CASE o = b
          BY <4>2, <5>2
        <5>3. CASE o # a /\ o # b
          BY <4>2, <5>3
        <5> QED
          BY <5>1, <5>2, <5>3
      <4> QED
        BY <4>2, <4>5, <4>6 DEF Follows
    <3> QED
      BY <3>2, <3>7, <3>15, <3>16
  <2> QED
    BY <2>8, <2>9
<1> QED
  BY <1>2, <1>3

-----------------------------------------------------------------------------
(* Commands, and what they remember.                                       *)

LEMMA NilIsNoHolder == Nil \notin Holders
BY ElementsAssumption DEF Holders

LEMMA ByOne ==
    ASSUME NEW op
    PROVE  By(op) \in {1, -1} /\ -By(op) \in {1, -1}
<1>1. \A x \in Int : x + 1 = 0 => -x = 1
  OBVIOUS
<1>2. -1 \in Int /\ (-1) + 1 = 0
  OBVIOUS
<1>3. CASE By(op) = -1
  <2>1. By(op) \in Int /\ By(op) + 1 = 0
    BY <1>2, <1>3, Zenon
  <2>2. -By(op) = 1
    BY <1>1, <2>1, Zenon
  <2> QED
    BY <1>3, <2>2, Zenon
<1>4. CASE By(op) = 1
  BY <1>4, Zenon
<1> QED
  BY <1>3, <1>4 DEF By

\* What a proper command says of its element and of what is to hold it.
LEMMA ProperIs ==
    ASSUME NEW c \in ProperCommand
    PROVE  /\ c.e \in Elements \cup {Dep} /\ c.at \in Holders \cup {Nil}
           /\ c.at = Dep => c.e \in Layouts
           /\ c.at # Nil => c.e \in Elements
           /\ c.op \in {"create", "paste"} => c.at # Nil
<1>1. c \in Command
  BY DEF ProperCommand
<1>2. c.e \in Elements \cup {Dep} /\ c.at \in Holders \cup {Nil}
  BY <1>1 DEF Command
<1> QED
  BY <1>2 DEF ProperCommand

\* The parent of an element of the tree is one that may hold it.
LEMMA ParentIs ==
    ASSUME NEW s \in Editor, InStep(s), NEW e \in Elements \cup {Dep},
           s.up[e] # Nil
    PROVE  /\ s.up[e] \in Holders /\ e \in Elements
           /\ s.up[e] = Dep => e \in Layouts
<1>1. s.up \in [Elements \cup {Dep} -> Holders \cup {Nil}] /\ Upward(s)
  BY DEF Editor, InStep
<1> QED
  BY <1>1 DEF Upward, Elements

LEMMA RememberedIs ==
    ASSUME NEW s \in Editor, InStep(s), NEW c \in ProperCommand
    PROVE  Remembered(s, c) \in ProperCommand
<1>1. c \in Command /\ c.e \in Elements \cup {Dep}
  BY DEF ProperCommand, Command
<1>2. s.up[c.e] \in Holders \cup {Nil}
  BY <1>1 DEF Editor
<1>3. CASE c.op = "delete"
  <2> DEFINE d == [c EXCEPT !.at = s.up[c.e]]
  <2>1. d \in Command /\ d.op = "delete" /\ d.e = c.e /\ d.at = s.up[c.e]
    BY <1>1, <1>2, <1>3 DEF Command
  <2>2. d.at # Nil => d.e \in Elements /\ (d.at = Dep => d.e \in Layouts)
    BY <1>1, <2>1, ParentIs
  <2>3. Dep # Nil
    BY ElementsAssumption
  <2> HIDE DEF d
  <2>4. d \in ProperCommand
    BY <2>1, <2>2, <2>3 DEF ProperCommand
  <2> QED
    BY <1>3, <2>4 DEF Remembered, d
<1>4. CASE c.op # "delete"
  BY <1>4 DEF Remembered
<1> QED
  BY <1>3, <1>4

LEMMA RedoneInStep ==
    ASSUME NEW s \in Editor, InStep(s), NEW c \in ProperCommand, ~Throws(s, c),
           s.closed = {},
           \A h \in Holders : IsInjective(Redone(s, c).kids[h])
    PROVE  /\ Redone(s, c) \in Editor /\ InStep(Redone(s, c))
           /\ Follows(s, Redone(s, c))
<1>1. /\ c.e \in Elements \cup {Dep} /\ c.at \in Holders \cup {Nil}
      /\ c.at = Dep => c.e \in Layouts
      /\ c.at # Nil => c.e \in Elements
      /\ c.op \in {"create", "paste"} => c.at # Nil
  BY ProperIs
<1>2. CASE c.op \in {"create", "paste"}
  <2>1. Redone(s, c) = Added(s, c.at, c.e)
    BY <1>2 DEF Redone
  <2> QED
    BY <1>1, <1>2, <2>1, AddedInStep
<1>3. CASE c.op = "delete" /\ s.up[c.e] # Nil
  <2>1. Redone(s, c) = Removed(s, s.up[c.e], c.e)
    BY <1>3 DEF Redone
  <2>2. s.up[c.e] \in Holders /\ c.e \in Elements
    BY <1>1, <1>3, ParentIs
  <2> QED
    BY <2>1, <2>2, RemovedInStep
<1>4. CASE c.op \in {"up", "down"}
  <2>1. Redone(s, c) = Moved(s, s.up[c.e], c.e, By(c.op))
    BY <1>4 DEF Redone
  <2>2. s.up[c.e] \in Holders /\ c.e \in Elements
    BY <1>1, <1>4, ParentIs DEF Throws
  <2> QED
    BY <2>1, <2>2, ByOne, MovedInStep
<1>5. CASE /\ c.op \notin {"create", "paste", "up", "down"}
           /\ ~(c.op = "delete" /\ s.up[c.e] # Nil)
  <2>1. Redone(s, c) = s
    BY <1>5 DEF Redone
  <2> QED
    BY <2>1, FollowsSame
<1> QED
  BY <1>2, <1>3, <1>4, <1>5

LEMMA UndoneInStep ==
    ASSUME NEW s \in Editor, InStep(s), NEW c \in ProperCommand, ~Throws(s, c),
           s.closed = {},
           \A h \in Holders : IsInjective(Undone(s, c).kids[h])
    PROVE  /\ Undone(s, c) \in Editor /\ InStep(Undone(s, c))
           /\ Follows(s, Undone(s, c))
<1>1. /\ c.e \in Elements \cup {Dep} /\ c.at \in Holders \cup {Nil}
      /\ c.at = Dep => c.e \in Layouts
      /\ c.at # Nil => c.e \in Elements
      /\ c.op \in {"create", "paste"} => c.at # Nil
  BY ProperIs
<1>2. CASE c.op = "create"
  <2>1. Undone(s, c) = Removed(s, c.at, c.e)
    BY <1>2 DEF Undone
  <2> QED
    BY <1>1, <1>2, <2>1, RemovedInStep
<1>3. CASE c.op = "paste" /\ s.up[c.e] # Nil
  <2>1. Undone(s, c) = Removed(s, s.up[c.e], c.e)
    BY <1>3 DEF Undone
  <2>2. s.up[c.e] \in Holders /\ c.e \in Elements
    BY <1>1, <1>3, ParentIs
  <2> QED
    BY <2>1, <2>2, RemovedInStep
<1>4. CASE c.op = "delete" /\ c.at # Nil
  <2>1. Undone(s, c) = Added(s, c.at, c.e)
    BY <1>4 DEF Undone
  <2> QED
    BY <1>1, <1>4, <2>1, AddedInStep
<1>5. CASE c.op \in {"up", "down"}
  <2>1. Undone(s, c) = Moved(s, s.up[c.e], c.e, -By(c.op))
    BY <1>5 DEF Undone
  <2>2. s.up[c.e] \in Holders /\ c.e \in Elements
    BY <1>1, <1>5, ParentIs DEF Throws
  <2> QED
    BY <2>1, <2>2, ByOne, MovedInStep
<1>6. CASE /\ c.op \notin {"create", "up", "down"}
           /\ ~(c.op = "paste" /\ s.up[c.e] # Nil)
           /\ ~(c.op = "delete" /\ c.at # Nil)
  <2>1. Undone(s, c) = s
    BY <1>6 DEF Undone
  <2> QED
    BY <2>1, FollowsSame
<1> QED
  BY <1>2, <1>3, <1>4, <1>5, <1>6

-----------------------------------------------------------------------------
(* The invariant, and what the stack of a tab does to it.                  *)

EInv ==
    \/ failed
    \/ /\ ed \in Editor /\ InStep(ed) /\ ed.closed = {}
       /\ Shown(ed) => dirty

LEMMA ShownIs ==
    ASSUME NEW s \in Editor, NEW t \in Editor, t.tabs = s.tabs
    PROVE  Shown(t) <=> Shown(s)
BY DEF Shown

\* Of a tab that has something to save one was there before.
LEMMA FollowedShown ==
    ASSUME NEW s \in Editor, NEW t \in Editor, Follows(s, t), Shown(t)
    PROVE  Shown(s)
<1>1. s.tabs \in Seq(ProperTab) /\ t.tabs \in Seq(ProperTab)
  BY DEF Editor
<1>2. PICK i \in 1 .. Len(t.tabs) : IsDirty(t.tabs[i])
  BY <1>1 DEF Shown
<1>3. PICK j \in 1 .. Len(s.tabs) : t.tabs[i] = s.tabs[j]
  <2>1. t.tabs[i].shows \in Holders
    <3>1. t.tabs[i] \in ProperTab
      BY <1>1
    <3> QED
      BY <3>1 DEF ProperTab
  <2>2. t.tabs[i] # NewTab(t.tabs[i].shows)
    BY <1>2, <2>1, NewTabTyped, Zenon
  <2> QED
    BY <2>2, Zenon DEF Follows
<1> QED
  BY <1>1, <1>2, <1>3 DEF Shown

LEMMA CurrentIs ==
    ASSUME ed \in Editor, InStep(ed)
    PROVE  Current \in ProperTab
<1>1. ed.tabs \in Seq(ProperTab) /\ ed.active \in 1 .. Len(ed.tabs)
  BY DEF Editor, InStep
<1> QED
  BY <1>1 DEF Current

\* r is q with e at o, if there is an o.
PutAt(S, q, o, e, r) ==
    /\ r \in Seq(S) /\ Len(r) = Len(q)
    /\ \A i \in 1 .. Len(q) : r[i] = IF i = o THEN e ELSE q[i]

LEMMA PutAtIs ==
    ASSUME NEW S, NEW q \in Seq(S), NEW o, NEW e \in S
    PROVE  PutAt(S, q, o, e, [q EXCEPT ![o] = e])
<1>1. Len(q) \in Nat /\ q \in [1 .. Len(q) -> S] /\ DOMAIN q = 1 .. Len(q)
  OBVIOUS
<1> DEFINE n == Len(q)
           r == [q EXCEPT ![o] = e]
<1>2. r \in [1 .. n -> S] /\ \A i \in 1 .. n : r[i] = IF i = o THEN e ELSE q[i]
  BY <1>1
<1> HIDE DEF r, n
<1>3. r \in Seq(S) /\ Len(r) = n
  <2>1. n \in Nat
    BY <1>1 DEF n
  <2> QED
    BY <1>2, <2>1
<1> QED
  BY <1>2, <1>3 DEF r, n, PutAt

\* A stack changes on the tab of its layout, wherever that has gone.
LEMMA TabPutIn ==
    ASSUME NEW s \in Editor, InStep(s), NEW tab \in ProperTab
    PROVE  LET i == SelectInSeq(s.tabs, LAMBDA t : t.shows = tab.shows)
               t == [s EXCEPT !.tabs[i] = tab]
           IN  t \in Editor /\ InStep(t)
<1> DEFINE I == {i \in 1 .. Len(s.tabs) : s.tabs[i].shows = tab.shows}
           k == s.kids[Dep]
           o == SelectInSeq(s.tabs, LAMBDA t : t.shows = tab.shows)
           u == [s EXCEPT !.tabs[o] = tab]
<1>1. /\ s.tabs \in Seq(ProperTab) /\ k \in Seq(Elements) /\ IsInjective(k)
      /\ Dep \notin Layouts
  BY DepIsNoLayout DEF Editor, InStep
<1>2. o = IF I # {} THEN Min(I) ELSE 0
  BY DEF SelectInSeq
<1>3. ASSUME NEW i \in I, NEW j \in I PROVE i = j
  BY ShowsOnce
<1>4. o = 0 \/ o \in I
  <2>1. CASE I # {}
    <3>1. PICK i \in I : TRUE
      BY <2>1
    <3>2. I = {i} /\ i \in Nat
      BY <1>3, <3>1
    <3> QED
      BY <1>2, <2>1, <3>2, MinOfOne
  <2> QED
    BY <1>2, <2>1
<1> HIDE DEF o
<1>5. /\ u.tabs \in Seq(ProperTab) /\ Len(u.tabs) = Len(s.tabs)
      /\ \A i \in 1 .. Len(s.tabs) : u.tabs[i].shows = s.tabs[i].shows
  <2>1. u.tabs = [s.tabs EXCEPT ![o] = tab]
    BY DEF Editor
  <2>2. /\ u.tabs \in Seq(ProperTab) /\ Len(u.tabs) = Len(s.tabs)
        /\ \A i \in 1 .. Len(s.tabs) : u.tabs[i] = IF i = o THEN tab ELSE s.tabs[i]
    <3>1. PutAt(ProperTab, s.tabs, o, tab, u.tabs)
      BY <1>1, <2>1, PutAtIs
    <3> HIDE DEF u
    <3> QED
      BY <3>1, Zenon DEF PutAt
  <2>3. ASSUME NEW i \in 1 .. Len(s.tabs) PROVE u.tabs[i].shows = s.tabs[i].shows
    <3>1. CASE i = o
      <4>1. o # 0
        BY <3>1
      <4>2. s.tabs[o].shows = tab.shows
        BY <1>4, <4>1
      <4> QED
        BY <2>2, <3>1, <4>2
    <3>2. CASE i # o
      BY <2>2, <3>2
    <3> QED
      BY <3>1, <3>2
  <2> HIDE DEF u
  <2> QED
    BY <2>2, <2>3
<1>6. /\ u \in Editor /\ u.kids = s.kids /\ u.up = s.up /\ u.page = s.page
      /\ u.active = s.active
  BY <1>5 DEF Editor
<1> HIDE DEF u
<1>7. Len(k) \in Nat /\ Len(s.tabs) = Len(k) + 1
  BY <1>1 DEF InStep
<1>8. /\ 1 \in 1 .. Len(s.tabs)
      /\ \A i \in 1 .. Len(k) : i + 1 \in 1 .. Len(s.tabs)
  BY <1>7
<1>9. InStep(u)
  <2>1. StepsWith(u, k, Len(k))
    BY <1>5, <1>6, <1>8 DEF InStep, StepsWith
  <2>2. Upward(u) /\ \A h \in Holders : IsInjective(u.kids[h])
    BY <1>6 DEF InStep, Upward
  <2>3. k = u.kids[Dep]
    BY <1>6
  <2> QED
    BY <2>1, <2>2, <2>3, InStepIs
<1> QED
  BY <1>6, <1>9 DEF o, u

\* The tree of a step is one to go on from, tabs closed or not.
LEMMA NoneClosed ==
    ASSUME NEW s \in Editor, InStep(s)
    PROVE  LET t == [s EXCEPT !.closed = {}] IN
           /\ t \in Editor /\ InStep(t) /\ t.closed = {} /\ t.tabs = s.tabs
<1> DEFINE t == [s EXCEPT !.closed = {}]
<1>1. /\ t \in Editor /\ t.closed = {} /\ t.kids = s.kids /\ t.up = s.up
      /\ t.tabs = s.tabs /\ t.page = s.page /\ t.active = s.active
  BY DEF Editor
<1> HIDE DEF t
<1>2. Upward(t) /\ \A h \in Holders : IsInjective(t.kids[h])
  BY <1>1 DEF InStep, Upward
<1>3. t.kids[Dep] = s.kids[Dep]
  BY <1>1
<1>4. InStep(t)
  BY <1>1, <1>2, <1>3, SameTabs
<1> QED
  BY <1>1, <1>4 DEF t

LEMMA EndsKeeps ==
    ASSUME ed \in Editor, Shown(ed) => dirty,
           NEW s \in Editor, InStep(s), Follows(ed, s), NEW tab \in ProperTab,
           Ends(s, tab)
    PROVE  EInv'
<1> DEFINE i == SelectInSeq(s.tabs, LAMBDA t : t.shows = tab.shows)
           t == [s EXCEPT !.tabs[i] = tab]
<1>1. CASE tab.shows \in s.closed
  <2>1. ed' = [s EXCEPT !.closed = {}] /\ dirty' = dirty
    BY <1>1 DEF Ends
  <2>2. ed' \in Editor /\ InStep(ed') /\ ed'.closed = {} /\ ed'.tabs = s.tabs
    BY <2>1, NoneClosed, Zenon
  <2>3. Shown(ed') => dirty'
    BY <2>1, <2>2, ShownIs, FollowedShown
  <2> QED
    BY <2>2, <2>3 DEF EInv
<1>2. CASE tab.shows \notin s.closed
  <2>1. ed' = [t EXCEPT !.closed = {}] /\ dirty' = Shown(t)
    BY <1>2, Zenon DEF Ends
  <2>2. t \in Editor /\ InStep(t)
    BY TabPutIn, Zenon
  <2> HIDE DEF t
  <2>3. ed' \in Editor /\ InStep(ed') /\ ed'.closed = {} /\ ed'.tabs = t.tabs
    BY <2>1, <2>2, NoneClosed, Zenon
  <2>4. Shown(ed') => dirty'
    BY <2>1, <2>2, <2>3, ShownIs
  <2> QED
    BY <2>3, <2>4 DEF EInv
<1> QED
  BY <1>1, <1>2

-----------------------------------------------------------------------------
(* The steps.                                                              *)

LEMMA SetToSeqIs ==
    ASSUME NEW S, IsFiniteSet(S)
    PROVE  /\ Cardinality(S) \in Nat
           /\ SetToSeq(S) \in Seq(S) /\ Len(SetToSeq(S)) = Cardinality(S)
           /\ IsInjective(SetToSeq(S))
<1> DEFINE n == Cardinality(S)
<1>1. n \in Nat /\ ExistsBijection(1 .. n, S)
  BY FS_CardinalityType
<1>2. \E f \in [1 .. n -> S] : IsInjective(f)
  BY <1>1 DEF ExistsBijection, Bijection, Injection, IsInjective
<1>3. SetToSeq(S) \in [1 .. n -> S] /\ IsInjective(SetToSeq(S))
  BY <1>2, Zenon DEF SetToSeq
<1> HIDE DEF n
<1>4. SetToSeq(S) \in Seq(S) /\ Len(SetToSeq(S)) = n
  BY <1>1, <1>3
<1> QED
  BY <1>1, <1>3, <1>4 DEF n

\* The regions of a pasted layout are new ones.
LEMMA NewRegionsIs ==
    ASSUME NEW n \in 0 .. Cardinality(Regions \ made)
    PROVE  /\ NewRegions(n) \in Seq(Regions) /\ Len(NewRegions(n)) = n
           /\ IsInjective(NewRegions(n))
<1> DEFINE q == SetToSeq(Regions \ made)
<1>1. IsFiniteSet(Regions \ made)
  BY ElementsAssumption, FS_Subset
<1>2. /\ q \in Seq(Regions \ made) /\ Len(q) = Cardinality(Regions \ made)
      /\ IsInjective(q) /\ Len(q) \in Nat
  BY <1>1, SetToSeqIs
<1> HIDE DEF q
<1>3. /\ SubSeq(q, 1, n) \in Seq(Regions) /\ Len(SubSeq(q, 1, n)) = n
      /\ DOMAIN SubSeq(q, 1, n) = 1 .. n
      /\ \A i \in 1 .. n : SubSeq(q, 1, n)[i] = q[i] /\ i \in DOMAIN q
  <2>1. n \in Nat /\ n <= Len(q) /\ DOMAIN q = 1 .. Len(q) /\ q \in Seq(Regions)
    BY <1>2
  <2>2. \A i \in 1 .. n : i \in 1 .. Len(q)
    BY <1>2, <2>1
  <2> QED
    BY <2>1, <2>2
<1>4. IsInjective(SubSeq(q, 1, n))
  BY <1>2, <1>3 DEF IsInjective
<1> QED
  BY <1>3, <1>4 DEF NewRegions, q

\* When there is a region to create, one is taken.
LEMMA OneNewRegion ==
    ASSUME ~(Regions \subseteq made)
    PROVE  NewRegions(1)[1] \in Regions
<1>1. IsFiniteSet(Regions \ made) /\ Regions \ made # {}
  BY ElementsAssumption, FS_Subset
<1>2. Cardinality(Regions \ made) \in Nat /\ Cardinality(Regions \ made) # 0
  BY <1>1, FS_CardinalityType, FS_EmptySet
<1>3. 1 \in 0 .. Cardinality(Regions \ made)
  BY <1>2
<1>4. NewRegions(1) \in Seq(Regions) /\ Len(NewRegions(1)) = 1
  BY <1>3, NewRegionsIs
<1> QED
  BY <1>4

LEMMA NewLayoutIs ==
    ASSUME ~(Layouts \subseteq made)
    PROVE  NewLayout \in Layouts
BY DEF NewLayout

\* A command on the stack of the active tab.
LEMMA ExecuteKeeps ==
    ASSUME EInv, NEW s \in Editor, InStep(s), s.tabs = ed.tabs, s.closed = {},
           NEW c \in ProperCommand, ~Throws(s, c), Execute(s, c)
    PROVE  EInv'
<1> DEFINE tab == [Current EXCEPT !.undo = Append(@, Remembered(s, c)),
                                  !.redo = <<>>,
                                  !.saved = IF @ > Len(Current.undo) THEN -1 ELSE @]
<1>1. ed \in Editor /\ InStep(ed) /\ ed.closed = {} /\ (Shown(ed) => dirty)
  BY DEF EInv, Execute
<1>2. Ends(Redone(s, c), tab)
  BY DEF Execute
<1>3. tab \in ProperTab
  <2>1. Current \in ProperTab /\ Remembered(s, c) \in ProperCommand
    BY <1>1, CurrentIs, RememberedIs
  <2>2. /\ Append(Current.undo, Remembered(s, c)) \in Seq(ProperCommand)
        /\ <<>> \in Seq(ProperCommand)
        /\ (IF Current.saved > Len(Current.undo) THEN -1 ELSE Current.saved) \in Int
    BY <2>1 DEF ProperTab
  <2> QED
    BY <2>1, <2>2 DEF ProperTab
<1> HIDE DEF tab
<1>4. CASE failed'
  BY <1>4 DEF EInv
<1>5. CASE ~failed'
  <2>1. \A h \in Holders : IsInjective(Redone(s, c).kids[h])
    BY <1>2, <1>5 DEF Ends
  <2>2. /\ Redone(s, c) \in Editor /\ InStep(Redone(s, c))
        /\ Follows(s, Redone(s, c))
    BY <2>1, RedoneInStep
  <2>3. Follows(ed, Redone(s, c))
    BY <2>2 DEF Follows
  <2> QED
    BY <1>1, <1>2, <1>3, <2>2, <2>3, EndsKeeps
<1> QED
  BY <1>4, <1>5

\* The end of an undo list or a redo list.
LEMMA LastOf ==
    ASSUME NEW S, NEW q \in Seq(S), q # <<>>
    PROVE  Last(q) \in S /\ Front(q) \in Seq(S)
BY DEF Last, Front

LEMMA UndoKeeps ==
    ASSUME EInv, Undo
    PROVE  EInv'
<1>1. ed \in Editor /\ InStep(ed) /\ ed.closed = {} /\ (Shown(ed) => dirty)
  BY DEF EInv, Undo
<1> DEFINE c == Last(Current.undo)
           popped == [Current EXCEPT !.undo = Front(@)]
           tab == [popped EXCEPT !.redo = Append(@, c)]
<1>2. Current \in ProperTab
  BY <1>1, CurrentIs
<1>3. c \in ProperCommand /\ Front(Current.undo) \in Seq(ProperCommand)
  <2>1. Current.undo \in Seq(ProperCommand) /\ Current.undo # <<>>
    BY <1>2 DEF ProperTab, Undo
  <2> QED
    BY <2>1, LastOf
<1>4. tab \in ProperTab
  <2>1. Append(Current.redo, c) \in Seq(ProperCommand)
    BY <1>2, <1>3 DEF ProperTab
  <2> QED
    BY <1>2, <1>3, <2>1 DEF ProperTab
<1>5. CASE Throws(ed, c)
  BY <1>5 DEF Undo, Fails, EInv
<1>6. CASE ~Throws(ed, c)
  <2>1. Ends(Undone(ed, c), tab)
    BY <1>6, Zenon DEF Undo
  <2> HIDE DEF tab, c
  <2>2. CASE failed'
    BY <2>2 DEF EInv
  <2>3. CASE ~failed'
    <3>1. \A h \in Holders : IsInjective(Undone(ed, c).kids[h])
      BY <2>1, <2>3 DEF Ends
    <3>2. /\ Undone(ed, c) \in Editor /\ InStep(Undone(ed, c))
          /\ Follows(ed, Undone(ed, c))
      BY <1>1, <1>3, <1>6, <3>1, UndoneInStep
    <3> QED
      BY <1>1, <1>4, <2>1, <3>2, EndsKeeps
  <2> QED
    BY <2>2, <2>3
<1> QED
  BY <1>5, <1>6

LEMMA RedoKeeps ==
    ASSUME EInv, Redo
    PROVE  EInv'
<1>1. ed \in Editor /\ InStep(ed) /\ ed.closed = {} /\ (Shown(ed) => dirty)
  BY DEF EInv, Redo
<1> DEFINE c == Last(Current.redo)
           popped == [Current EXCEPT !.redo = Front(@)]
           tab == [popped EXCEPT !.undo = Append(@, Remembered(ed, c))]
<1>2. Current \in ProperTab
  BY <1>1, CurrentIs
<1>3. c \in ProperCommand /\ Front(Current.redo) \in Seq(ProperCommand)
  <2>1. Current.redo \in Seq(ProperCommand) /\ Current.redo # <<>>
    BY <1>2 DEF ProperTab, Redo
  <2> QED
    BY <2>1, LastOf
<1>4. tab \in ProperTab
  <2>1. Remembered(ed, c) \in ProperCommand
    BY <1>1, <1>3, RememberedIs
  <2>2. Append(Current.undo, Remembered(ed, c)) \in Seq(ProperCommand)
    BY <1>2, <2>1 DEF ProperTab
  <2> QED
    BY <1>2, <1>3, <2>2 DEF ProperTab
<1>5. CASE Throws(ed, c)
  BY <1>5 DEF Redo, Fails, EInv
<1>6. CASE ~Throws(ed, c)
  <2>1. Ends(Redone(ed, c), tab)
    BY <1>6, Zenon DEF Redo
  <2> HIDE DEF tab, c
  <2>2. CASE failed'
    BY <2>2 DEF EInv
  <2>3. CASE ~failed'
    <3>1. \A h \in Holders : IsInjective(Redone(ed, c).kids[h])
      BY <2>1, <2>3 DEF Ends
    <3>2. /\ Redone(ed, c) \in Editor /\ InStep(Redone(ed, c))
          /\ Follows(ed, Redone(ed, c))
      BY <1>1, <1>3, <1>6, <3>1, RedoneInStep
    <3> QED
      BY <1>1, <1>4, <2>1, <3>2, EndsKeeps
  <2> QED
    BY <2>2, <2>3
<1> QED
  BY <1>5, <1>6

LEMMA SaveKeeps ==
    ASSUME EInv, Save
    PROVE  EInv'
<1>1. ed \in Editor /\ InStep(ed) /\ ed.closed = {} /\ (Shown(ed) => dirty)
  BY DEF EInv, Save
<1>2. [Current EXCEPT !.saved = Len(Current.undo)] \in ProperTab
  BY <1>1, CurrentIs DEF ProperTab
<1>3. Follows(ed, ed)
  BY <1>1, FollowsSame
<1> QED
  BY <1>1, <1>2, <1>3, EndsKeeps DEF Save

LEMMA SelectKeeps ==
    ASSUME EInv, NEW i, SelectTab(i)
    PROVE  EInv'
<1>1. CASE failed
  BY <1>1 DEF EInv, SelectTab
<1>2. CASE ~failed
  <2>1. ed \in Editor /\ InStep(ed) /\ ed.closed = {} /\ (Shown(ed) => dirty)
    BY <1>2 DEF EInv
  <2> DEFINE t == [ed EXCEPT !.active = i]
  <2>2. i \in 1 .. Len(ed.tabs) /\ i \in Nat
    BY <2>1 DEF SelectTab, Editor
  <2>3. /\ t \in Editor /\ t.kids = ed.kids /\ t.up = ed.up /\ t.active = i
        /\ t.tabs = ed.tabs /\ t.page = ed.page /\ t.closed = {}
    BY <2>1, <2>2 DEF Editor
  <2> HIDE DEF t
  <2>4. InStep(t)
    <3>1. Upward(t) /\ \A h \in Holders : IsInjective(t.kids[h])
      BY <2>1, <2>3 DEF InStep, Upward
    <3>2. StepsWith(t, ed.kids[Dep], Len(ed.kids[Dep]))
      BY <2>1, <2>2, <2>3 DEF InStep, StepsWith
    <3>3. ed.kids[Dep] = t.kids[Dep]
      BY <2>3
    <3> QED
      BY <3>1, <3>2, <3>3, InStepIs
  <2>5. Shown(t) => dirty
    BY <2>1, <2>3, ShownIs
  <2>6. ed' = t /\ dirty' = dirty
    BY DEF SelectTab, t
  <2> QED
    BY <2>3, <2>4, <2>5, <2>6 DEF EInv
<1> QED
  BY <1>1, <1>2

\* The copy of a layout has its regions before it is pasted.
LEMMA CopyIs ==
    ASSUME ed \in Editor, InStep(ed), NEW l \in Layouts, NEW q \in Seq(Regions),
           IsInjective(q)
    PROVE  LET s == [ed EXCEPT !.kids[l] = q] IN
           s \in Editor /\ InStep(s) /\ s.tabs = ed.tabs /\ s.closed = ed.closed
<1> DEFINE s == [ed EXCEPT !.kids[l] = q]
<1>1. q \in Seq(Elements) /\ l \in Holders /\ l # Dep /\ Dep \in Holders
  <2>1. Regions \subseteq Elements
    BY DEF Elements
  <2> QED
    BY <2>1, DepIsNoLayout DEF Holders
<1>2. ed.kids \in [Holders -> Seq(Elements)]
  BY DEF Editor
<1>3. /\ s \in Editor /\ s.kids = [ed.kids EXCEPT ![l] = q] /\ s.up = ed.up
      /\ s.tabs = ed.tabs /\ s.page = ed.page /\ s.active = ed.active
      /\ s.closed = ed.closed
  BY <1>1, <1>2 DEF Editor
<1> HIDE DEF s
<1>4. s.kids[Dep] = ed.kids[Dep]
  BY <1>1, <1>2, <1>3
<1>5. \A h \in Holders : IsInjective(s.kids[h])
  <2>1. \A h \in Holders : IsInjective(ed.kids[h])
    BY DEF InStep
  <2> QED
    BY <1>1, <1>2, <1>3, <2>1
<1>6. Upward(s)
  BY <1>3 DEF InStep, Upward
<1>7. InStep(s)
  BY <1>3, <1>4, <1>5, <1>6, SameTabs
<1> QED
  BY <1>3, <1>7 DEF s

\* A command at h, on its element e.
LEMMA CommandIs ==
    ASSUME NEW op \in {"create", "paste", "delete", "up", "down", "none"},
           NEW e \in Elements \cup {Dep}, NEW h \in Holders \cup {Nil},
           h # Nil \/ op \in {"up", "down"} => e \in Elements,
           h = Dep => e \in Layouts, op \in {"create", "paste"} => h # Nil
    PROVE  [op |-> op, e |-> e, at |-> h] \in ProperCommand
<1> DEFINE c == [op |-> op, e |-> e, at |-> h]
<1>1. c \in Command /\ c.op = op /\ c.e = e /\ c.at = h
  BY DEF Command
<1> HIDE DEF c
<1>2. c \in ProperCommand
  BY <1>1 DEF ProperCommand
<1> QED
  BY <1>2 DEF c

LEMMA UserKeeps ==
    ASSUME EInv,
           \/ CreateLayout
           \/ CreateRegion
           \/ \E e \in Elements \cup {Dep} : Delete(e)
           \/ \E l \in Layouts : DeleteLayout(l) \/ PasteLayout(l)
           \/ \E e \in Elements, op \in {"up", "down"} : Move(e, op)
           \/ \E src \in Regions, l \in Layouts : PasteRegion(src, l)
    PROVE  EInv'
<1>1. ~failed
  BY DEF CreateLayout, CreateRegion, Delete, DeleteLayout, PasteLayout, Move,
         PasteRegion, Execute
<1>2. ed \in Editor /\ InStep(ed) /\ ed.closed = {}
  BY <1>1 DEF EInv
<1>3. /\ Dep \in Holders /\ Nil \notin Holders /\ Dep # Nil
      /\ Layouts \subseteq Elements /\ Regions \subseteq Elements
      /\ Layouts \subseteq Holders /\ Dep \notin Elements
  BY DepIsNoLayout, NilIsNoHolder DEF Elements, Holders
<1>4. ASSUME NEW c \in ProperCommand, c.op \notin {"up", "down"}, Execute(ed, c)
      PROVE  EInv'
  BY <1>2, <1>4, ExecuteKeeps DEF Throws
<1>5. CASE CreateLayout
  <2> DEFINE c == [op |-> "create", e |-> NewLayout, at |-> Dep]
  <2>1. NewLayout \in Layouts
    BY <1>5, NewLayoutIs DEF CreateLayout
  <2>2. c \in ProperCommand
    BY <1>3, <2>1, CommandIs
  <2> QED
    BY <1>4, <1>5, <2>2 DEF CreateLayout
<1>6. CASE CreateRegion
  <2> DEFINE c == [op |-> "create", e |-> NewRegions(1)[1], at |-> Current.shows]
  <2>1. NewRegions(1)[1] \in Regions
    BY <1>6, OneNewRegion DEF CreateRegion
  <2>2. Current.shows \in Holders /\ Current.shows # Dep
    BY <1>2, <1>6, CurrentIs DEF ProperTab, CreateRegion
  <2>3. c \in ProperCommand
    BY <1>3, <2>1, <2>2, CommandIs
  <2> QED
    BY <1>4, <1>6, <2>3 DEF CreateRegion
<1>7. ASSUME NEW e \in Elements \cup {Dep}, Delete(e) PROVE EInv'
  <2> DEFINE c == [op |-> "delete", e |-> e, at |-> Nil]
  <2>1. c \in ProperCommand
    BY <1>3, CommandIs
  <2> QED
    BY <1>4, <1>7, <2>1 DEF Delete
<1>8. ASSUME NEW l \in Layouts, DeleteLayout(l) PROVE EInv'
  <2> DEFINE c == [op |-> "none", e |-> l, at |-> Dep]
  <2>1. c \in ProperCommand
    BY <1>3, CommandIs
  <2> QED
    BY <1>4, <1>8, <2>1 DEF DeleteLayout
<1>9. ASSUME NEW src \in Layouts, PasteLayout(src) PROVE EInv'
  <2> DEFINE n == Len(ed.kids[src])
             c == [op |-> "paste", e |-> NewLayout, at |-> Dep]
             s == [ed EXCEPT !.kids[NewLayout] = NewRegions(n)]
  <2>1. NewLayout \in Layouts
    BY <1>9, NewLayoutIs DEF PasteLayout
  <2>2. n \in 0 .. Cardinality(Regions \ made)
    <3>1. n \in Nat
      <4>1. ed.kids[src] \in Seq(Elements)
        BY <1>2, <1>3 DEF Editor
      <4> QED
        BY <4>1
    <3>2. Cardinality(Regions \ made) \in Nat
      BY ElementsAssumption, FS_Subset, FS_CardinalityType
    <3>3. Cardinality(Regions \ made) >= n
      BY <1>9 DEF PasteLayout
    <3> QED
      BY <3>1, <3>2, <3>3
  <2>3. c \in ProperCommand
    BY <1>3, <2>1, CommandIs
  <2>4. Execute(s, c) /\ ~Throws(s, c)
    BY <1>9 DEF PasteLayout, Throws
  <2>5. NewRegions(n) \in Seq(Regions) /\ IsInjective(NewRegions(n))
    BY <2>2, NewRegionsIs
  <2>6. s \in Editor /\ InStep(s) /\ s.tabs = ed.tabs /\ s.closed = {}
    BY <1>2, <2>1, <2>5, CopyIs
  <2> HIDE DEF c, s
  <2> QED
    BY <2>3, <2>4, <2>6, ExecuteKeeps
<1>10. ASSUME NEW e \in Elements, NEW op \in {"up", "down"}, Move(e, op)
       PROVE  EInv'
  <2> DEFINE c == [op |-> op, e |-> e, at |-> Nil]
  <2>1. c \in ProperCommand
    BY <1>3, CommandIs
  <2>2. Execute(ed, c) /\ ~Throws(ed, c)
    BY <1>10 DEF Move, Throws
  <2> HIDE DEF c
  <2> QED
    BY <1>2, <2>1, <2>2, ExecuteKeeps
<1>11. ASSUME NEW src \in Regions, NEW l \in Layouts, PasteRegion(src, l)
       PROVE  EInv'
  <2> DEFINE c == [op |-> "paste", e |-> NewRegions(1)[1], at |-> l]
  <2>1. NewRegions(1)[1] \in Regions
    BY <1>11, OneNewRegion DEF PasteRegion
  <2>2. c \in ProperCommand
    BY <1>3, <2>1, CommandIs, DepIsNoLayout
  <2> QED
    BY <1>4, <1>11, <2>2 DEF PasteRegion
<1> QED
  BY <1>5, <1>6, <1>7, <1>8, <1>9, <1>10, <1>11

-----------------------------------------------------------------------------
(* The file that is opened.                                                *)

\* The tree of the file.
LEMMA OpenedTree ==
    ASSUME Init
    PROVE  /\ ed.kids \in [Holders -> Seq(Elements)] /\ ed.kids[Dep] = Opened
           /\ \A h \in Holders : IsInjective(ed.kids[h])
           /\ ed.up \in [Elements \cup {Dep} -> Holders \cup {Nil}] /\ Upward(ed)
<1>1. /\ Opened \in Seq(Layouts) /\ IsInjective(Opened)
      /\ OpenedIn \in [Layouts -> SUBSET Regions]
      /\ Dep \notin Elements /\ Layouts \cap Regions = {} /\ Dep \notin Layouts
      /\ Dep \notin Regions
  BY OpenedAssumption, ElementsAssumption DEF Elements
<1>2. Range(Opened) \subseteq Layouts
  BY <1>1 DEF Range
<1>3. ASSUME NEW h \in Layouts
      PROVE  SetToSeq(OpenedIn[h]) \in Seq(Elements) /\ IsInjective(SetToSeq(OpenedIn[h]))
  <2>1. OpenedIn[h] \subseteq Regions /\ IsFiniteSet(OpenedIn[h])
    BY <1>1, ElementsAssumption, FS_Subset
  <2>2. SetToSeq(OpenedIn[h]) \in Seq(OpenedIn[h]) /\ IsInjective(SetToSeq(OpenedIn[h]))
    BY <2>1, SetToSeqIs
  <2> QED
    BY <2>1, <2>2 DEF Elements
<1>4. Opened \in Seq(Elements)
  BY <1>1 DEF Elements
<1>5. /\ ed.kids = [h \in Holders |-> IF h = Dep THEN Opened ELSE SetToSeq(OpenedIn[h])]
      /\ ed.up = [e \in Elements \cup {Dep} |->
                     IF e \in Range(Opened) THEN Dep
                     ELSE LET in == {l \in Range(Opened) : e \in OpenedIn[l]}
                          IN  IF in = {} THEN Nil ELSE CHOOSE l \in in : TRUE]
  BY DEF Init
<1>6. /\ ed.kids \in [Holders -> Seq(Elements)] /\ ed.kids[Dep] = Opened
      /\ \A h \in Holders : IsInjective(ed.kids[h])
  <2>1. \A h \in Holders : h = Dep \/ h \in Layouts
    BY DEF Holders
  <2> QED
    BY <1>1, <1>3, <1>4, <1>5, <2>1, DepIsNoLayout
<1>7. ASSUME NEW e \in Elements \cup {Dep}
      PROVE  /\ ed.up[e] \in Holders \cup {Nil}
             /\ e \notin Layouts => ed.up[e] # Dep
             /\ e \notin Elements => ed.up[e] = Nil
  <2> DEFINE in == {l \in Range(Opened) : e \in OpenedIn[l]}
  <2>1. ed.up[e] = IF e \in Range(Opened) THEN Dep
                   ELSE IF in = {} THEN Nil ELSE CHOOSE l \in in : TRUE
    BY <1>5
  <2>2. in # {} => (CHOOSE l \in in : TRUE) \in in
    OBVIOUS
  <2>3. in \subseteq Layouts /\ (e \notin Elements => in = {})
    BY <1>1, <1>2 DEF Elements
  <2>4. Dep # Nil /\ Layouts \subseteq Elements
    BY ElementsAssumption DEF Elements
  <2> HIDE DEF in
  <2> QED
    BY <1>1, <1>2, <2>1, <2>2, <2>3, <2>4 DEF Holders
<1>8. ed.up \in [Elements \cup {Dep} -> Holders \cup {Nil}]
  BY <1>5, <1>7
<1>9. Upward(ed)
  <2>1. \A e \in Regions : e \in Elements /\ e \notin Layouts
    BY <1>1 DEF Elements
  <2> QED
    BY <1>1, <1>7, <2>1 DEF Upward
<1> QED
  BY <1>6, <1>8, <1>9

\* r is e, followed by b.
LedBy(S, e, b, r) ==
    /\ r \in Seq(S) /\ Len(r) = Len(b) + 1 /\ r[1] = e
    /\ \A i \in 1 .. Len(b) : r[i + 1] = b[i]

LEMMA LedByIs ==
    ASSUME NEW S, NEW e \in S, NEW b \in Seq(S)
    PROVE  LedBy(S, e, b, <<e>> \o b)
BY DEF LedBy

LEMMA OpenedTabs ==
    ASSUME Init
    PROVE  /\ ed.tabs \in Seq(ProperTab) /\ Len(ed.tabs) = Len(Opened) + 1
           /\ ed.tabs[1] = NewTab(Dep)
           /\ \A i \in 1 .. Len(Opened) : ed.tabs[i + 1] = NewTab(Opened[i])
<1> DEFINE b == [i \in DOMAIN Opened |-> NewTab(Opened[i])]
<1>1. Opened \in Seq(Layouts) /\ Len(Opened) \in Nat /\ DOMAIN Opened = 1 .. Len(Opened)
  BY OpenedAssumption
<1>2. ed.tabs = <<NewTab(Dep)>> \o b
  BY DEF Init
<1>3. NewTab(Dep) \in ProperTab
  BY DepIsNoLayout, NewTabTyped
<1>4. /\ b \in Seq(ProperTab) /\ Len(b) = Len(Opened)
      /\ \A i \in 1 .. Len(Opened) : b[i] = NewTab(Opened[i])
  <2>1. \A i \in 1 .. Len(Opened) : Opened[i] \in Holders
    BY <1>1 DEF Holders
  <2>2. \A i \in 1 .. Len(Opened) : NewTab(Opened[i]) \in ProperTab
    BY <2>1, NewTabTyped
  <2> QED
    BY <1>1, <2>2
<1> HIDE DEF b
<1>5. LedBy(ProperTab, NewTab(Dep), b, ed.tabs)
  BY <1>2, <1>3, <1>4, LedByIs
<1> QED
  BY <1>4, <1>5 DEF LedBy

LEMMA InitKeeps ==
    ASSUME Init
    PROVE  EInv
<1> DEFINE n == Len(Opened)
<1>1. /\ Opened \in Seq(Layouts) /\ IsInjective(Opened) /\ n \in Nat
      /\ DOMAIN Opened = 1 .. n /\ \A i \in 1 .. n : Opened[i] \in Layouts
  BY OpenedAssumption
<1>2. ed.page = [l \in Layouts |-> IF l \in Range(Opened)
                                    THEN CHOOSE i \in DOMAIN Opened : Opened[i] = l
                                    ELSE 0]
  BY DEF Init
<1>3. /\ \A i \in 1 .. n : ed.page[Opened[i]] = i
      /\ \A l \in Layouts : l \notin Range(Opened) => ed.page[l] = 0
  <2>1. ASSUME NEW i \in 1 .. n PROVE ed.page[Opened[i]] = i
    <3>1. Opened[i] \in Range(Opened)
      BY <1>1 DEF Range
    <3>2. \A j \in 1 .. n : Opened[j] = Opened[i] <=> j = i
      BY <1>1 DEF IsInjective
    <3> QED
      BY <1>1, <1>2, <3>1, <3>2
  <2> QED
    BY <1>2, <2>1
<1>4. ed.page \in [Layouts -> Nat]
  <2>1. ASSUME NEW l \in Layouts PROVE ed.page[l] \in Nat
    <3>1. CASE l \in Range(Opened)
      <4>1. PICK i \in 1 .. n : Opened[i] = l
        BY <1>1, <3>1 DEF Range
      <4> QED
        BY <1>1, <1>3, <4>1
    <3> QED
      BY <1>3, <3>1
  <2> QED
    BY <1>2, <2>1
<1>5. /\ ed \in Editor /\ ed.active = 1 /\ ed.closed = {}
  <2>1. /\ DOMAIN ed = {"kids", "up", "tabs", "page", "active", "closed"}
        /\ ed = [kids |-> ed.kids, up |-> ed.up, tabs |-> ed.tabs,
                 page |-> ed.page, active |-> 1, closed |-> {}]
    BY DEF Init
  <2>2. ed.active = 1 /\ ed.closed = {}
    BY DEF Init
  <2> QED
    BY <1>4, <2>1, <2>2, OpenedTree, OpenedTabs DEF Editor
<1>6. StepsWith(ed, Opened, n)
  <2>1. ed.tabs[1].shows = Dep
    BY OpenedTabs, NewTabTyped, DepIsNoLayout
  <2>2. ASSUME NEW i \in 1 .. n PROVE ed.tabs[i + 1].shows = Opened[i]
    <3>1. Opened[i] \in Holders
      BY <1>1 DEF Holders
    <3> QED
      BY <3>1, OpenedTabs, NewTabTyped
  <2>3. 1 \in 1 .. (n + 1) /\ Len(ed.tabs) = n + 1
    BY <1>1, OpenedTabs
  <2> HIDE DEF n
  <2> QED
    BY <1>1, <1>3, <1>5, <2>1, <2>2, <2>3 DEF StepsWith
<1>7. InStep(ed)
  BY <1>6, OpenedTree, InStepIs
<1>8. ~Shown(ed)
  <2> SUFFICES ASSUME NEW i \in DOMAIN ed.tabs, IsDirty(ed.tabs[i]) PROVE FALSE
    BY DEF Shown
  <2>1. i \in 1 .. (n + 1)
    BY <1>1, OpenedTabs
  <2>2. CASE i = 1
    BY <2>2, OpenedTabs, NewTabTyped, DepIsNoLayout
  <2>3. CASE i # 1
    <3>1. i - 1 \in 1 .. n /\ (i - 1) + 1 = i
      BY <1>1, <2>1, <2>3
    <3>2. ed.tabs[i] = NewTab(Opened[i - 1]) /\ Opened[i - 1] \in Holders
      BY <1>1, <3>1, OpenedTabs DEF Holders
    <3> QED
      BY <3>2, NewTabTyped
  <2> QED
    BY <2>2, <2>3
<1> QED
  BY <1>5, <1>7, <1>8 DEF EInv

LEMMA Always == Spec => []EInv
<1>1. Init => EInv
  BY InitKeeps
<1>2. EInv /\ [Next]_vars => EInv'
  <2> SUFFICES ASSUME EInv, [Next]_vars PROVE EInv'
    OBVIOUS
  <2>1. CASE Undo
    BY <2>1, UndoKeeps
  <2>2. CASE Redo
    BY <2>2, RedoKeeps
  <2>3. CASE Save
    BY <2>3, SaveKeeps
  <2>4. CASE \E i \in 1 .. (Cardinality(Layouts) + 1) : SelectTab(i)
    BY <2>4, SelectKeeps
  <2>5. CASE UNCHANGED vars
    BY <2>5 DEF vars, EInv, Shown, InStep, Upward
  <2> QED
    BY <2>1, <2>2, <2>3, <2>4, <2>5, UserKeeps DEF Next
<1> QED
  BY <1>1, <1>2, PTL DEF Spec

-----------------------------------------------------------------------------

\* The tabs are those of the layouts, in their order, and the map of the
\* editor knows the place of each (DeploymentEditor.propertyChange), for any
\* layouts, regions and number of commands.
THEOREM TabsCorrect == Spec => []TabsFollowLayouts
<1>1. EInv => TabsFollowLayouts
  <2> SUFFICES ASSUME ed \in Editor, InStep(ed)
               PROVE  /\ ed.active \in DOMAIN ed.tabs
                      /\ [i \in DOMAIN ed.tabs |-> ed.tabs[i].shows] = <<Dep>> \o ed.kids[Dep]
                      /\ \A l \in Layouts : ed.page[l] = PlaceOf(ed, Dep, l)
    BY DEF EInv, TabsFollowLayouts
  <2> DEFINE k == ed.kids[Dep]
             n == Len(k)
  <2>1. /\ ed.tabs \in Seq(ProperTab) /\ k \in Seq(Elements) /\ IsInjective(k)
        /\ n \in Nat /\ DOMAIN k = 1 .. n /\ Len(ed.tabs) = n + 1
        /\ DOMAIN ed.tabs = 1 .. (n + 1)
    BY DepIsNoLayout DEF Editor, InStep
  <2>2. ed.active \in DOMAIN ed.tabs
    BY <2>1 DEF InStep
  <2>3. [i \in DOMAIN ed.tabs |-> ed.tabs[i].shows] = <<Dep>> \o k
    <3>1. ed.tabs[1].shows = Dep /\ \A i \in 1 .. n : ed.tabs[i + 1].shows = k[i]
      BY DEF InStep
    <3> HIDE DEF n, k
    <3>2. ASSUME NEW i \in 1 .. (n + 1)
          PROVE  ed.tabs[i].shows = IF i = 1 THEN Dep ELSE k[i - 1]
      <4>1. CASE i # 1
        <5>1. PICK j \in 1 .. n : j = i - 1 /\ i = j + 1
          BY <2>1, <4>1
        <5> QED
          BY <3>1, <4>1, <5>1
      <4> QED
        BY <3>1, <4>1
    <3>3. <<Dep>> \o k = [i \in 1 .. (n + 1) |-> IF i = 1 THEN Dep ELSE k[i - 1]]
      BY <2>1 DEF n
    <3> QED
      BY <2>1, <3>2, <3>3
  <2>4. ASSUME NEW l \in Layouts PROVE ed.page[l] = PlaceOf(ed, Dep, l)
    <3>1. CASE l \in Range(k)
      <4>1. PICK i \in 1 .. n : k[i] = l
        BY <2>1, <3>1 DEF Range
      <4>2. ed.page[l] = i
        BY <4>1 DEF InStep
      <4>3. PlaceOf(ed, Dep, l) = i
        BY <2>1, <4>1, PlaceOfListed
      <4> QED
        BY <4>2, <4>3
    <3>2. CASE l \notin Range(k)
      BY <2>1, <3>2, PlaceOfOthers DEF InStep
    <3> QED
      BY <3>1, <3>2
  <2> QED
    BY <2>2, <2>3, <2>4
<1> QED
  BY <1>1, Always, PTL

\* An editor with a tab that has something to save is dirty
\* (DeploymentEditor.commandStackChanged), also when a tab was closed by the
\* very command that changed it.
THEOREM DirtyCorrect == Spec => []DirtyTabShows
<1>1. EInv => DirtyTabShows
  BY DEF EInv, DirtyTabShows
<1> QED
  BY <1>1, Always, PTL

-----------------------------------------------------------------------------
(* What is listed where. Each element of the tree is listed once, below its *)
(* parent; only the regions of a pasted layout do not know theirs.          *)

\* A region of a pasted layout.
Orphan(s, e) == s.up[e] = Nil /\ \E l \in Layouts : e \in Range(s.kids[l])

\* Each element is listed once, and one that is not in M neither is listed
\* nor lists another.
Sound(s, M) ==
    /\ \A e \in Elements, p \in Holders :
           e \in Range(s.kids[p]) => s.up[e] \in {p, Nil}
    /\ \A e \in Elements : s.up[e] # Nil => e \in Range(s.kids[s.up[e]])
    /\ \A e \in Elements, p \in Holders, q \in Holders :
           e \in Range(s.kids[p]) /\ e \in Range(s.kids[q]) => p = q
    /\ \A e \in Elements : e \in Range(s.kids[Dep]) => s.up[e] = Dep
    /\ \A e \in Elements : e \notin M =>
           s.up[e] = Nil /\ \A p \in Holders : e \notin Range(s.kids[p])
    /\ \A l \in Layouts : l \notin M => \A e \in Elements : e \notin Range(s.kids[l])

\* t has the lists and the parents of s but for e, which it lists at p, or
\* nowhere if p is Nil.
Put(s, t, e, p) ==
    /\ \A h \in Holders : IsInjective(t.kids[h])
    /\ t.up = [s.up EXCEPT ![e] = p]
    /\ \A h \in Holders, x \in Elements :
           x \in Range(t.kids[h]) <=> IF x = e THEN h = p ELSE x \in Range(s.kids[h])

\* t lists what s lists, in another order.
Same(s, t) ==
    /\ \A h \in Holders : IsInjective(t.kids[h])
    /\ t.up = s.up
    /\ \A h \in Holders, x \in Elements :
           x \in Range(t.kids[h]) <=> x \in Range(s.kids[h])

\* s is an editor with the lists k and the parents u.
HasTree(s, k, u) ==
    /\ DOMAIN s = {"kids", "up", "tabs", "page", "active", "closed"}
    /\ s = [x \in DOMAIN s |-> s[x]]
    /\ s.kids = k /\ s.up = u

LEMMA PagesApart ==
    ASSUME NEW s, NEW k, NEW u, HasTree(s, k, u), NEW i, NEW l
    PROVE  HasTree(AddPage(s, i, l), k, u) /\ HasTree(RemovePage(s, i), k, u)
<1>1. HasTree(AddPage(s, i, l), k, u)
  BY DEF HasTree, AddPage
<1>2. HasTree(RemovePage(s, i), k, u)
  BY DEF HasTree, RemovePage
<1> QED
  BY <1>1, <1>2

\* The tabs have no part in the tree.
LEMMA TabsApart ==
    ASSUME NEW s \in Editor, NEW l, NEW i, NEW by
    PROVE  /\ LayoutAdded(s, l).kids = s.kids /\ LayoutAdded(s, l).up = s.up
           /\ LayoutRemoved(s, l).kids = s.kids /\ LayoutRemoved(s, l).up = s.up
           /\ LayoutMoved(s, l, by).kids = s.kids /\ LayoutMoved(s, l, by).up = s.up
<1>1. HasTree(s, s.kids, s.up)
  BY DEF Editor, HasTree
<1>2. HasTree(LayoutAdded(s, l), s.kids, s.up)
  BY <1>1, PagesApart, Zenon DEF LayoutAdded
<1>3. HasTree(LayoutRemoved(s, l), s.kids, s.up)
  <2> DEFINE t == RemovePage(s, s.page[l])
  <2>1. HasTree(t, s.kids, s.up)
    BY <1>1, PagesApart, Zenon
  <2> HIDE DEF t
  <2>2. \A g : HasTree([t EXCEPT !.page = g], s.kids, s.up)
    BY <2>1 DEF HasTree
  <2> QED
    BY <2>2 DEF LayoutRemoved, t
<1>4. HasTree(LayoutMoved(s, l, by), s.kids, s.up)
  <2> DEFINE w == [s EXCEPT !.page = [c \in Layouts |->
                      IF @[c] = s.page[l] + by /\ c # l THEN s.page[l] ELSE @[c]]]
             v == RemovePage(w, s.page[l])
  <2>1. HasTree(w, s.kids, s.up)
    BY <1>1 DEF HasTree
  <2>2. LayoutMoved(s, l, by) = AddPage(v, s.page[l] + by, l)
    BY DEF LayoutMoved
  <2> HIDE DEF w
  <2>3. HasTree(v, s.kids, s.up)
    BY <2>1, PagesApart, Zenon
  <2> HIDE DEF v
  <2> QED
    BY <2>2, <2>3, PagesApart, Zenon
<1> QED
  BY <1>2, <1>3, <1>4 DEF HasTree

\* What is in a sequence that has grown by its last element.
LEMMA AppendIs ==
    ASSUME NEW S, NEW q \in Seq(S), IsInjective(q), NEW e \in S, e \notin Range(q)
    PROVE  /\ Append(q, e) \in Seq(S) /\ IsInjective(Append(q, e))
           /\ \A x : x \in Range(Append(q, e)) <=> x = e \/ x \in Range(q)
<1> DEFINE n == Len(q)
           r == Append(q, e)
<1>1. /\ n \in Nat /\ DOMAIN q = 1 .. n /\ DOMAIN r = 1 .. (n + 1) /\ r \in Seq(S)
      /\ r[n + 1] = e /\ \A i \in 1 .. n : r[i] = q[i]
  OBVIOUS
<1>2. \A i \in 1 .. n : q[i] # e
  BY <1>1 DEF Range
<1> HIDE DEF n, r
<1>3. \A i \in 1 .. (n + 1) : i = n + 1 \/ i \in 1 .. n
  BY <1>1
<1>4. IsInjective(r)
  <2>1. \A i, j \in 1 .. n : q[i] = q[j] => i = j
    BY <1>1 DEF IsInjective
  <2> QED
    BY <1>1, <1>2, <1>3, <2>1 DEF IsInjective
<1>5. \A i \in 1 .. n : i \in 1 .. (n + 1)
  BY <1>1
<1>6. n + 1 \in 1 .. (n + 1)
  BY <1>1
<1>7. ASSUME NEW x PROVE x \in Range(r) <=> x = e \/ x \in Range(q)
  BY <1>1, <1>3, <1>5, <1>6 DEF Range
<1> QED
  BY <1>1, <1>4, <1>7 DEF r

\* add of an element that is listed nowhere.
LEMMA AddedTree ==
    ASSUME NEW s \in Editor, \A h \in Holders : IsInjective(s.kids[h]),
           NEW p \in Holders, NEW e \in Elements,
           \A h \in Holders : e \notin Range(s.kids[h])
    PROVE  Put(s, Added(s, p, e), e, p)
<1> DEFINE t == [s EXCEPT !.kids[p] = Append(@, e), !.up[e] = p]
<1>1. /\ s.kids \in [Holders -> Seq(Elements)]
      /\ s.up \in [Elements \cup {Dep} -> Holders \cup {Nil}]
  BY DEF Editor
<1>2. /\ Append(s.kids[p], e) \in Seq(Elements) /\ IsInjective(Append(s.kids[p], e))
      /\ \A x : x \in Range(Append(s.kids[p], e)) <=> x = e \/ x \in Range(s.kids[p])
  BY <1>1, AppendIs
<1>3. /\ t \in Editor
      /\ t.kids = [s.kids EXCEPT ![p] = Append(s.kids[p], e)]
      /\ t.up = [s.up EXCEPT ![e] = p]
  BY <1>1, <1>2 DEF Editor
<1>4. Added(s, p, e).kids = t.kids /\ Added(s, p, e).up = t.up
  <2> HIDE DEF t
  <2>1. Added(s, p, e) = IF p = Dep THEN LayoutAdded(t, e) ELSE t
    BY Zenon DEF Added, t
  <2>2. LayoutAdded(t, e).kids = t.kids /\ LayoutAdded(t, e).up = t.up
    BY <1>3, TabsApart
  <2> QED
    BY <2>1, <2>2
<1> HIDE DEF t
<1>5. \A h \in Holders : t.kids[h] = IF h = p THEN Append(s.kids[p], e) ELSE s.kids[h]
  BY <1>1, <1>3
<1> QED
  BY <1>2, <1>3, <1>4, <1>5, Zenon DEF Put

\* removeChild of a listed element.
LEMMA RemovedTree ==
    ASSUME NEW s \in Editor, \A h \in Holders : IsInjective(s.kids[h]),
           NEW p \in Holders, NEW e \in Elements, e \in Range(s.kids[p]),
           \A h \in Holders : e \in Range(s.kids[h]) => h = p
    PROVE  Put(s, Removed(s, p, e), e, Nil)
<1> DEFINE q == s.kids[p]
           t == [s EXCEPT !.kids[p] = RemoveFirst(@, e), !.up[e] = Nil]
<1>1. /\ s.kids \in [Holders -> Seq(Elements)] /\ q \in Seq(Elements) /\ IsInjective(q)
      /\ s.up \in [Elements \cup {Dep} -> Holders \cup {Nil}]
      /\ Len(q) \in Nat /\ DOMAIN q = 1 .. Len(q)
  BY DEF Editor
<1>2. PICK i \in 1 .. Len(q) : q[i] = e
  BY <1>1 DEF Range
<1> DEFINE r == RemoveAt(q, i)
<1>3. RemoveFirst(q, e) = r
  BY <1>1, <1>2, RemoveFirstIs
<1>4. /\ r \in Seq(Elements) /\ Len(r) = Len(q) - 1
      /\ \A j \in 1 .. (i - 1) : r[j] = q[j]
      /\ \A j \in i .. (Len(q) - 1) : r[j] = q[j + 1]
  BY <1>1, RemoveAtIs
<1> HIDE DEF r
<1>5. /\ t \in Editor /\ t.kids = [s.kids EXCEPT ![p] = r]
      /\ t.up = [s.up EXCEPT ![e] = Nil]
  BY <1>1, <1>3, <1>4 DEF Editor
<1>6. Removed(s, p, e).kids = t.kids /\ Removed(s, p, e).up = t.up
  <2> HIDE DEF t
  <2>1. Removed(s, p, e) = IF p = Dep THEN LayoutRemoved(t, e) ELSE t
    BY Zenon DEF Removed, t
  <2>2. LayoutRemoved(t, e).kids = t.kids /\ LayoutRemoved(t, e).up = t.up
    BY <1>5, TabsApart
  <2> QED
    BY <2>1, <2>2
<1> HIDE DEF t, q
<1>7. \A j \in 1 .. (Len(q) - 1) :
          \E m \in 1 .. Len(q) : m # i /\ r[j] = q[m] /\ m = IF j < i THEN j ELSE j + 1
  <2> SUFFICES ASSUME NEW j \in 1 .. (Len(q) - 1)
               PROVE  \E m \in 1 .. Len(q) :
                          m # i /\ r[j] = q[m] /\ m = IF j < i THEN j ELSE j + 1
    OBVIOUS
  <2>1. CASE j < i
    <3>1. j \in 1 .. (i - 1) /\ j \in 1 .. Len(q) /\ j # i
      BY <1>1, <2>1
    <3> QED
      BY <1>4, <2>1, <3>1
  <2>2. CASE ~(j < i)
    <3>1. j \in i .. (Len(q) - 1) /\ j + 1 \in 1 .. Len(q) /\ j + 1 # i
      BY <1>1, <2>2
    <3> QED
      BY <1>4, <2>2, <3>1
  <2> QED
    BY <2>1, <2>2
<1>8. \A m \in 1 .. Len(q) : m # i => \E j \in 1 .. (Len(q) - 1) : r[j] = q[m]
  <2> SUFFICES ASSUME NEW m \in 1 .. Len(q), m # i
               PROVE  \E j \in 1 .. (Len(q) - 1) : r[j] = q[m]
    OBVIOUS
  <2>1. CASE m < i
    <3>1. m \in 1 .. (i - 1) /\ m \in 1 .. (Len(q) - 1)
      BY <1>1, <2>1
    <3> QED
      BY <1>4, <3>1
  <2>2. CASE m > i
    <3>1. m - 1 \in i .. (Len(q) - 1) /\ m - 1 \in 1 .. (Len(q) - 1) /\ (m - 1) + 1 = m
      BY <1>1, <2>2
    <3> QED
      BY <1>4, <3>1
  <2> QED
    BY <2>1, <2>2
<1>9. DOMAIN r = 1 .. (Len(q) - 1)
  BY <1>4
<1>10. \A m, o \in 1 .. Len(q) : q[m] = q[o] => m = o
  BY <1>1 DEF IsInjective
<1>11. IsInjective(r)
  <2> SUFFICES ASSUME NEW a \in 1 .. (Len(q) - 1), NEW b \in 1 .. (Len(q) - 1), r[a] = r[b]
               PROVE  a = b
    BY <1>9 DEF IsInjective
  <2>1. (IF a < i THEN a ELSE a + 1) = (IF b < i THEN b ELSE b + 1)
    BY <1>7, <1>10
  <2> QED
    BY <2>1
<1>12. ASSUME NEW x PROVE x \in Range(r) <=> x \in Range(q) /\ x # e
  <2>1. x \in Range(r) => x \in Range(q) /\ x # e
    BY <1>1, <1>2, <1>7, <1>9, <1>10 DEF Range
  <2>2. x \in Range(q) /\ x # e => x \in Range(r)
    BY <1>1, <1>2, <1>8, <1>9 DEF Range
  <2> QED
    BY <2>1, <2>2
<1>13. \A h \in Holders : t.kids[h] = IF h = p THEN r ELSE s.kids[h]
  BY <1>1, <1>5
<1> QED
  BY NilIsNoHolder, <1>5, <1>6, <1>11, <1>12, <1>13, Zenon DEF Put, q

\* moveChildUp and moveChildDown.
LEMMA MovedTree ==
    ASSUME NEW s \in Editor, \A h \in Holders : IsInjective(s.kids[h]),
           NEW p \in Holders, NEW e \in Elements, NEW by \in {1, -1}
    PROVE  Same(s, Moved(s, p, e, by))
<1> DEFINE q == s.kids[p]
           i == PlaceOf(s, p, e)
           j == i + by
<1>1. /\ s.kids \in [Holders -> Seq(Elements)] /\ q \in Seq(Elements) /\ IsInjective(q)
      /\ Len(q) \in Nat /\ DOMAIN q = 1 .. Len(q)
  BY DEF Editor
<1>2. CASE i = 0 \/ j \notin DOMAIN q
  <2>1. Moved(s, p, e, by) = s
    BY <1>2 DEF Moved
  <2> QED
    BY <2>1 DEF Same
<1>3. CASE ~(i = 0 \/ j \notin DOMAIN q)
  <2>1. PICK m \in 1 .. Len(q) : q[m] = e
    BY <1>1, <1>3, PlaceOfOthers DEF Range
  <2>2. i = m
    BY <1>1, <2>1, PlaceOfListed
  <2> DEFINE r == InsertAt(RemoveAt(q, i), j, e)
             t == [s EXCEPT !.kids[p] = InsertAt(RemoveAt(@, i), j, e)]
  <2>3. Moved(s, p, e, by) = IF p = Dep THEN LayoutMoved(t, e, by) ELSE t
    BY <1>3 DEF Moved
  <2> HIDE DEF i
  <2>4. /\ (j = i + 1 \/ j = i - 1) /\ i # j /\ i \in 1 .. Len(q) /\ j \in 1 .. Len(q)
        /\ q[i] = e
    BY <1>1, <1>3, <2>1, <2>2
  <2> HIDE DEF j
  <2>5. /\ r \in Seq(Elements) /\ Len(r) = Len(q) /\ r[j] = e /\ r[i] = q[j]
        /\ \A o \in 1 .. Len(q) : o # i /\ o # j => r[o] = q[o]
    <3>1. Swapped(Elements, q, i, j, e, r)
      BY <1>1, <2>4, SwappedIs
    <3> QED
      BY <3>1, Zenon DEF Swapped
  <2> HIDE DEF r
  <2>6. /\ t \in Editor /\ t.kids = [s.kids EXCEPT ![p] = r] /\ t.up = s.up
    BY <1>1, <2>5 DEF Editor, r
  <2> HIDE DEF t, q
  <2>7. Moved(s, p, e, by).kids = t.kids /\ Moved(s, p, e, by).up = t.up
    <3>1. LayoutMoved(t, e, by).kids = t.kids /\ LayoutMoved(t, e, by).up = t.up
      BY <2>6, TabsApart
    <3> QED
      BY <2>3, <3>1
  <2>8. DOMAIN r = 1 .. Len(q)
    BY <2>5
  <2>9. \A m2, o \in 1 .. Len(q) : q[m2] = q[o] => m2 = o
    BY <1>1 DEF IsInjective
  <2>10. IsInjective(r)
    <3>1. \A o \in 1 .. Len(q) : r[o] = q[IF o = i THEN j ELSE IF o = j THEN i ELSE o]
      BY <2>4, <2>5
    <3> SUFFICES ASSUME NEW a \in 1 .. Len(q), NEW b \in 1 .. Len(q), r[a] = r[b]
                 PROVE  a = b
      BY <2>8 DEF IsInjective
    <3> QED
      BY <2>4, <2>9, <3>1
  <2>11. ASSUME NEW x PROVE x \in Range(r) <=> x \in Range(q)
    BY <1>1, <2>4, <2>5, <2>8 DEF Range
  <2>12. \A h \in Holders : t.kids[h] = IF h = p THEN r ELSE s.kids[h]
    BY <1>1, <2>6
  <2> QED
    BY <2>6, <2>7, <2>10, <2>11, <2>12, Zenon DEF Same, q
<1> QED
  BY <1>2, <1>3

\* An element that is put into a list it is not in, or out of the one it is
\* in, leaves the rest sound, and the orphans where they are.
LEMMA PutSound ==
    ASSUME NEW s \in Editor, NEW t, NEW M, Sound(s, M), NEW e \in Elements,
           NEW p \in Holders \cup {Nil}, Put(s, t, e, p), ~Orphan(s, e),
           p # Nil => e \in M /\ (p = Dep \/ p \in M), p = Nil => e \notin Range(s.kids[Dep]) \/ s.up[e] # Nil
    PROVE  /\ Sound(t, M) /\ t.up[e] = p
           /\ \A x \in Elements : Orphan(t, x) <=> Orphan(s, x)
           /\ \A x \in Elements, l \in Layouts : Orphan(s, x) =>
                  (x \in Range(t.kids[l]) <=> x \in Range(s.kids[l]))
<1>1. s.up \in [Elements \cup {Dep} -> Holders \cup {Nil}] /\ Nil \notin Holders
      /\ Dep \in Holders /\ \A l \in Layouts : l \in Holders
  BY NilIsNoHolder DEF Editor, Holders
<1>2. /\ t.up[e] = p /\ \A x \in Elements : x # e => t.up[x] = s.up[x]
      /\ \A h \in Holders : e \in Range(t.kids[h]) <=> h = p
      /\ \A h \in Holders, x \in Elements :
             x # e => (x \in Range(t.kids[h]) <=> x \in Range(s.kids[h]))
  BY <1>1 DEF Put
<1>3. Sound(t, M)
  <2>1. ASSUME NEW x \in Elements, NEW h \in Holders, x \in Range(t.kids[h])
        PROVE  t.up[x] \in {h, Nil}
    BY <1>1, <1>2, <2>1 DEF Sound
  <2>2. ASSUME NEW x \in Elements, t.up[x] # Nil
        PROVE  x \in Range(t.kids[t.up[x]])
    <3>1. CASE x = e
      BY <1>1, <1>2, <2>2, <3>1
    <3>2. CASE x # e
      <4>1. s.up[x] # Nil /\ t.up[x] = s.up[x] /\ s.up[x] \in Holders
        BY <1>1, <1>2, <2>2, <3>2
      <4>2. x \in Range(s.kids[s.up[x]])
        BY <4>1 DEF Sound
      <4> QED
        BY <1>2, <3>2, <4>1, <4>2
    <3> QED
      BY <3>1, <3>2
  <2>3. ASSUME NEW x \in Elements, NEW h \in Holders, NEW g \in Holders,
               x \in Range(t.kids[h]), x \in Range(t.kids[g])
        PROVE  h = g
    BY <1>2, <2>3 DEF Sound
  <2>4. ASSUME NEW x \in Elements, x \in Range(t.kids[Dep])
        PROVE  t.up[x] = Dep
    BY <1>1, <1>2, <2>4 DEF Sound
  <2>5. ASSUME NEW x \in Elements, x \notin M
        PROVE  t.up[x] = Nil /\ \A h \in Holders : x \notin Range(t.kids[h])
    BY <1>1, <1>2, <2>5 DEF Sound
  <2>6. ASSUME NEW l \in Layouts, l \notin M, NEW x \in Elements
        PROVE  x \notin Range(t.kids[l])
    <3>1. l # Dep /\ l \in Holders
      BY <1>1, DepIsNoLayout
    <3> QED
      BY <1>1, <1>2, <2>6, <3>1 DEF Sound
  <2> QED
    BY <2>1, <2>2, <2>3, <2>4, <2>5, <2>6, Zenon DEF Sound
<1>4. ~Orphan(t, e)
  BY <1>1, <1>2 DEF Orphan
<1>5. \A x \in Elements : Orphan(t, x) <=> Orphan(s, x)
  <2> SUFFICES ASSUME NEW x \in Elements, x # e PROVE Orphan(t, x) <=> Orphan(s, x)
    BY <1>4
  <2> QED
    BY <1>1, <1>2 DEF Orphan
<1>6. ASSUME NEW x \in Elements, NEW l \in Layouts, Orphan(s, x)
      PROVE  x \in Range(t.kids[l]) <=> x \in Range(s.kids[l])
  BY <1>1, <1>2, <1>6
<1> QED
  BY <1>2, <1>3, <1>5, <1>6

\* The orphans of s are those of t, in the same layouts.
SameOrphans(s, t) ==
    /\ \A x \in Elements : Orphan(t, x) <=> Orphan(s, x)
    /\ \A x \in Elements, l \in Layouts : Orphan(s, x) =>
           (x \in Range(t.kids[l]) <=> x \in Range(s.kids[l]))

LEMMA SameSound ==
    ASSUME NEW s \in Editor, NEW t, NEW M, Sound(s, M), Same(s, t)
    PROVE  Sound(t, M) /\ SameOrphans(s, t)
<1>1. s.up \in [Elements \cup {Dep} -> Holders \cup {Nil}] /\ Nil \notin Holders
      /\ Dep \in Holders /\ \A l \in Layouts : l \in Holders
  BY NilIsNoHolder DEF Editor, Holders
<1>2. /\ t.up = s.up
      /\ \A h \in Holders, x \in Elements : x \in Range(t.kids[h]) <=> x \in Range(s.kids[h])
  BY DEF Same
<1>3. \A x \in Elements : s.up[x] # Nil => s.up[x] \in Holders
  BY <1>1
<1>4. Sound(t, M)
  BY <1>1, <1>2, <1>3 DEF Sound
<1>5. SameOrphans(s, t)
  BY <1>1, <1>2 DEF SameOrphans, Orphan
<1> QED
  BY <1>4, <1>5

\* A command leads from the parents u to the parents v.
Does(u, c, v) ==
    /\ c.op \in {"create", "paste"} =>
           u[c.e] = Nil /\ c.at # Nil /\ v = [u EXCEPT ![c.e] = c.at]
    /\ c.op = "delete" => c.at = u[c.e] /\ v = [u EXCEPT ![c.e] = Nil]
    /\ c.op \in {"up", "down"} => u[c.e] # Nil /\ v = u
    /\ c.op = "none" => v = u

Ups == [Elements \cup {Dep} -> Holders \cup {Nil}]

\* A step of the tree, of which the tabs keep a record.
Trees(s, t, M) ==
    /\ \A h \in Holders : IsInjective(t.kids[h])
    /\ Sound(t, M) /\ SameOrphans(s, t)

LEMMA SameTrees ==
    ASSUME NEW s \in Editor, NEW M, Sound(s, M), InStep(s)
    PROVE  Trees(s, s, M)
BY DEF Trees, InStep, SameOrphans

LEMMA OpIs ==
    ASSUME NEW c \in ProperCommand
    PROVE  c.op \in {"create", "paste", "delete", "up", "down", "none"}
<1>1. c \in Command
  BY DEF ProperCommand
<1> QED
  BY <1>1 DEF Command

\* An element with a parent is in its list, and no other.
LEMMA ListedIs ==
    ASSUME NEW s \in Editor, InStep(s), NEW M, Sound(s, M),
           NEW e \in Elements \cup {Dep}, s.up[e] # Nil
    PROVE  /\ e \in Elements /\ s.up[e] \in Holders /\ e \in Range(s.kids[s.up[e]])
           /\ \A h \in Holders : e \in Range(s.kids[h]) => h = s.up[e]
           /\ ~Orphan(s, e)
<1>1. e \in Elements /\ s.up[e] \in Holders
  BY ParentIs
<1>2. e \in Range(s.kids[s.up[e]])
  BY <1>1 DEF Sound
<1>3. \A h \in Holders : e \in Range(s.kids[h]) => h = s.up[e]
  BY <1>1, <1>2 DEF Sound
<1> QED
  BY <1>1, <1>2, <1>3 DEF Orphan

\* One that has no parent and is no orphan is in no list.
LEMMA UnlistedIs ==
    ASSUME NEW s \in Editor, NEW M, Sound(s, M), NEW e \in Elements,
           s.up[e] = Nil, ~Orphan(s, e)
    PROVE  \A h \in Holders : e \notin Range(s.kids[h])
BY NilIsNoHolder DEF Sound, Orphan, Holders

LEMMA TakenOut ==
    ASSUME NEW s \in Editor, InStep(s), NEW M, Sound(s, M),
           NEW e \in Elements \cup {Dep}, s.up[e] # Nil
    PROVE  LET t == Removed(s, s.up[e], e) IN
           Trees(s, t, M) /\ t.up = [s.up EXCEPT ![e] = Nil]
<1>1. /\ e \in Elements /\ s.up[e] \in Holders /\ e \in Range(s.kids[s.up[e]])
      /\ \A h \in Holders : e \in Range(s.kids[h]) => h = s.up[e]
      /\ ~Orphan(s, e) /\ \A h \in Holders : IsInjective(s.kids[h])
  BY ListedIs DEF InStep
<1>2. Put(s, Removed(s, s.up[e], e), e, Nil)
  BY <1>1, RemovedTree
<1>3. /\ Sound(Removed(s, s.up[e], e), M)
      /\ SameOrphans(s, Removed(s, s.up[e], e))
  BY <1>1, <1>2, PutSound DEF SameOrphans
<1> QED
  BY <1>2, <1>3 DEF Put, Trees

LEMMA PutIntoList ==
    ASSUME NEW s \in Editor, InStep(s), NEW M, Sound(s, M), NEW e \in Elements,
           s.up[e] = Nil, ~Orphan(s, e), e \in M, NEW p \in Holders, p = Dep \/ p \in M
    PROVE  LET t == Added(s, p, e) IN
           Trees(s, t, M) /\ t.up = [s.up EXCEPT ![e] = p]
<1>1. /\ \A h \in Holders : e \notin Range(s.kids[h])
      /\ \A h \in Holders : IsInjective(s.kids[h]) /\ p # Nil
  BY UnlistedIs, NilIsNoHolder DEF InStep
<1>2. Put(s, Added(s, p, e), e, p)
  BY <1>1, AddedTree
<1>3. Sound(Added(s, p, e), M) /\ SameOrphans(s, Added(s, p, e))
  BY <1>1, <1>2, PutSound DEF SameOrphans
<1> QED
  BY <1>2, <1>3 DEF Put, Trees

LEMMA MovedAlong ==
    ASSUME NEW s \in Editor, InStep(s), NEW M, Sound(s, M),
           NEW e \in Elements \cup {Dep}, s.up[e] # Nil, NEW by \in {1, -1}
    PROVE  LET t == Moved(s, s.up[e], e, by) IN Trees(s, t, M) /\ t.up = s.up
<1>1. e \in Elements /\ s.up[e] \in Holders /\ \A h \in Holders : IsInjective(s.kids[h])
  BY ListedIs DEF InStep
<1>2. Same(s, Moved(s, s.up[e], e, by))
  BY <1>1, MovedTree
<1> QED
  BY <1>2, SameSound DEF Trees, Same

\* The parents u are of M, and so are the elements that have one; orphans have
\* none.
Placed(u, s, M) ==
    \A e \in Elements :
        u[e] # Nil => e \in M /\ ~Orphan(s, e) /\ (u[e] = Dep \/ u[e] \in M)

LEMMA SoundPlaced ==
    ASSUME NEW s, NEW M, Sound(s, M), s.up \in Ups
    PROVE  Placed(s.up, s, M)
<1> SUFFICES ASSUME NEW e \in Elements, s.up[e] # Nil
             PROVE  e \in M /\ ~Orphan(s, e) /\ (s.up[e] = Dep \/ s.up[e] \in M)
  BY DEF Placed
<1>1. s.up[e] \in Holders /\ e \in Range(s.kids[s.up[e]])
  BY DEF Sound, Ups
<1> QED
  BY <1>1 DEF Sound, Orphan, Holders

\* What redo of a command does to the tree.
LEMMA RedoneTree ==
    ASSUME NEW s \in Editor, InStep(s), NEW M, Sound(s, M), NEW c \in ProperCommand,
           ~Throws(s, c),
           c.op \in {"create", "paste"} =>
               s.up[c.e] = Nil /\ ~Orphan(s, c.e) /\ c.e \in M /\ (c.at = Dep \/ c.at \in M)
    PROVE  /\ Trees(s, Redone(s, c), M)
           /\ Does(s.up, Remembered(s, c), Redone(s, c).up)
<1>1. /\ c.e \in Elements \cup {Dep} /\ c.at \in Holders \cup {Nil}
      /\ c.at # Nil => c.e \in Elements
      /\ c.op \in {"create", "paste"} => c.at # Nil
  BY ProperIs
<1>2. s.up \in Ups
  BY DEF Editor, Ups
<1>3. CASE c.op \in {"create", "paste"}
  <2>1. Redone(s, c) = Added(s, c.at, c.e) /\ Remembered(s, c) = c
    BY <1>3 DEF Redone, Remembered
  <2>2. Trees(s, Redone(s, c), M) /\ Redone(s, c).up = [s.up EXCEPT ![c.e] = c.at]
    BY <1>1, <1>3, <2>1, PutIntoList
  <2> QED
    BY <1>1, <1>3, <2>1, <2>2 DEF Does
<1>4. CASE c.op = "delete"
  <2> DEFINE d == Remembered(s, c)
  <2>1. d.op = "delete" /\ d.e = c.e /\ d.at = s.up[c.e]
    <3>1. c \in Command /\ d = [c EXCEPT !.at = s.up[c.e]]
      BY <1>4 DEF ProperCommand, Remembered
    <3> QED
      BY <1>4, <3>1 DEF Command
  <2>2. CASE s.up[c.e] # Nil
    <3>1. Redone(s, c) = Removed(s, s.up[c.e], c.e)
      BY <1>4, <2>2 DEF Redone
    <3>2. Trees(s, Redone(s, c), M) /\ Redone(s, c).up = [s.up EXCEPT ![c.e] = Nil]
      BY <1>1, <2>2, <3>1, TakenOut
    <3> HIDE DEF d
    <3> QED
      BY <2>1, <3>2 DEF Does, d
  <2>3. CASE s.up[c.e] = Nil
    <3>1. Redone(s, c) = s
      BY <1>4, <2>3 DEF Redone
    <3>2. s.up = [s.up EXCEPT ![c.e] = Nil]
      BY <1>2, <2>3 DEF Ups
    <3> HIDE DEF d
    <3> QED
      BY <2>1, <3>1, <3>2, SameTrees DEF Does, d
  <2> QED
    BY <2>2, <2>3
<1>5. CASE c.op \in {"up", "down"}
  <2>1. /\ Redone(s, c) = Moved(s, s.up[c.e], c.e, By(c.op)) /\ Remembered(s, c) = c
        /\ s.up[c.e] # Nil
    BY <1>5 DEF Redone, Remembered, Throws
  <2>2. Trees(s, Redone(s, c), M) /\ Redone(s, c).up = s.up
    BY <1>1, <2>1, ByOne, MovedAlong
  <2> QED
    BY <1>5, <2>1, <2>2 DEF Does
<1>6. CASE c.op = "none"
  <2>1. Redone(s, c) = s /\ Remembered(s, c) = c
    BY <1>6 DEF Redone, Remembered
  <2> QED
    BY <1>6, <2>1, SameTrees DEF Does
<1> QED
  BY <1>3, <1>4, <1>5, <1>6, OpIs

\* Undo takes the tree back to where the command began.
LEMMA UndoneTree ==
    ASSUME NEW s \in Editor, InStep(s), NEW M, Sound(s, M), NEW c \in ProperCommand,
           CanUndo(c), NEW u \in Ups, Does(u, c, s.up),
           Placed(u, s, M)
    PROVE  /\ ~Throws(s, c) /\ Trees(s, Undone(s, c), M) /\ Undone(s, c).up = u
<1>1. /\ c.e \in Elements \cup {Dep} /\ c.at \in Holders \cup {Nil}
      /\ c.at # Nil => c.e \in Elements
      /\ c.op \in {"create", "paste"} => c.at # Nil
  BY ProperIs
<1>2. s.up \in Ups /\ Nil \notin Holders
  BY NilIsNoHolder DEF Editor, Ups
<1>3. CASE c.op \in {"create", "paste"}
  <2>1. /\ ~Throws(s, c) /\ u[c.e] = Nil /\ c.at # Nil /\ s.up = [u EXCEPT ![c.e] = c.at]
    BY <1>3 DEF Throws, Does
  <2>2. s.up[c.e] = c.at /\ u = [s.up EXCEPT ![c.e] = Nil]
    BY <1>1, <2>1 DEF Ups
  <2>3. Undone(s, c) = Removed(s, s.up[c.e], c.e)
    BY <1>3, <2>1, <2>2 DEF Undone
  <2> QED
    <3>1. s.up[c.e] # Nil
      BY <2>1, <2>2
    <3>2. /\ Trees(s, Undone(s, c), M)
          /\ Undone(s, c).up = [s.up EXCEPT ![c.e] = Nil]
      BY <1>1, <2>3, <3>1, TakenOut
    <3> QED
      BY <2>1, <2>2, <3>2, Zenon
<1>4. CASE c.op = "delete"
  <2>1. /\ ~Throws(s, c) /\ c.at # Nil /\ c.at = u[c.e] /\ s.up = [u EXCEPT ![c.e] = Nil]
    BY <1>4 DEF Throws, Does, CanUndo
  <2>2. s.up[c.e] = Nil /\ u = [s.up EXCEPT ![c.e] = c.at]
    BY <1>1, <2>1 DEF Ups
  <2>3. Undone(s, c) = Added(s, c.at, c.e)
    BY <1>4, <2>1 DEF Undone
  <2>4. /\ c.e \in Elements /\ c.e \in M /\ ~Orphan(s, c.e) /\ c.at \in Holders
        /\ c.at = Dep \/ c.at \in M
    BY <1>1, <2>1 DEF Placed
  <2> QED
    <3>1. s.up[c.e] = Nil
      BY <2>2
    <3>2. /\ Trees(s, Undone(s, c), M)
          /\ Undone(s, c).up = [s.up EXCEPT ![c.e] = c.at]
      BY <2>3, <2>4, <3>1, PutIntoList
    <3> QED
      BY <2>1, <2>2, <3>2, Zenon
<1>5. CASE c.op \in {"up", "down"}
  <2>1. u[c.e] # Nil /\ s.up = u /\ ~Throws(s, c)
    BY <1>5 DEF Does, Throws
  <2>2. Undone(s, c) = Moved(s, s.up[c.e], c.e, -By(c.op))
    BY <1>5 DEF Undone
  <2> QED
    BY <1>1, <2>1, <2>2, ByOne, MovedAlong
<1>6. CASE c.op = "none"
  <2>1. Undone(s, c) = s /\ s.up = u /\ ~Throws(s, c)
    BY <1>6 DEF Undone, Does, Throws
  <2> QED
    BY <2>1, SameTrees
<1> QED
  BY <1>3, <1>4, <1>5, <1>6, OpIs

-----------------------------------------------------------------------------
(* The past and the future of a tab: the parents that there were after each *)
(* of its commands, and those that redo will bring back.                    *)

Orphans(s, l) == {e \in Elements : Orphan(s, e) /\ e \in Range(s.kids[l])}

\* What s saves when its parents are u.
ContentBy(u, s) ==
    [l \in {x \in Layouts : u[x] = Dep} |-> {e \in Elements : u[e] = l} \cup Orphans(s, l)]

LEMMA ContentIs ==
    ASSUME NEW s \in Editor, InStep(s), NEW M, Sound(s, M)
    PROVE  Content(s) = ContentBy(s.up, s)
<1>1. /\ s.up \in Ups /\ Nil \notin Holders /\ Dep \in Holders /\ Nil # Dep
      /\ Layouts \subseteq Elements /\ Layouts \subseteq Holders
      /\ s.kids \in [Holders -> Seq(Elements)]
  BY NilIsNoHolder, DepIsNoLayout DEF Editor, Ups, Holders, Elements
<1>2. \A h \in Holders : Range(s.kids[h]) \subseteq Elements
  BY <1>1 DEF Range
<1>3. {x \in Layouts : s.up[x] = Dep} = Range(s.kids[Dep])
  <2>1. \A e \in Range(s.kids[Dep]) : e \in Layouts
    BY <1>1 DEF InStep, Range
  <2>2. \A e \in Layouts : e \in Range(s.kids[Dep]) <=> s.up[e] = Dep
    BY <1>1 DEF Sound
  <2> QED
    BY <2>1, <2>2
<1>4. ASSUME NEW l \in Layouts
      PROVE  Range(s.kids[l]) = {e \in Elements : s.up[e] = l} \cup Orphans(s, l)
  <2>1. l \in Holders /\ l # Nil
    BY <1>1
  <2>2. ASSUME NEW e \in Elements
        PROVE  e \in Range(s.kids[l]) <=>
                   s.up[e] = l \/ (Orphan(s, e) /\ e \in Range(s.kids[l]))
    BY <2>1 DEF Sound, Orphan
  <2> QED
    BY <1>2, <2>1, <2>2 DEF Orphans
<1> QED
  BY <1>3, <1>4 DEF Content, ContentBy

\* s and t have the same orphans, as far as they are in M.
Alike(s, t, M) ==
    /\ \A x \in Elements : x \in M => (Orphan(t, x) <=> Orphan(s, x))
    /\ \A l \in Layouts : l \in M => Orphans(t, l) = Orphans(s, l)

LEMMA SameAlike ==
    ASSUME NEW s, NEW t, SameOrphans(s, t), NEW M
    PROVE  Alike(s, t, M)
BY DEF SameOrphans, Alike, Orphans

LEMMA AlikeOn ==
    ASSUME NEW s, NEW t, NEW v, NEW M, Alike(s, t, M), SameOrphans(t, v)
    PROVE  Alike(s, v, M)
<1>1. Alike(t, v, M)
  BY SameAlike
<1> QED
  BY <1>1, Zenon DEF Alike

LEMMA ContentAlike ==
    ASSUME NEW s, NEW t, NEW M, Alike(s, t, M), NEW u,
           \A e \in Elements : u[e] # Nil => e \in M
    PROVE  ContentBy(u, t) = ContentBy(u, s)
<1>1. \A l \in Layouts : u[l] = Dep => l \in M
  BY ElementsAssumption DEF Elements
<1>2. \A l \in {x \in Layouts : u[x] = Dep} : Orphans(t, l) = Orphans(s, l)
  BY <1>1 DEF Alike
<1> QED
  BY <1>2 DEF ContentBy

\* T are the parents after each command of C. The undo list is the part of C
\* that has led to u, the redo list the rest, its first command last.
Trace(tab, u, T, C) ==
    LET n == Len(tab.undo)
        m == Len(tab.redo)
    IN  /\ T[n] = u
        /\ \A i \in 1 .. n : tab.undo[i] = C[i]
        /\ \A j \in 1 .. m : tab.redo[j] = C[n + m + 1 - j]
        /\ \A i \in 1 .. (n + m) : Does(T[i - 1], C[i], T[i])

\* What ever has a parent is in M, and no orphan of s.
Known(tab, T, s, M) ==
    \A k \in 0 .. (Len(tab.undo) + Len(tab.redo)) : Placed(T[k], s, M)

\* The file f has what there was when the stack was marked as saved.
Kept(tab, T, s, f) ==
    tab.saved \in 0 .. (Len(tab.undo) + Len(tab.redo)) => f = ContentBy(T[tab.saved], s)

\* The stack of a tab is true of the tree, and of the file unless lo.
Traced(tab, s, M, lo, f) ==
    \E T \in [Nat -> Ups], C \in [Nat -> ProperCommand] :
        /\ Trace(tab, s.up, T, C)
        /\ Known(tab, T, s, M)
        /\ lo \/ Kept(tab, T, s, f)

LEMMA NewTraced ==
    ASSUME NEW s \in Editor, NEW M, Sound(s, M), NEW h \in Holders, NEW lo, NEW f,
           lo \/ f = ContentBy(s.up, s)
    PROVE  Traced(NewTab(h), s, M, lo, f)
<1> DEFINE c == [op |-> "none", e |-> Dep, at |-> Nil]
           T == [k \in Nat |-> s.up]
           C == [k \in Nat |-> c]
           tab == NewTab(h)
<1>1. s.up \in Ups
  BY DEF Editor, Ups
<1>2. c \in ProperCommand
  <2>1. c \in Command /\ c.at = Nil /\ c.op = "none" /\ Nil # Dep
    BY ElementsAssumption DEF Command
  <2> HIDE DEF c
  <2> QED
    BY <2>1 DEF ProperCommand
<1>3. T \in [Nat -> Ups] /\ C \in [Nat -> ProperCommand] /\ T[0] = s.up
  BY <1>1, <1>2
<1>4. /\ tab.undo = <<>> /\ tab.redo = <<>> /\ tab.saved = 0
      /\ Len(tab.undo) = 0 /\ Len(tab.redo) = 0
  BY DEF NewTab
<1> HIDE DEF T, C, tab, c
<1>5. Trace(tab, s.up, T, C)
  BY <1>3, <1>4 DEF Trace
<1>6. Known(tab, T, s, M)
  BY <1>1, <1>3, <1>4, SoundPlaced DEF Known
<1>7. lo \/ Kept(tab, T, s, f)
  BY <1>3, <1>4 DEF Kept
<1> QED
  BY <1>3, <1>5, <1>6, <1>7, Zenon DEF Traced, tab

LEMMA ProperTabIs ==
    ASSUME NEW tab \in ProperTab
    PROVE  /\ tab.undo \in Seq(ProperCommand) /\ tab.redo \in Seq(ProperCommand)
           /\ Len(tab.undo) \in Nat /\ Len(tab.redo) \in Nat /\ tab.saved \in Int
           /\ tab.shows \in Holders
BY DEF ProperTab

LEMMA FrontIs ==
    ASSUME NEW S, NEW q \in Seq(S), q # <<>>
    PROVE  /\ Len(q) \in Nat \ {0} /\ Last(q) = q[Len(q)] /\ Last(q) \in S
           /\ Front(q) \in Seq(S) /\ Len(Front(q)) = Len(q) - 1
           /\ \A i \in 1 .. (Len(q) - 1) : Front(q)[i] = q[i]
<1>1. Len(q) \in Nat \ {0} /\ Last(q) = q[Len(q)]
  BY DEF Last
<1>2. Last(q) \in S /\ Front(q) \in Seq(S)
  BY LastOf
<1>3. PICK n \in Nat : n = Len(q) - 1
  BY <1>1
<1>4. Front(q) = SubSeq(q, 1, n)
  BY <1>3, Zenon DEF Front
<1>5. n <= Len(q)
  BY <1>1, <1>3
<1>6. Len(SubSeq(q, 1, n)) = n /\ \A i \in 1 .. n : SubSeq(q, 1, n)[i] = q[i]
  BY <1>5
<1> QED
  BY <1>1, <1>2, <1>3, <1>4, <1>6

LEMMA PushIs ==
    ASSUME NEW S, NEW q \in Seq(S), NEW e \in S
    PROVE  /\ Append(q, e) \in Seq(S) /\ Len(Append(q, e)) = Len(q) + 1
           /\ Append(q, e)[Len(q) + 1] = e
           /\ \A i \in 1 .. Len(q) : Append(q, e)[i] = q[i]
OBVIOUS

\* The tree changes but for its past: what is known and kept stays so.
LEMMA KeptAlike ==
    ASSUME NEW tab, NEW T, NEW s, NEW t, NEW M, NEW N, M \subseteq N, Alike(s, t, M),
           Known(tab, T, s, M), NEW f
    PROVE  /\ Known(tab, T, t, N)
           /\ Kept(tab, T, s, f) => Kept(tab, T, t, f)
<1>1. Known(tab, T, t, N)
  BY DEF Known, Placed, Alike
<1>2. ASSUME Kept(tab, T, s, f), tab.saved \in 0 .. (Len(tab.undo) + Len(tab.redo))
      PROVE  f = ContentBy(T[tab.saved], t)
  <2> DEFINE u == T[tab.saved]
  <2>1. \A e \in Elements : u[e] # Nil => e \in M
    BY <1>2 DEF Known, Placed
  <2>2. f = ContentBy(u, s)
    BY <1>2 DEF Kept
  <2> HIDE DEF u
  <2>3. ContentBy(u, t) = ContentBy(u, s)
    BY <2>1, ContentAlike
  <2> QED
    BY <2>2, <2>3 DEF u
<1> QED
  BY <1>1, <1>2 DEF Kept

\* Undo of a traced stack.
LEMMA UndoTraced ==
    ASSUME NEW s \in Editor, InStep(s), NEW M, Sound(s, M), NEW tab \in ProperTab,
           NEW lo, NEW f, Traced(tab, s, M, lo, f), tab.undo # <<>>,
           CanUndo(Last(tab.undo))
    PROVE  LET c == Last(tab.undo)
               t == Undone(s, c)
           IN  /\ ~Throws(s, c) /\ Trees(s, t, M)
               /\ \A new \in ProperTab :
                      /\ new.undo = Front(tab.undo) /\ new.redo = Append(tab.redo, c)
                      /\ new.saved = tab.saved
                      => Traced(new, t, M, lo, f)
<1> DEFINE c == Last(tab.undo)
           t == Undone(s, c)
           n == Len(tab.undo)
           m == Len(tab.redo)
<1>1. PICK T \in [Nat -> Ups], C \in [Nat -> ProperCommand] :
          Trace(tab, s.up, T, C) /\ Known(tab, T, s, M) /\ (lo \/ Kept(tab, T, s, f))
  BY Zenon DEF Traced
<1>2. /\ n \in Nat \ {0} /\ m \in Nat /\ c = tab.undo[n] /\ c \in ProperCommand
      /\ Front(tab.undo) \in Seq(ProperCommand) /\ Len(Front(tab.undo)) = n - 1
      /\ \A i \in 1 .. (n - 1) : Front(tab.undo)[i] = tab.undo[i]
  BY ProperTabIs, FrontIs
<1>3. /\ Len(Append(tab.redo, c)) = m + 1 /\ Append(tab.redo, c)[m + 1] = c
      /\ \A i \in 1 .. m : Append(tab.redo, c)[i] = tab.redo[i]
  BY <1>2, ProperTabIs, PushIs
<1>4. /\ T[n] = s.up /\ \A i \in 1 .. n : tab.undo[i] = C[i]
      /\ \A j \in 1 .. m : tab.redo[j] = C[n + m + 1 - j]
      /\ \A i \in 1 .. (n + m) : Does(T[i - 1], C[i], T[i])
  BY <1>1 DEF Trace
<1>5. n \in 1 .. n /\ n \in 1 .. (n + m) /\ n - 1 \in Nat /\ n - 1 \in 0 .. (n + m)
  <2> HIDE DEF n, m, c, t
  <2> QED
    BY <1>2
<1>6. Does(T[n - 1], c, s.up) /\ T[n - 1] \in Ups
  BY <1>1, <1>2, <1>4, <1>5
<1>7. Placed(T[n - 1], s, M)
  BY <1>1, <1>5 DEF Known
<1> HIDE DEF c
<1>8. ~Throws(s, c) /\ Trees(s, t, M) /\ t.up = T[n - 1]
  BY <1>2, <1>6, <1>7, UndoneTree DEF c
<1> HIDE DEF t, n, m
<1>9. ASSUME NEW new \in ProperTab, new.undo = Front(tab.undo),
             new.redo = Append(tab.redo, c), new.saved = tab.saved
      PROVE  Traced(new, t, M, lo, f)
  <2>1. Len(new.undo) = n - 1 /\ Len(new.redo) = m + 1 /\ (n - 1) + (m + 1) = n + m
    BY <1>2, <1>3, <1>9
  <2>2. Trace(new, t.up, T, C)
    <3>1. \A i \in 1 .. (n - 1) : i \in 1 .. n
      BY <1>2
    <3>2. \A i \in 1 .. (n - 1) : new.undo[i] = C[i]
      BY <1>2, <1>4, <1>9, <3>1
    <3>3. ASSUME NEW j \in 1 .. (m + 1)
          PROVE  new.redo[j] = C[(n - 1) + (m + 1) + 1 - j]
      <4>1. CASE j = m + 1
        <5>1. (n - 1) + (m + 1) + 1 - j = n
          BY <1>2, <4>1
        <5> QED
          BY <1>2, <1>3, <1>4, <1>5, <1>9, <4>1, <5>1
      <4>2. CASE j # m + 1
        <5>1. j \in 1 .. m /\ (n - 1) + (m + 1) + 1 - j = n + m + 1 - j
          BY <1>2, <4>2
        <5> QED
          BY <1>3, <1>4, <1>9, <5>1
      <4> QED
        BY <4>1, <4>2
    <3> QED
      BY <1>4, <1>8, <2>1, <3>2, <3>3 DEF Trace
  <2>3. Known(new, T, s, M) /\ (lo \/ Kept(new, T, s, f))
    BY <1>1, <1>9, <2>1 DEF Known, Kept, n, m
  <2>4. Alike(s, t, M)
    BY <1>8, SameAlike DEF Trees
  <2>5. Known(new, T, t, M) /\ (lo \/ Kept(new, T, t, f))
    BY <2>3, <2>4, KeptAlike
  <2> QED
    BY <1>1, <2>2, <2>5, Zenon DEF Traced
<1> QED
  BY <1>8, <1>9 DEF c, t

\* A command leads to one place only.
LEMMA DoesOnce ==
    ASSUME NEW u, NEW c \in ProperCommand, NEW v, NEW w, Does(u, c, v), Does(u, c, w)
    PROVE  v = w
BY OpIs DEF Does

\* Redo of a traced stack.
LEMMA RedoTraced ==
    ASSUME NEW s \in Editor, InStep(s), NEW M, Sound(s, M), NEW tab \in ProperTab,
           NEW lo, NEW f, Traced(tab, s, M, lo, f), tab.redo # <<>>
    PROVE  LET c == Last(tab.redo)
               t == Redone(s, c)
           IN  /\ ~Throws(s, c) /\ Trees(s, t, M)
               /\ \A new \in ProperTab :
                      /\ new.undo = Append(tab.undo, Remembered(s, c))
                      /\ new.redo = Front(tab.redo) /\ new.saved = tab.saved
                      => Traced(new, t, M, lo, f)
<1> DEFINE c == Last(tab.redo)
           t == Redone(s, c)
           n == Len(tab.undo)
           m == Len(tab.redo)
<1>1. PICK T \in [Nat -> Ups], C \in [Nat -> ProperCommand] :
          Trace(tab, s.up, T, C) /\ Known(tab, T, s, M) /\ (lo \/ Kept(tab, T, s, f))
  BY Zenon DEF Traced
<1>2. /\ m \in Nat \ {0} /\ n \in Nat /\ c = tab.redo[m] /\ c \in ProperCommand
      /\ Front(tab.redo) \in Seq(ProperCommand) /\ Len(Front(tab.redo)) = m - 1
      /\ \A i \in 1 .. (m - 1) : Front(tab.redo)[i] = tab.redo[i]
  BY ProperTabIs, FrontIs
<1>3. /\ Len(Append(tab.undo, c)) = n + 1 /\ Append(tab.undo, c)[n + 1] = c
      /\ \A i \in 1 .. n : Append(tab.undo, c)[i] = tab.undo[i]
  BY <1>2, ProperTabIs, PushIs
<1>4. /\ T[n] = s.up /\ \A i \in 1 .. n : tab.undo[i] = C[i]
      /\ \A j \in 1 .. m : tab.redo[j] = C[n + m + 1 - j]
      /\ \A i \in 1 .. (n + m) : Does(T[i - 1], C[i], T[i])
  BY <1>1 DEF Trace
<1>5. /\ m \in 1 .. m /\ n + 1 \in 1 .. (n + m) /\ n + m + 1 - m = n + 1
      /\ (n + 1) - 1 = n /\ n + 1 \in 0 .. (n + m)
  <2> HIDE DEF n, m, c, t
  <2> QED
    BY <1>2
<1>6. C[n + 1] = c /\ Does(s.up, c, T[n + 1])
  <2>1. tab.redo[m] = C[n + 1]
    BY <1>4, <1>5
  <2>2. Does(T[n], C[n + 1], T[n + 1])
    BY <1>4, <1>5
  <2> QED
    BY <1>2, <1>4, <2>1, <2>2
<1>7. Placed(T[n + 1], s, M)
  BY <1>1, <1>5 DEF Known
<1> HIDE DEF c
<1>8. Remembered(s, c) = c
  <2>1. CASE c.op = "delete"
    <3>1. c.at = s.up[c.e]
      BY <1>6, <2>1 DEF Does
    <3>2. c \in Command
      BY <1>2 DEF ProperCommand
    <3>3. [c EXCEPT !.at = s.up[c.e]] = c
      BY <3>1, <3>2 DEF Command
    <3> QED
      BY <2>1, <3>3 DEF Remembered
  <2>2. CASE c.op # "delete"
    BY <2>2 DEF Remembered
  <2> QED
    BY <2>1, <2>2
<1>9. ~Throws(s, c)
  BY <1>6 DEF Throws, Does
<1>10. c.op \in {"create", "paste"} =>
           s.up[c.e] = Nil /\ ~Orphan(s, c.e) /\ c.e \in M /\ (c.at = Dep \/ c.at \in M)
  <2> SUFFICES ASSUME c.op \in {"create", "paste"}
               PROVE  s.up[c.e] = Nil /\ ~Orphan(s, c.e) /\ c.e \in M
                      /\ (c.at = Dep \/ c.at \in M)
    OBVIOUS
  <2>1. /\ s.up[c.e] = Nil /\ c.at # Nil /\ T[n + 1] = [s.up EXCEPT ![c.e] = c.at]
        /\ c.e \in Elements /\ s.up \in Ups
    BY <1>2, <1>6, ProperIs DEF Does, Editor, Ups
  <2>2. T[n + 1][c.e] = c.at
    BY <2>1 DEF Ups
  <2> QED
    BY <1>7, <2>1, <2>2 DEF Placed
<1>11. Trees(s, t, M) /\ Does(s.up, c, t.up)
  BY <1>2, <1>8, <1>9, <1>10, RedoneTree
<1> HIDE DEF t, n, m
<1>12. t.up = T[n + 1]
  BY <1>2, <1>6, <1>11, DoesOnce
<1>13. ASSUME NEW new \in ProperTab, new.undo = Append(tab.undo, c),
              new.redo = Front(tab.redo), new.saved = tab.saved
       PROVE  Traced(new, t, M, lo, f)
  <2>1. Len(new.undo) = n + 1 /\ Len(new.redo) = m - 1 /\ (n + 1) + (m - 1) = n + m
    BY <1>2, <1>3, <1>13
  <2>2. Trace(new, t.up, T, C)
    <3>1. ASSUME NEW i \in 1 .. (n + 1) PROVE new.undo[i] = C[i]
      <4>1. i = n + 1 \/ i \in 1 .. n
        BY <1>2
      <4> QED
        BY <1>3, <1>4, <1>6, <1>13, <4>1
    <3>2. ASSUME NEW j \in 1 .. (m - 1)
          PROVE  new.redo[j] = C[(n + 1) + (m - 1) + 1 - j]
      <4>1. j \in 1 .. m /\ (n + 1) + (m - 1) + 1 - j = n + m + 1 - j
        BY <1>2
      <4> QED
        BY <1>2, <1>4, <1>13, <4>1
    <3> QED
      BY <1>4, <1>12, <2>1, <3>1, <3>2 DEF Trace
  <2>3. Known(new, T, s, M) /\ (lo \/ Kept(new, T, s, f))
    BY <1>1, <1>13, <2>1 DEF Known, Kept, n, m
  <2>4. Alike(s, t, M)
    BY <1>11, SameAlike DEF Trees
  <2>5. Known(new, T, t, M) /\ (lo \/ Kept(new, T, t, f))
    BY <2>3, <2>4, KeptAlike
  <2> QED
    BY <1>1, <2>2, <2>5, Zenon DEF Traced
<1> QED
  BY <1>8, <1>9, <1>11, <1>13 DEF c, t

\* A command is put on a traced stack.
LEMMA PushTraced ==
    ASSUME NEW s \in Editor, NEW M, NEW tab \in ProperTab, NEW lo, NEW f,
           Traced(tab, s, M, lo, f),
           NEW t, NEW N, M \subseteq N, Alike(s, t, M), Sound(t, N), t.up \in Ups,
           NEW d \in ProperCommand, Does(s.up, d, t.up),
           NEW new \in ProperTab, new.undo = Append(tab.undo, d), new.redo = <<>>,
           new.saved = IF tab.saved > Len(tab.undo) THEN -1 ELSE tab.saved
    PROVE  Traced(new, t, N, lo, f)
<1> DEFINE n == Len(tab.undo)
           m == Len(tab.redo)
<1>1. PICK T \in [Nat -> Ups], C \in [Nat -> ProperCommand] :
          Trace(tab, s.up, T, C) /\ Known(tab, T, s, M) /\ (lo \/ Kept(tab, T, s, f))
  BY Zenon DEF Traced
<1>2. /\ n \in Nat /\ m \in Nat /\ Len(new.undo) = n + 1 /\ Len(new.redo) = 0
      /\ new.undo[n + 1] = d /\ \A i \in 1 .. n : new.undo[i] = tab.undo[i]
      /\ tab.saved \in Int
  BY ProperTabIs, PushIs
<1>3. /\ T[n] = s.up /\ \A i \in 1 .. n : tab.undo[i] = C[i]
      /\ \A i \in 1 .. (n + m) : Does(T[i - 1], C[i], T[i])
  BY <1>1 DEF Trace
<1> HIDE DEF n, m
<1> DEFINE U == [T EXCEPT ![n + 1] = t.up]
           D == [C EXCEPT ![n + 1] = d]
<1>4. /\ U \in [Nat -> Ups] /\ D \in [Nat -> ProperCommand]
      /\ U[n + 1] = t.up /\ D[n + 1] = d
      /\ \A k \in Nat : k # n + 1 => U[k] = T[k] /\ D[k] = C[k]
  BY <1>2
<1> HIDE DEF U, D
<1>5. Trace(new, t.up, U, D)
  <2>1. \A i \in 1 .. (n + 1) : new.undo[i] = D[i]
    <3> SUFFICES ASSUME NEW i \in 1 .. (n + 1) PROVE new.undo[i] = D[i]
      OBVIOUS
    <3>1. i = n + 1 \/ (i \in 1 .. n /\ i # n + 1 /\ i \in Nat)
      BY <1>2
    <3> QED
      BY <1>2, <1>3, <1>4, <3>1
  <2>2. \A i \in 1 .. (n + 1) : Does(U[i - 1], D[i], U[i])
    <3> SUFFICES ASSUME NEW i \in 1 .. (n + 1) PROVE Does(U[i - 1], D[i], U[i])
      OBVIOUS
    <3>1. CASE i = n + 1
      <4>1. i - 1 = n /\ n # n + 1 /\ n \in Nat
        BY <1>2, <3>1
      <4> QED
        BY <1>3, <1>4, <3>1, <4>1
    <3>2. CASE i # n + 1
      <4>1. i \in 1 .. (n + m) /\ i \in Nat /\ i - 1 \in Nat /\ i - 1 # n + 1
        BY <1>2, <3>2
      <4> QED
        BY <1>3, <1>4, <3>2, <4>1
    <3> QED
      BY <3>1, <3>2
  <2> QED
    BY <1>2, <1>4, <2>1, <2>2 DEF Trace
<1>6. Known(tab, T, t, N) /\ (lo \/ Kept(tab, T, t, f))
  BY <1>1, KeptAlike
<1>7. \A k \in 0 .. n : k \in Nat /\ k # n + 1 /\ k \in 0 .. (n + m)
  BY <1>2
<1>8. Known(new, U, t, N)
  <2> SUFFICES ASSUME NEW k \in 0 .. (n + 1) PROVE Placed(U[k], t, N)
    BY <1>2 DEF Known
  <2>1. CASE k = n + 1
    BY <1>4, <2>1, SoundPlaced
  <2>2. CASE k # n + 1
    <3>1. k \in 0 .. n
      BY <1>2, <2>2
    <3> QED
      BY <1>4, <1>6, <1>7, <3>1 DEF Known, n, m
  <2> QED
    BY <2>1, <2>2
<1>9. lo \/ Kept(new, U, t, f)
  <2>1. ASSUME Kept(tab, T, t, f), new.saved \in 0 .. (n + 1)
        PROVE  f = ContentBy(U[new.saved], t)
    <3>1. /\ new.saved = tab.saved /\ tab.saved \in 0 .. n
          /\ tab.saved \in 0 .. (n + m)
      BY <1>2, <2>1 DEF n
    <3>2. f = ContentBy(T[tab.saved], t)
      BY <2>1, <3>1 DEF Kept, n, m
    <3>3. U[tab.saved] = T[tab.saved]
      BY <1>4, <1>7, <3>1
    <3> QED
      BY <3>1, <3>2, <3>3
  <2>2. Kept(tab, T, t, f) => Kept(new, U, t, f)
    <3>1. Len(new.undo) + Len(new.redo) = n + 1
      BY <1>2
    <3> QED
      BY <2>1, <3>1, Zenon DEF Kept
  <2> QED
    BY <1>6, <2>2, Zenon
<1> QED
  BY <1>4, <1>5, <1>8, <1>9, Zenon DEF Traced

\* The tree of a traced stack is saved.
LEMMA MarkTraced ==
    ASSUME NEW s \in Editor, NEW M, NEW tab \in ProperTab, NEW lo, NEW f,
           Traced(tab, s, M, lo, f),
           NEW new \in ProperTab, new.undo = tab.undo, new.redo = tab.redo,
           new.saved = Len(tab.undo)
    PROVE  Traced(new, s, M, lo, ContentBy(s.up, s))
<1>1. PICK T \in [Nat -> Ups], C \in [Nat -> ProperCommand] :
          Trace(tab, s.up, T, C) /\ Known(tab, T, s, M)
  BY Zenon DEF Traced
<1>2. Trace(new, s.up, T, C) /\ Known(new, T, s, M)
  BY <1>1 DEF Trace, Known
<1>3. Kept(new, T, s, ContentBy(s.up, s))
  BY <1>1 DEF Kept, Trace
<1> QED
  BY <1>2, <1>3, Zenon DEF Traced

\* Nothing but the tree counts.
LEMMA TreeOnly ==
    ASSUME NEW s, NEW t, t.kids = s.kids, t.up = s.up, NEW M
    PROVE  /\ Sound(s, M) => Sound(t, M)
           /\ ContentBy(t.up, t) = ContentBy(s.up, s)
           /\ \A tab, lo, f : Traced(tab, s, M, lo, f) => Traced(tab, t, M, lo, f)
<1>1. Sound(s, M) => Sound(t, M)
  BY DEF Sound
<1>2. \A e : Orphan(t, e) <=> Orphan(s, e)
  BY DEF Orphan
<1>3. \A u : ContentBy(u, t) = ContentBy(u, s)
  BY <1>2 DEF ContentBy, Orphans
<1>4. ASSUME NEW tab, NEW lo, NEW f, Traced(tab, s, M, lo, f)
      PROVE  Traced(tab, t, M, lo, f)
  <2>1. PICK T \in [Nat -> Ups], C \in [Nat -> ProperCommand] :
            Trace(tab, s.up, T, C) /\ Known(tab, T, s, M) /\ (lo \/ Kept(tab, T, s, f))
    BY <1>4, Zenon DEF Traced
  <2>2. Trace(tab, t.up, T, C)
    BY <2>1, Zenon
  <2>3. Known(tab, T, t, M)
    BY <1>2, <2>1, Zenon DEF Known, Placed
  <2>4. lo \/ Kept(tab, T, t, f)
    BY <1>3, <2>1, Zenon DEF Kept
  <2> QED
    BY <2>2, <2>3, <2>4, Zenon DEF Traced
<1> QED
  BY <1>1, <1>3, <1>4, Zenon

-----------------------------------------------------------------------------
(* One tab that the user works on: the others are as new, and its stack is  *)
(* true of the tree and, unless it was closed, of the file.                 *)

OneTab(h) ==
    /\ ~failed /\ Sound(ed, made)
    /\ \A i \in 1 .. Len(ed.tabs) :
           IF ed.tabs[i].shows = h THEN Traced(ed.tabs[i], ed, made, lost, file)
           ELSE ed.tabs[i] = NewTab(ed.tabs[i].shows)
    /\ ~lost /\ h \in worked => \E i \in 1 .. Len(ed.tabs) : ed.tabs[i].shows = h

OInv ==
    /\ worked \subseteq Holders
    /\ \A h \in Holders : worked \subseteq {h} => OneTab(h)

\* Where the tab of a stack is.
LEMMA TabFound ==
    ASSUME NEW s \in Editor, InStep(s), NEW tab, NEW j \in 1 .. Len(s.tabs),
           s.tabs[j].shows = tab.shows
    PROVE  SelectInSeq(s.tabs, LAMBDA t : t.shows = tab.shows) = j
<1> DEFINE I == {i \in 1 .. Len(s.tabs) : s.tabs[i].shows = tab.shows}
<1>1. I = {j}
  BY ShowsOnce
<1>2. SelectInSeq(s.tabs, LAMBDA t : t.shows = tab.shows) = IF I # {} THEN Min(I) ELSE 0
  BY DEF SelectInSeq
<1>3. j \in Nat
  OBVIOUS
<1> HIDE DEF I
<1> QED
  BY <1>1, <1>2, <1>3, MinOfOne

\* The tabs of the tree s of a step are as new, but for the one at work.
LEMMA OthersNew ==
    ASSUME ed \in Editor, NEW h, OneTab(h), NEW s \in Editor, Follows(ed, s),
           NEW i \in 1 .. Len(s.tabs), s.tabs[i].shows # h \/ h \in s.closed
    PROVE  s.tabs[i] = NewTab(s.tabs[i].shows)
<1>1. CASE s.tabs[i] # NewTab(s.tabs[i].shows)
  <2>1. PICK j \in 1 .. Len(ed.tabs) : s.tabs[i] = ed.tabs[j]
    BY <1>1, Zenon DEF Follows
  <2>2. s.tabs[i].shows # h
    BY <1>1, Zenon DEF Follows
  <2> QED
    BY <2>1, <2>2 DEF OneTab
<1> QED
  BY <1>1

\* The tree s of a command becomes that of the editor, its stack that of the
\* tab it was given on.
LEMMA EndsTraced ==
    ASSUME ed \in Editor, InStep(ed), NEW h \in Holders, OneTab(h), worked \subseteq {h},
           Current.shows = h,
           NEW s \in Editor, InStep(s), Follows(ed, s), Sound(s, made'),
           NEW new \in ProperTab, new.shows = h, Ends(s, new),
           Traced(new, s, made', lost, file')
    PROVE  OneTab(h)'
<1>1. /\ ~failed' /\ worked' = {h} /\ lost' = (lost \/ s.closed \cap {h} # {})
  BY DEF Ends, InStep
<1>2. CASE h \in s.closed
  <2>1. ed' = [s EXCEPT !.closed = {}] /\ lost'
    BY <1>1, <1>2 DEF Ends
  <2>2. ed'.kids = s.kids /\ ed'.up = s.up /\ ed'.tabs = s.tabs /\ ed' \in Editor
    BY <2>1 DEF Editor
  <2>3. Sound(ed', made')
    BY <2>2, TreeOnly, Zenon
  <2>4. ASSUME NEW i \in 1 .. Len(ed'.tabs)
        PROVE  /\ ed'.tabs[i] = NewTab(ed'.tabs[i].shows)
               /\ ed'.tabs[i].shows \in Holders
    <3>1. s.tabs[i] = NewTab(s.tabs[i].shows)
      BY <1>2, <2>2, OthersNew
    <3>2. s.tabs[i] \in ProperTab
      BY <2>2 DEF Editor
    <3> QED
      BY <2>2, <3>1, <3>2, ProperTabIs
  <2>5. Traced(NewTab(h), ed', made', lost', file')
    BY <2>1, <2>2, <2>3, NewTraced, Zenon
  <2> QED
    BY <1>1, <2>1, <2>3, <2>4, <2>5 DEF OneTab
<1>3. CASE h \notin s.closed
  <2>1. PICK j \in 1 .. Len(s.tabs) : s.tabs[j].shows = h
    <3>1. PICK a \in 1 .. Len(ed.tabs) : ed.tabs[a].shows = h
      BY DEF Current, Editor, InStep
    <3>2. \E i \in 1 .. Len(s.tabs) : s.tabs[i] = ed.tabs[a]
      BY <1>3, <3>1 DEF Follows
    <3> QED
      BY <3>1, <3>2
  <2> DEFINE o == SelectInSeq(s.tabs, LAMBDA t : t.shows = new.shows)
  <2>2. o = j
    BY <2>1, TabFound
  <2>3. ed' = [[s EXCEPT !.tabs[o] = new] EXCEPT !.closed = {}]
    BY <1>3, Zenon DEF Ends
  <2> HIDE DEF o
  <2>4. ed'.kids = s.kids /\ ed'.up = s.up /\ ed'.tabs = [s.tabs EXCEPT ![j] = new]
    BY <2>2, <2>3 DEF Editor
  <2>5. PutAt(ProperTab, s.tabs, j, new, ed'.tabs)
    <3>1. s.tabs \in Seq(ProperTab)
      BY DEF Editor
    <3> QED
      BY <2>4, <3>1, PutAtIs
  <2>6. /\ Len(ed'.tabs) = Len(s.tabs)
        /\ \A i \in 1 .. Len(s.tabs) : ed'.tabs[i] = IF i = j THEN new ELSE s.tabs[i]
    BY <2>5, Zenon DEF PutAt
  <2>7. Sound(ed', made') /\ Traced(new, ed', made', lost, file')
    BY <2>4, TreeOnly, Zenon
  <2>8. Traced(new, ed', made', lost', file')
    <3>1. lost' <=> lost
      BY <1>1, <1>3
    <3> QED
      BY <2>7, <3>1, Zenon DEF Traced
  <2>9. ASSUME NEW i \in 1 .. Len(ed'.tabs)
        PROVE  IF ed'.tabs[i].shows = h
               THEN Traced(ed'.tabs[i], ed', made', lost', file')
               ELSE ed'.tabs[i] = NewTab(ed'.tabs[i].shows)
    <3>1. CASE i = j
      BY <2>6, <2>8, <3>1
    <3>2. CASE i # j
      <4>1. i \in 1 .. Len(s.tabs) /\ ed'.tabs[i] = s.tabs[i]
        BY <2>6, <3>2
      <4>2. s.tabs[i].shows # h
        BY <2>1, <3>2, <4>1, ShowsOnce
      <4>3. s.tabs[i] = NewTab(s.tabs[i].shows)
        BY <4>1, <4>2, OthersNew
      <4> QED
        BY <4>1, <4>2, <4>3
    <3> QED
      BY <3>1, <3>2
  <2>10. j \in 1 .. Len(ed'.tabs) /\ ed'.tabs[j].shows = h
    BY <2>6
  <2> QED
    BY <1>1, <2>7, <2>9, <2>10, Zenon DEF OneTab
<1> QED
  BY <1>2, <1>3

\* The tab at work, and its stack.
LEMMA CurrentTraced ==
    ASSUME ed \in Editor, InStep(ed), NEW h, OneTab(h), Current.shows = h
    PROVE  Traced(Current, ed, made, lost, file)
<1>1. ed.tabs \in Seq(ProperTab) /\ ed.active \in 1 .. Len(ed.tabs)
  BY DEF Editor, InStep
<1> QED
  BY <1>1, Zenon DEF OneTab, Current

\* Who works on a tab that is the only one has it in front.
LEMMA EndsAt ==
    ASSUME OInv, NEW s, NEW new \in ProperTab, new.shows = Current.shows,
           worked' = worked \cup {new.shows}
    PROVE  /\ worked' \subseteq Holders
           /\ \A h \in Holders : worked' \subseteq {h} =>
                  Current.shows = h /\ worked \subseteq {h} /\ OneTab(h)
BY ProperTabIs DEF OInv

LEMMA UndoOne ==
    ASSUME EInv, OInv, Undo
    PROVE  OInv'
<1>1. ed \in Editor /\ InStep(ed) /\ ed.closed = {} /\ Current \in ProperTab
  BY CurrentIs DEF EInv, Undo
<1> DEFINE c == Last(Current.undo)
           popped == [Current EXCEPT !.undo = Front(@)]
           tab == [popped EXCEPT !.redo = Append(@, c)]
<1>2. c \in ProperCommand /\ Front(Current.undo) \in Seq(ProperCommand)
  BY <1>1, ProperTabIs, LastOf DEF Undo
<1>3. /\ popped \in ProperTab /\ popped.shows = Current.shows
      /\ tab \in ProperTab /\ tab.shows = Current.shows
      /\ tab.undo = Front(Current.undo) /\ tab.redo = Append(Current.redo, c)
      /\ tab.saved = Current.saved
  <2>1. Append(Current.redo, c) \in Seq(ProperCommand)
    BY <1>1, <1>2, ProperTabIs
  <2> QED
    BY <1>1, <1>2, <2>1 DEF ProperTab
<1>4. /\ Current.undo # <<>> /\ CanUndo(c) /\ made' = made /\ file' = file
      /\ IF Throws(ed, c) THEN Fails(popped) ELSE Ends(Undone(ed, c), tab)
  BY Zenon DEF Undo
<1> HIDE DEF c, popped, tab
<1>5. worked' = worked \cup {Current.shows}
  BY <1>3, <1>4 DEF Fails, Ends
<1>6. /\ worked' \subseteq Holders
      /\ \A h \in Holders : worked' \subseteq {h} =>
             Current.shows = h /\ worked \subseteq {h} /\ OneTab(h)
  BY <1>3, <1>5, EndsAt
<1>7. ASSUME NEW h \in Holders, worked' \subseteq {h} PROVE OneTab(h)'
  <2>1. Current.shows = h /\ worked \subseteq {h} /\ OneTab(h)
    BY <1>6, <1>7
  <2>2. Traced(Current, ed, made, lost, file) /\ Sound(ed, made)
    BY <1>1, <2>1, CurrentTraced, Zenon DEF OneTab
  <2>3. /\ ~Throws(ed, c) /\ Trees(ed, Undone(ed, c), made)
        /\ Traced(tab, Undone(ed, c), made, lost, file)
    BY <1>1, <1>3, <1>4, <2>2, UndoTraced, Zenon DEF c
  <2>4. /\ Undone(ed, c) \in Editor /\ InStep(Undone(ed, c))
        /\ Follows(ed, Undone(ed, c)) /\ Sound(Undone(ed, c), made)
    BY <1>1, <1>2, <2>3, UndoneInStep DEF Trees
  <2> QED
    BY <1>1, <1>3, <1>4, <2>1, <2>3, <2>4, EndsTraced
<1> QED
  BY <1>6, <1>7 DEF OInv

LEMMA RedoOne ==
    ASSUME EInv, OInv, Redo
    PROVE  OInv'
<1>1. ed \in Editor /\ InStep(ed) /\ ed.closed = {} /\ Current \in ProperTab
  BY CurrentIs DEF EInv, Redo
<1> DEFINE c == Last(Current.redo)
           popped == [Current EXCEPT !.redo = Front(@)]
           tab == [popped EXCEPT !.undo = Append(@, Remembered(ed, c))]
<1>2. c \in ProperCommand /\ Front(Current.redo) \in Seq(ProperCommand)
  BY <1>1, ProperTabIs, LastOf DEF Redo
<1>3. /\ popped \in ProperTab /\ popped.shows = Current.shows
      /\ tab \in ProperTab /\ tab.shows = Current.shows
      /\ tab.undo = Append(Current.undo, Remembered(ed, c))
      /\ tab.redo = Front(Current.redo) /\ tab.saved = Current.saved
  <2>1. Append(Current.undo, Remembered(ed, c)) \in Seq(ProperCommand)
    BY <1>1, <1>2, ProperTabIs, RememberedIs
  <2> QED
    BY <1>1, <1>2, <2>1 DEF ProperTab
<1>4. /\ Current.redo # <<>> /\ made' = made /\ file' = file
      /\ IF Throws(ed, c) THEN Fails(popped) ELSE Ends(Redone(ed, c), tab)
  BY Zenon DEF Redo
<1> HIDE DEF c, popped, tab
<1>5. worked' = worked \cup {Current.shows}
  BY <1>3, <1>4 DEF Fails, Ends
<1>6. /\ worked' \subseteq Holders
      /\ \A h \in Holders : worked' \subseteq {h} =>
             Current.shows = h /\ worked \subseteq {h} /\ OneTab(h)
  BY <1>3, <1>5, EndsAt
<1>7. ASSUME NEW h \in Holders, worked' \subseteq {h} PROVE OneTab(h)'
  <2>1. Current.shows = h /\ worked \subseteq {h} /\ OneTab(h)
    BY <1>6, <1>7
  <2>2. Traced(Current, ed, made, lost, file) /\ Sound(ed, made)
    BY <1>1, <2>1, CurrentTraced, Zenon DEF OneTab
  <2>3. /\ ~Throws(ed, c) /\ Trees(ed, Redone(ed, c), made)
        /\ Traced(tab, Redone(ed, c), made, lost, file)
    BY <1>1, <1>3, <1>4, <2>2, RedoTraced, Zenon DEF c
  <2>4. /\ Redone(ed, c) \in Editor /\ InStep(Redone(ed, c))
        /\ Follows(ed, Redone(ed, c)) /\ Sound(Redone(ed, c), made)
    BY <1>1, <1>2, <2>3, RedoneInStep DEF Trees
  <2> QED
    BY <1>1, <1>3, <1>4, <2>1, <2>3, <2>4, EndsTraced
<1> QED
  BY <1>6, <1>7 DEF OInv

LEMMA SaveOne ==
    ASSUME EInv, OInv, Save
    PROVE  OInv'
<1>1. ed \in Editor /\ InStep(ed) /\ ed.closed = {} /\ Current \in ProperTab
  BY CurrentIs DEF EInv, Save
<1> DEFINE tab == [Current EXCEPT !.saved = Len(Current.undo)]
<1>2. /\ tab \in ProperTab /\ tab.shows = Current.shows /\ tab.undo = Current.undo
      /\ tab.redo = Current.redo /\ tab.saved = Len(Current.undo)
  BY <1>1 DEF ProperTab
<1>3. Ends(ed, tab) /\ made' = made /\ file' = Content(ed)
  BY Zenon DEF Save
<1> HIDE DEF tab
<1>4. worked' = worked \cup {Current.shows}
  BY <1>2, <1>3 DEF Ends
<1>5. /\ worked' \subseteq Holders
      /\ \A h \in Holders : worked' \subseteq {h} =>
             Current.shows = h /\ worked \subseteq {h} /\ OneTab(h)
  BY <1>2, <1>4, EndsAt
<1>6. ASSUME NEW h \in Holders, worked' \subseteq {h} PROVE OneTab(h)'
  <2>1. Current.shows = h /\ worked \subseteq {h} /\ OneTab(h)
    BY <1>5, <1>6
  <2>2. Traced(Current, ed, made, lost, file) /\ Sound(ed, made)
    BY <1>1, <2>1, CurrentTraced, Zenon DEF OneTab
  <2>3. Traced(tab, ed, made, lost, ContentBy(ed.up, ed))
    BY <1>1, <1>2, <2>2, MarkTraced, Zenon
  <2>4. Traced(tab, ed, made', lost, file')
    BY <1>1, <1>3, <2>2, <2>3, ContentIs, Zenon
  <2>5. Sound(ed, made') /\ Follows(ed, ed)
    BY <1>1, <1>3, <2>2, FollowsSame
  <2> QED
    BY <1>1, <1>2, <1>3, <2>1, <2>4, <2>5, EndsTraced
<1> QED
  BY <1>5, <1>6 DEF OInv

LEMMA SelectOne ==
    ASSUME EInv, OInv, NEW i, SelectTab(i)
    PROVE  OInv'
<1>1. /\ ed' = [ed EXCEPT !.active = i]
      /\ file' = file /\ made' = made /\ worked' = worked /\ lost' = lost
      /\ failed' = failed
  BY DEF SelectTab
<1>2. ASSUME NEW h \in Holders, worked' \subseteq {h} PROVE OneTab(h)'
  <2>1. OneTab(h) /\ ~failed
    BY <1>1, <1>2 DEF OInv, OneTab
  <2>2. ed \in Editor
    BY <2>1 DEF EInv
  <2>3. ed'.kids = ed.kids /\ ed'.up = ed.up /\ ed'.tabs = ed.tabs
    BY <1>1, <2>2 DEF Editor
  <2>4. /\ Sound(ed, made) => Sound(ed', made)
        /\ \A tab, lo, f : Traced(tab, ed, made, lo, f) => Traced(tab, ed', made, lo, f)
    BY <2>3, TreeOnly, Zenon
  <2> QED
    BY <1>1, <2>1, <2>3, <2>4, Zenon DEF OneTab
<1> QED
  BY <1>1, <1>2 DEF OInv

\* A command of the user is given on s, the tree with what it is to paste.
LEMMA ExecuteOne ==
    ASSUME EInv, OInv, NEW s \in Editor, InStep(s), s.tabs = ed.tabs, s.closed = {},
           s.up = ed.up, NEW c \in ProperCommand, ~Throws(s, c), Execute(s, c),
           made \subseteq made',
           Sound(ed, made) => Sound(s, made') /\ Alike(ed, s, made),
           c.op \in {"create", "paste"} /\ Sound(ed, made) =>
               /\ s.up[c.e] = Nil /\ ~Orphan(s, c.e) /\ c.e \in made'
               /\ c.at = Dep \/ c.at \in made'
    PROVE  OInv'
<1>1. ed \in Editor /\ InStep(ed) /\ ed.closed = {} /\ Current \in ProperTab
  BY CurrentIs DEF EInv, Execute
<1> DEFINE d == Remembered(s, c)
           tab == [Current EXCEPT !.undo = Append(@, d),
                                  !.redo = <<>>,
                                  !.saved = IF @ > Len(Current.undo) THEN -1 ELSE @]
<1>2. d \in ProperCommand
  BY RememberedIs
<1>3. /\ tab \in ProperTab /\ tab.shows = Current.shows
      /\ tab.undo = Append(Current.undo, d) /\ tab.redo = <<>>
      /\ tab.saved = IF Current.saved > Len(Current.undo) THEN -1 ELSE Current.saved
  <2>1. /\ Append(Current.undo, d) \in Seq(ProperCommand) /\ <<>> \in Seq(ProperCommand)
        /\ (IF Current.saved > Len(Current.undo) THEN -1 ELSE Current.saved) \in Int
    BY <1>1, <1>2, ProperTabIs
  <2> QED
    BY <1>1, <1>2, <2>1 DEF ProperTab
<1>4. Ends(Redone(s, c), tab) /\ file' = file
  BY Zenon DEF Execute
<1> HIDE DEF d, tab
<1>5. worked' = worked \cup {Current.shows}
  BY <1>3, <1>4 DEF Ends
<1>6. /\ worked' \subseteq Holders
      /\ \A h \in Holders : worked' \subseteq {h} =>
             Current.shows = h /\ worked \subseteq {h} /\ OneTab(h)
  BY <1>3, <1>5, EndsAt
<1>7. ASSUME NEW h \in Holders, worked' \subseteq {h} PROVE OneTab(h)'
  <2>1. Current.shows = h /\ worked \subseteq {h} /\ OneTab(h)
    BY <1>6, <1>7
  <2>2. Traced(Current, ed, made, lost, file) /\ Sound(ed, made)
    BY <1>1, <2>1, CurrentTraced, Zenon DEF OneTab
  <2> DEFINE t == Redone(s, c)
  <2>3. Trees(s, t, made') /\ Does(s.up, d, t.up)
    BY <2>2, RedoneTree DEF d
  <2>4. /\ t \in Editor /\ InStep(t) /\ Follows(s, t) /\ Sound(t, made')
    BY <2>3, RedoneInStep DEF Trees
  <2>5. Follows(ed, t)
    BY <2>4 DEF Follows
  <2>6. Alike(ed, t, made)
    BY <2>2, <2>3, AlikeOn DEF Trees
  <2>7. t.up \in Ups /\ Does(ed.up, d, t.up)
    BY <2>3, <2>4 DEF Editor, Ups
  <2> HIDE DEF t
  <2>8. Traced(tab, t, made', lost, file)
    BY <1>1, <1>2, <1>3, <2>2, <2>4, <2>6, <2>7, PushTraced
  <2> QED
    BY <1>1, <1>3, <1>4, <2>1, <2>4, <2>5, <2>8, EndsTraced DEF t
<1> QED
  BY <1>6, <1>7 DEF OInv

\* What is not made is nowhere.
LEMMA NewIs ==
    ASSUME ed \in Editor, Sound(ed, made), NEW e \in Elements, e \notin made
    PROVE  ed.up[e] = Nil /\ ~Orphan(ed, e) /\ \A h \in Holders : e \notin Range(ed.kids[h])
BY DEF Sound, Orphan, Holders

LEMMA SoundMore ==
    ASSUME NEW s, NEW M, NEW N, M \subseteq N, Sound(s, M)
    PROVE  Sound(s, N)
BY DEF Sound

LEMMA AlikeSelf ==
    ASSUME NEW s, NEW M
    PROVE  Alike(s, s, M)
BY DEF Alike

\* A command on the tree as it is, of an element that is new if it creates one.
LEMMA PlainOne ==
    ASSUME EInv, OInv, NEW c \in ProperCommand, ~Throws(ed, c), Execute(ed, c),
           made \subseteq made',
           c.op \in {"create", "paste"} /\ Sound(ed, made) =>
               c.e \in Elements \ made /\ c.e \in made' /\ (c.at = Dep \/ c.at \in made')
    PROVE  OInv'
<1>1. ed \in Editor /\ InStep(ed) /\ ed.closed = {}
  BY DEF EInv, Execute
<1>2. Sound(ed, made) => Sound(ed, made') /\ Alike(ed, ed, made)
  BY SoundMore, AlikeSelf
<1>3. c.op \in {"create", "paste"} /\ Sound(ed, made) =>
          /\ ed.up[c.e] = Nil /\ ~Orphan(ed, c.e) /\ c.e \in made'
          /\ c.at = Dep \/ c.at \in made'
  BY <1>1, NewIs
<1> QED
  BY <1>1, <1>2, <1>3, ExecuteOne

LEMMA NewRegionsNew ==
    ASSUME NEW n \in 0 .. Cardinality(Regions \ made)
    PROVE  /\ NewRegions(n) \in Seq(Regions) /\ Len(NewRegions(n)) = n
           /\ IsInjective(NewRegions(n)) /\ Range(NewRegions(n)) \subseteq Regions \ made
<1> DEFINE q == SetToSeq(Regions \ made)
<1>1. IsFiniteSet(Regions \ made)
  BY ElementsAssumption, FS_Subset
<1>2. q \in Seq(Regions \ made) /\ Len(q) = Cardinality(Regions \ made) /\ Len(q) \in Nat
  BY <1>1, SetToSeqIs
<1>3. NewRegions(n) \in Seq(Regions) /\ Len(NewRegions(n)) = n /\ IsInjective(NewRegions(n))
  BY NewRegionsIs
<1> HIDE DEF q
<1>4. \A i \in 1 .. n : SubSeq(q, 1, n)[i] \in Regions \ made
  BY <1>2
<1>5. NewRegions(n) = SubSeq(q, 1, n)
  BY DEF NewRegions, q
<1>6. DOMAIN NewRegions(n) = 1 .. n
  BY <1>3
<1> QED
  BY <1>3, <1>4, <1>5, <1>6 DEF Range

LEMMA OneNewIs ==
    ASSUME ~(Regions \subseteq made)
    PROVE  /\ NewRegions(1)[1] \in Regions \ made
           /\ NewRegions(1)[1] \in Range(NewRegions(1))
<1>1. IsFiniteSet(Regions \ made) /\ Regions \ made # {}
  BY ElementsAssumption, FS_Subset
<1>2. Cardinality(Regions \ made) \in Nat /\ Cardinality(Regions \ made) # 0
  BY <1>1, FS_CardinalityType, FS_EmptySet
<1>3. 1 \in 0 .. Cardinality(Regions \ made)
  BY <1>2
<1>4. /\ NewRegions(1) \in Seq(Regions) /\ Len(NewRegions(1)) = 1
      /\ Range(NewRegions(1)) \subseteq Regions \ made
  BY <1>3, NewRegionsNew
<1>5. NewRegions(1)[1] \in Range(NewRegions(1))
  BY <1>4 DEF Range
<1> QED
  BY <1>4, <1>5

\* The copy of a layout brings orphans, and they are new.
LEMMA CopySound ==
    ASSUME ed \in Editor, InStep(ed), Sound(ed, made), NEW l \in Layouts \ made,
           NEW q \in Seq(Regions), Range(q) \subseteq Regions \ made,
           NEW s, s = [ed EXCEPT !.kids[l] = q], NEW N,
           made \cup {l} \cup Range(q) \subseteq N
    PROVE  /\ Sound(s, N) /\ Alike(ed, s, made) /\ s.up = ed.up
           /\ s.up[l] = Nil /\ ~Orphan(s, l)
<1>1. /\ l \in Holders /\ l # Dep /\ l \in Elements /\ Dep \in Holders /\ Nil \notin Holders
      /\ Layouts \cap Regions = {} /\ Regions \subseteq Elements /\ Layouts \subseteq Holders
      /\ ed.kids \in [Holders -> Seq(Elements)]
      /\ ed.up \in [Elements \cup {Dep} -> Holders \cup {Nil}]
  BY DepIsNoLayout, NilIsNoHolder, ElementsAssumption DEF Holders, Elements, Editor
<1>2. s.up = ed.up /\ \A h \in Holders : s.kids[h] = IF h = l THEN q ELSE ed.kids[h]
  BY <1>1 DEF Editor
<1>3. \A e \in Elements : e \notin made =>
          ed.up[e] = Nil /\ \A h \in Holders : e \notin Range(ed.kids[h])
  BY DEF Sound
<1>4. \A e \in Range(q) : e \in Elements /\ e \notin made /\ e \in N
  BY <1>1
<1>5. \A e \in Elements : ed.up[e] # l
  BY <1>1 DEF Sound
<1>6. Sound(s, N)
  <2>1. ASSUME NEW e \in Elements, NEW h \in Holders, e \in Range(s.kids[h])
        PROVE  s.up[e] \in {h, Nil}
    BY <1>1, <1>2, <1>3, <1>4, <2>1 DEF Sound
  <2>2. ASSUME NEW e \in Elements, s.up[e] # Nil PROVE e \in Range(s.kids[s.up[e]])
    BY <1>1, <1>2, <1>5, <2>2 DEF Sound
  <2>3. ASSUME NEW e \in Elements, NEW h \in Holders, NEW g \in Holders,
               e \in Range(s.kids[h]), e \in Range(s.kids[g])
        PROVE  h = g
    BY <1>1, <1>2, <1>3, <1>4, <2>3 DEF Sound
  <2>4. ASSUME NEW e \in Elements, e \in Range(s.kids[Dep]) PROVE s.up[e] = Dep
    BY <1>1, <1>2, <2>4 DEF Sound
  <2>5. ASSUME NEW e \in Elements, e \notin N
        PROVE  s.up[e] = Nil /\ \A h \in Holders : e \notin Range(s.kids[h])
    BY <1>1, <1>2, <1>3, <1>4, <2>5
  <2>6. ASSUME NEW h \in Layouts, h \notin N, NEW e \in Elements
        PROVE  e \notin Range(s.kids[h])
    BY <1>1, <1>2, <2>6 DEF Sound
  <2> QED
    BY <2>1, <2>2, <2>3, <2>4, <2>5, <2>6, Zenon DEF Sound
<1>7. Alike(ed, s, made)
  <2>1. \A e \in Elements : e \notin Range(ed.kids[l])
    BY DEF Sound
  <2>2. \A e \in Elements : e \in made => e \notin Range(q)
    BY <1>4
  <2>3. ASSUME NEW e \in Elements, e \in made PROVE Orphan(s, e) <=> Orphan(ed, e)
    BY <1>1, <1>2, <2>1, <2>2, <2>3 DEF Orphan
  <2>4. ASSUME NEW h \in Layouts, h \in made PROVE Orphans(s, h) = Orphans(ed, h)
    <3>1. s.kids[h] = ed.kids[h]
      BY <1>1, <1>2, <2>4
    <3>2. \A e \in Elements : e \in Range(ed.kids[h]) => e \in made
      BY <1>1, <1>3
    <3> QED
      BY <2>3, <3>1, <3>2 DEF Orphans
  <2> QED
    BY <2>3, <2>4 DEF Alike
<1>8. s.up[l] = Nil /\ ~Orphan(s, l)
  BY <1>1, <1>2, <1>3 DEF Orphan
<1> QED
  BY <1>2, <1>6, <1>7, <1>8

LEMMA UserOne ==
    ASSUME EInv, OInv,
           \/ CreateLayout
           \/ CreateRegion
           \/ \E e \in Elements \cup {Dep} : Delete(e)
           \/ \E l \in Layouts : DeleteLayout(l) \/ PasteLayout(l)
           \/ \E e \in Elements, op \in {"up", "down"} : Move(e, op)
           \/ \E src \in Regions, l \in Layouts : PasteRegion(src, l)
    PROVE  OInv'
<1>1. ~failed
  BY DEF CreateLayout, CreateRegion, Delete, DeleteLayout, PasteLayout, Move,
         PasteRegion, Execute
<1>2. ed \in Editor /\ InStep(ed) /\ ed.closed = {} /\ Current \in ProperTab
  BY <1>1, CurrentIs DEF EInv
<1>3. /\ Dep \in Holders /\ Nil \notin Holders /\ Dep # Nil
      /\ Layouts \subseteq Elements /\ Regions \subseteq Elements
      /\ Layouts \subseteq Holders /\ Dep \notin Elements
  BY DepIsNoLayout, NilIsNoHolder DEF Elements, Holders
<1>4. ASSUME NEW l \in Range(ed.kids[Dep]) PROVE l \in Layouts /\ (Sound(ed, made) => l \in made)
  <2>1. PICK i \in 1 .. Len(ed.kids[Dep]) : ed.kids[Dep][i] = l
    BY <1>2, <1>3 DEF Range, Editor
  <2>2. l \in Layouts
    BY <1>2, <2>1 DEF InStep
  <2> QED
    BY <1>3, <2>2 DEF Sound
<1>5. ASSUME NEW c \in ProperCommand, c.op \notin {"up", "down", "create", "paste"},
             Execute(ed, c), made' = made
      PROVE  OInv'
  BY <1>5, PlainOne DEF Throws
<1>6. CASE CreateLayout
  <2> DEFINE c == [op |-> "create", e |-> NewLayout, at |-> Dep]
  <2>1. NewLayout \in Layouts \ made /\ made' = made \cup {NewLayout}
    BY <1>6 DEF CreateLayout, NewLayout
  <2>2. c \in ProperCommand /\ c.op = "create" /\ c.e = NewLayout /\ c.at = Dep
    BY <1>3, <2>1, CommandIs
  <2>3. Execute(ed, c) /\ ~Throws(ed, c)
    BY <1>6 DEF CreateLayout, Throws
  <2> HIDE DEF c
  <2> QED
    BY <1>3, <2>1, <2>2, <2>3, PlainOne
<1>7. CASE CreateRegion
  <2> DEFINE c == [op |-> "create", e |-> NewRegions(1)[1], at |-> Current.shows]
  <2>1. /\ NewRegions(1)[1] \in Regions \ made
        /\ made' = made \cup Range(NewRegions(1)) /\ NewRegions(1)[1] \in made'
    BY <1>7, OneNewIs DEF CreateRegion
  <2>2. Current.shows \in Holders /\ Current.shows # Dep
    BY <1>2, <1>7, ProperTabIs DEF CreateRegion
  <2>3. c \in ProperCommand /\ c.op = "create" /\ c.e = NewRegions(1)[1]
        /\ c.at = Current.shows
    BY <1>3, <2>1, <2>2, CommandIs
  <2>4. Execute(ed, c) /\ ~Throws(ed, c)
    BY <1>7 DEF CreateRegion, Throws
  <2>5. Sound(ed, made) => Current.shows \in made
    <3>1. PICK i \in 1 .. (Len(ed.kids[Dep]) + 1) : Current = ed.tabs[i]
      BY <1>2 DEF InStep, Current
    <3>2. /\ ed.kids[Dep] \in Seq(Elements) /\ Len(ed.kids[Dep]) \in Nat
          /\ DOMAIN ed.kids[Dep] = 1 .. Len(ed.kids[Dep])
      BY <1>2, <1>3 DEF Editor
    <3>3. i # 1
      BY <1>2, <2>2, <3>1 DEF InStep
    <3>4. PICK j \in 1 .. Len(ed.kids[Dep]) : i = j + 1
      <4>1. i - 1 \in 1 .. Len(ed.kids[Dep]) /\ i = (i - 1) + 1
        BY <3>2, <3>3
      <4> QED
        BY <4>1
    <3>5. Current.shows = ed.kids[Dep][j]
      BY <1>2, <3>1, <3>4 DEF InStep
    <3> QED
      BY <1>4, <3>2, <3>5 DEF Range
  <2> HIDE DEF c
  <2> QED
    BY <1>3, <2>1, <2>3, <2>4, <2>5, PlainOne
<1>8. ASSUME NEW e \in Elements \cup {Dep}, Delete(e) PROVE OInv'
  <2> DEFINE c == [op |-> "delete", e |-> e, at |-> Nil]
  <2>1. c \in ProperCommand
    BY <1>3, CommandIs
  <2> QED
    BY <1>5, <1>8, <2>1 DEF Delete
<1>9. ASSUME NEW l \in Layouts, DeleteLayout(l) PROVE OInv'
  <2> DEFINE c == [op |-> "none", e |-> l, at |-> Dep]
  <2>1. c \in ProperCommand
    BY <1>3, CommandIs
  <2> QED
    BY <1>5, <1>9, <2>1 DEF DeleteLayout
<1>10. ASSUME NEW src \in Layouts, PasteLayout(src) PROVE OInv'
  <2> DEFINE n == Len(ed.kids[src])
             q == NewRegions(n)
             c == [op |-> "paste", e |-> NewLayout, at |-> Dep]
             s == [ed EXCEPT !.kids[NewLayout] = q]
  <2>1. /\ NewLayout \in Layouts \ made
        /\ made' = made \cup {NewLayout} \cup Range(q)
    BY <1>10 DEF PasteLayout, NewLayout
  <2>2. n \in 0 .. Cardinality(Regions \ made)
    <3>1. n \in Nat
      <4>1. ed.kids[src] \in Seq(Elements)
        BY <1>2, <1>3 DEF Editor
      <4> QED
        BY <4>1
    <3>2. Cardinality(Regions \ made) \in Nat
      BY ElementsAssumption, FS_Subset, FS_CardinalityType
    <3>3. Cardinality(Regions \ made) >= n
      BY <1>10 DEF PasteLayout
    <3> QED
      BY <3>1, <3>2, <3>3
  <2>3. c \in ProperCommand /\ c.op = "paste" /\ c.e = NewLayout /\ c.at = Dep
    BY <1>3, <2>1, CommandIs
  <2>4. Execute(s, c) /\ ~Throws(s, c)
    BY <1>10 DEF PasteLayout, Throws
  <2>5. q \in Seq(Regions) /\ IsInjective(q) /\ Range(q) \subseteq Regions \ made
    BY <2>2, NewRegionsNew
  <2> HIDE DEF q
  <2>6. /\ s \in Editor /\ InStep(s) /\ s.tabs = ed.tabs /\ s.closed = {}
    BY <1>2, <2>1, <2>5, CopyIs
  <2>7. s.up = ed.up
    OBVIOUS
  <2>8. Sound(ed, made) =>
            /\ Sound(s, made') /\ Alike(ed, s, made)
            /\ s.up[NewLayout] = Nil /\ ~Orphan(s, NewLayout)
    BY <1>2, <2>1, <2>5, CopySound
  <2> HIDE DEF c, s
  <2> QED
    BY <2>1, <2>3, <2>4, <2>6, <2>7, <2>8, ExecuteOne
<1>11. ASSUME NEW e \in Elements, NEW op \in {"up", "down"}, Move(e, op)
       PROVE  OInv'
  <2> DEFINE c == [op |-> op, e |-> e, at |-> Nil]
  <2>1. c \in ProperCommand /\ c.op \notin {"create", "paste"}
    BY <1>3, CommandIs
  <2>2. Execute(ed, c) /\ ~Throws(ed, c) /\ made' = made
    BY <1>11 DEF Move, Throws
  <2> HIDE DEF c
  <2> QED
    BY <2>1, <2>2, PlainOne
<1>12. ASSUME NEW src \in Regions, NEW l \in Layouts, PasteRegion(src, l)
       PROVE  OInv'
  <2> DEFINE c == [op |-> "paste", e |-> NewRegions(1)[1], at |-> l]
  <2>1. /\ NewRegions(1)[1] \in Regions \ made
        /\ made' = made \cup Range(NewRegions(1)) /\ NewRegions(1)[1] \in made'
    BY <1>12, OneNewIs DEF PasteRegion
  <2>2. c \in ProperCommand /\ c.op = "paste" /\ c.e = NewRegions(1)[1] /\ c.at = l
    BY <1>3, <2>1, CommandIs, DepIsNoLayout
  <2>3. Execute(ed, c) /\ ~Throws(ed, c) /\ (Sound(ed, made) => l \in made)
    BY <1>4, <1>12 DEF PasteRegion, Throws
  <2> HIDE DEF c
  <2> QED
    BY <1>3, <2>1, <2>2, <2>3, PlainOne
<1> QED
  BY <1>6, <1>7, <1>8, <1>9, <1>10, <1>11, <1>12

\* A finite set has its elements in its sequence.
LEMMA SetToSeqHas ==
    ASSUME NEW S, IsFiniteSet(S)
    PROVE  Range(SetToSeq(S)) = S
<1> DEFINE q == SetToSeq(S)
           n == Len(q)
<1>1. q \in Seq(S) /\ n = Cardinality(S) /\ n \in Nat /\ IsInjective(q)
  BY SetToSeqIs
<1>2. DOMAIN q = 1 .. n /\ q \in [1 .. n -> Range(q)] /\ Range(q) \subseteq S
  BY <1>1 DEF Range
<1> HIDE DEF q, n
<1>3. q \in Bijection(1 .. n, Range(q))
  BY <1>1, <1>2 DEF Bijection, Injection, Surjection, IsInjective, Range
<1>4. Cardinality(Range(q)) = n
  BY <1>1, <1>3, FS_CountingElements DEF ExistsBijection
<1> QED
  BY <1>1, <1>2, <1>4, FS_Subset DEF q

\* In the file each element is listed below its parent.
LEMMA OpenedSound ==
    ASSUME Init
    PROVE  Sound(ed, made)
<1>1. /\ Opened \in Seq(Layouts) /\ OpenedIn \in [Layouts -> SUBSET Regions]
      /\ \A l, m \in Layouts : l # m => OpenedIn[l] \cap OpenedIn[m] = {}
      /\ \A l \in Layouts \ Range(Opened) : OpenedIn[l] = {}
      /\ Layouts \cap Regions = {} /\ Dep \notin Layouts /\ Dep # Nil
      /\ Nil \notin Holders /\ Dep \in Holders /\ Layouts \subseteq Holders
      /\ \A h \in Holders : h = Dep \/ h \in Layouts
  BY OpenedAssumption, ElementsAssumption, NilIsNoHolder, DepIsNoLayout DEF Holders
<1>2. Range(Opened) \subseteq Layouts
  BY <1>1 DEF Range
<1>3. /\ Range(ed.kids[Dep]) = Range(Opened)
      /\ \A l \in Layouts : Range(ed.kids[l]) = OpenedIn[l]
  <2>1. ASSUME NEW l \in Layouts PROVE Range(ed.kids[l]) = OpenedIn[l]
    <3>1. ed.kids[l] = SetToSeq(OpenedIn[l])
      BY <1>1 DEF Init
    <3>2. IsFiniteSet(OpenedIn[l])
      BY <1>1, ElementsAssumption, FS_Subset
    <3> QED
      BY <3>1, <3>2, SetToSeqHas
  <2> QED
    BY <2>1, OpenedTree
<1>4. ASSUME NEW e \in Elements
      PROVE  ed.up[e] = IF e \in Range(Opened) THEN Dep
                        ELSE LET in == {l \in Range(Opened) : e \in OpenedIn[l]}
                             IN  IF in = {} THEN Nil ELSE CHOOSE l \in in : TRUE
  BY DEF Init
<1>5. made = Range(Opened) \cup UNION {OpenedIn[l] : l \in Range(Opened)}
  BY DEF Init
<1>6. ASSUME NEW e \in Elements, NEW h \in Holders, e \in Range(ed.kids[h])
      PROVE  ed.up[e] = h /\ e \in made
  <2>1. CASE h = Dep
    BY <1>3, <1>4, <1>5, <1>6, <2>1
  <2>2. CASE h \in Layouts
    <3> DEFINE in == {l \in Range(Opened) : e \in OpenedIn[l]}
    <3>1. e \in OpenedIn[h] /\ h \in Range(Opened)
      BY <1>1, <1>3, <1>6, <2>2
    <3>2. in = {h}
      BY <1>1, <1>2, <3>1
    <3>3. e \notin Range(Opened)
      BY <1>1, <1>2, <3>1, <2>2
    <3>4. ed.up[e] = h
      BY <1>4, <3>2, <3>3
    <3> QED
      BY <1>5, <3>1, <3>4
  <2> QED
    BY <1>1, <2>1, <2>2
<1>7. ASSUME NEW e \in Elements, ed.up[e] # Nil
      PROVE  ed.up[e] \in Holders /\ e \in Range(ed.kids[ed.up[e]])
  <2>1. CASE e \in Range(Opened)
    BY <1>1, <1>3, <1>4, <2>1
  <2>2. CASE e \notin Range(Opened)
    <3> DEFINE in == {l \in Range(Opened) : e \in OpenedIn[l]}
    <3>1. in # {} /\ ed.up[e] = CHOOSE l \in in : TRUE
      BY <1>4, <1>7, <2>2
    <3>2. ed.up[e] \in in
      BY <3>1
    <3> QED
      BY <1>1, <1>2, <1>3, <3>2
  <2> QED
    BY <2>1, <2>2
<1>8. \A l \in Layouts : l \notin made => \A e \in Elements : e \notin Range(ed.kids[l])
  BY <1>1, <1>3, <1>5
<1>9. \A e \in Elements : e \notin made =>
          ed.up[e] = Nil /\ \A h \in Holders : e \notin Range(ed.kids[h])
  BY <1>6, <1>7
<1>10. \A e \in Elements, h \in Holders : e \in Range(ed.kids[h]) => ed.up[e] = h
  BY <1>6
<1>11. \A e \in Elements : ed.up[e] # Nil => e \in Range(ed.kids[ed.up[e]])
  BY <1>7
<1> QED
  BY <1>1, <1>8, <1>9, <1>10, <1>11 DEF Sound

LEMMA InitOne ==
    ASSUME Init
    PROVE  OInv
<1>1. /\ ed \in Editor /\ InStep(ed) /\ Sound(ed, made) /\ ~failed
      /\ file = Content(ed) /\ lost = FALSE /\ worked = {}
  BY InitKeeps, OpenedSound DEF Init, EInv
<1>2. file = ContentBy(ed.up, ed)
  BY <1>1, ContentIs
<1>3. ASSUME NEW i \in 1 .. Len(ed.tabs)
      PROVE  ed.tabs[i].shows \in Holders /\ ed.tabs[i] = NewTab(ed.tabs[i].shows)
  <2>1. /\ Opened \in Seq(Layouts) /\ Len(Opened) \in Nat
        /\ \A j \in 1 .. Len(Opened) : Opened[j] \in Holders
    BY OpenedAssumption DEF Holders
  <2>2. CASE i = 1
    BY <2>2, OpenedTabs, NewTabTyped, DepIsNoLayout
  <2>3. CASE i # 1
    <3>1. PICK j \in 1 .. Len(Opened) : i = j + 1
      <4>1. i - 1 \in 1 .. Len(Opened) /\ i = (i - 1) + 1
        BY <2>1, <2>3, OpenedTabs
      <4> QED
        BY <4>1
    <3>2. ed.tabs[i] = NewTab(Opened[j]) /\ Opened[j] \in Holders
      BY <2>1, <3>1, OpenedTabs
    <3> QED
      BY <3>2, NewTabTyped
  <2> QED
    BY <2>2, <2>3
<1>4. ASSUME NEW h \in Holders PROVE Traced(NewTab(h), ed, made, lost, file)
  BY <1>1, <1>2, NewTraced
<1>5. ASSUME NEW h \in Holders PROVE OneTab(h)
  <2>1. ASSUME NEW i \in 1 .. Len(ed.tabs)
        PROVE  IF ed.tabs[i].shows = h THEN Traced(ed.tabs[i], ed, made, lost, file)
               ELSE ed.tabs[i] = NewTab(ed.tabs[i].shows)
    BY <1>3, <1>4, Zenon
  <2> QED
    BY <1>1, <2>1 DEF OneTab
<1> QED
  BY <1>1, <1>5 DEF OInv

LEMMA AlwaysOne == Spec => []OInv
<1>1. Init => OInv
  BY InitOne
<1>2. EInv /\ OInv /\ [Next]_vars => OInv'
  <2> SUFFICES ASSUME EInv, OInv, [Next]_vars PROVE OInv'
    OBVIOUS
  <2>1. CASE Undo
    BY <2>1, UndoOne
  <2>2. CASE Redo
    BY <2>2, RedoOne
  <2>3. CASE Save
    BY <2>3, SaveOne
  <2>4. CASE \E i \in 1 .. (Cardinality(Layouts) + 1) : SelectTab(i)
    BY <2>4, SelectOne
  <2>5. CASE UNCHANGED vars
    <3>1. /\ ed' = ed /\ file' = file /\ made' = made /\ worked' = worked
          /\ lost' = lost /\ failed' = failed
      BY <2>5 DEF vars
    <3> QED
      BY <3>1, Zenon DEF OInv, OneTab
  <2> QED
    BY <2>1, <2>2, <2>3, <2>4, <2>5, UserOne DEF Next
<1> QED
  BY <1>1, <1>2, Always, PTL DEF Spec

\* One tab, or none yet: then the deployment's will do.
LEMMA WorkedIs ==
    ASSUME OInv, Cardinality(worked) <= 1
    PROVE  \E h \in Holders : /\ worked \subseteq {h} /\ OneTab(h)
                              /\ h \in worked \/ h = Dep
<1>1. worked \subseteq Holders /\ IsFiniteSet(Holders) /\ Dep \in Holders
  BY ElementsAssumption, DepIsNoLayout, FS_AddElement, FS_Union, FS_Singleton
     DEF OInv, Holders
<1>2. IsFiniteSet(worked) /\ Cardinality(worked) \in Nat
  BY <1>1, FS_Subset, FS_CardinalityType
<1>3. CASE Cardinality(worked) = 0
  <2>1. worked = {}
    BY <1>2, <1>3, FS_EmptySet
  <2> QED
    BY <1>1, <2>1 DEF OInv
<1>4. CASE Cardinality(worked) = 1
  <2>1. PICK h : worked = {h}
    BY <1>2, <1>4, FS_Singleton
  <2> QED
    BY <1>1, <2>1 DEF OInv
<1> QED
  BY <1>2, <1>3, <1>4

-----------------------------------------------------------------------------

\* Undo and redo on one tab never list an element twice nor lose one that has a
\* parent (Layout and Deployment add and removeChild, as the commands of the
\* designer call them), for any layouts, regions and number of commands.
THEOREM ListedOnceCorrect == Spec => []ListedOnce
<1>1. EInv /\ OInv => ListedOnce
  <2> SUFFICES ASSUME EInv, OInv, Cardinality(worked) <= 1
               PROVE  /\ \A e \in Elements :
                          /\ \A p, q \in Holders :
                              e \in Range(ed.kids[p]) \cap Range(ed.kids[q]) => p = q
                          /\ ed.up[e] # Nil => e \in Range(ed.kids[ed.up[e]])
                      /\ \A p \in Holders : IsInjective(ed.kids[p])
    BY DEF ListedOnce
  <2>1. Sound(ed, made) /\ InStep(ed)
    BY WorkedIs DEF OneTab, EInv
  <2>2. \A p \in Holders : IsInjective(ed.kids[p])
    BY <2>1 DEF InStep
  <2> QED
    BY <2>1, <2>2 DEF Sound
<1> QED
  BY <1>1, Always, AlwaysOne, PTL

\* An editor that has nothing to save shows what was saved last
\* (DeploymentEditor.isDirty and doSave): as long as the user stays on one tab,
\* undo and redo lead through the very trees that led to the marked one.
THEOREM CleanCorrect == Spec => []CleanIsSaved
<1>1. EInv /\ OInv => CleanIsSaved
  <2> SUFFICES ASSUME EInv, OInv, ~dirty, ~lost, Cardinality(worked) <= 1
               PROVE  file = Content(ed)
    BY DEF CleanIsSaved
  <2>1. PICK h \in Holders : OneTab(h) /\ (h \in worked \/ h = Dep)
    BY WorkedIs
  <2>2. ed \in Editor /\ InStep(ed) /\ ~Shown(ed) /\ Sound(ed, made)
    BY <2>1 DEF EInv, OneTab
  <2>3. ed.tabs \in Seq(ProperTab) /\ Len(ed.kids[Dep]) \in Nat
        /\ Len(ed.tabs) = Len(ed.kids[Dep]) + 1
    BY <2>2, DepIsNoLayout DEF Editor, InStep
  <2>4. PICK i \in 1 .. Len(ed.tabs) : ed.tabs[i].shows = h
    <3>1. CASE h \in worked
      BY <2>1, <3>1 DEF OneTab
    <3>2. CASE h = Dep
      <4>1. 1 \in 1 .. Len(ed.tabs) /\ ed.tabs[1].shows = Dep
        BY <2>2, <2>3 DEF InStep
      <4> QED
        BY <3>2, <4>1
    <3> QED
      BY <2>1, <3>1, <3>2
  <2> DEFINE tab == ed.tabs[i]
             n == Len(tab.undo)
  <2>5. Traced(tab, ed, made, lost, file) /\ tab \in ProperTab
    BY <2>1, <2>3, <2>4 DEF OneTab
  <2>6. tab.saved = n
    BY <2>2, <2>3 DEF Shown, IsDirty
  <2> HIDE DEF tab
  <2>7. n \in Nat /\ Len(tab.redo) \in Nat
    BY <2>5, ProperTabIs
  <2> HIDE DEF n
  <2>8. PICK T \in [Nat -> Ups], C \in [Nat -> ProperCommand] :
            Trace(tab, ed.up, T, C) /\ Kept(tab, T, ed, file)
    BY <2>5, Zenon DEF Traced
  <2>9. T[n] = ed.up
    BY <2>8 DEF Trace, n
  <2>10. n \in 0 .. (n + Len(tab.redo))
    BY <2>7
  <2>11. file = ContentBy(T[n], ed)
    BY <2>6, <2>8, <2>10 DEF Kept, n
  <2> QED
    BY <2>2, <2>9, <2>11, ContentIs
<1> QED
  BY <1>1, Always, AlwaysOne, PTL

=============================================================================
