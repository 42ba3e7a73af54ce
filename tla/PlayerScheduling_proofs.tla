----------------------- MODULE PlayerScheduling_proofs -----------------------
(***************************************************************************)
(* What the player shows keeps its types, the monitor thread never hands   *)
(* over a deployment with resources to come or an older one, a layout ends *)
(* for a cause and each plain one has its turn, for any deployments,       *)
(* layouts, loads and triggers.                                            *)
(***************************************************************************)
EXTENDS PlayerScheduling, WellFoundedInduction, TLAPS

-----------------------------------------------------------------------------
(* Type correctness.  The player thread only goes through the layouts of a *)
(* deployment it was handed.                                               *)

HasLayouts ==
    /\ completeDeployment => contents \in Deployments
    /\ player = "switching" => contents \in Deployments
    /\ player \in {"between", "picking", "watching", "looking", "spinning"} =>
           layouts \in Deployments
    /\ monitor = "count" => chosen \in Deployments

TInv == TypeOK /\ HasLayouts

LEMMA TInitially == Init => TInv
<1> SUFFICES ASSUME Init PROVE TInv
  OBVIOUS
<1>1. HasLayouts
  BY ConstantsOK DEF Init, HasLayouts
<1>2. loaded \in Seq(Deployments)
  BY DEF Init
<1>3. ~(layouts \in Deployments)
  BY ConstantsOK DEF Init
<1>4. /\ completeDeployment \in BOOLEAN /\ completeLayout \in BOOLEAN
      /\ stopRunning \in BOOLEAN /\ elapsed \in BOOLEAN
  BY Zenon DEF Init
<1>5. TypeOK
  BY <1>2, <1>3, <1>4 DEF Init, TypeOK
<1> QED
  BY <1>1, <1>5 DEF TInv

\* The layouts in a deployment are layouts, and the index stays inside.
LEMMA PlainIsLayout ==
  ASSUME NEW d \in Deployments, NEW i \in Plain(d)
  PROVE  /\ Contents[d][i] \in Layouts
         /\ Contents[d] # <<>>
         /\ After(d, i) \in DOMAIN Contents[d]
         /\ After(d, i) \in Nat \ {0}
<1>1. Contents[d] \in Seq(Layouts)
  BY ConstantsOK
<1>2. i \in 1..Len(Contents[d]) /\ Len(Contents[d]) \in Nat
  BY <1>1 DEF Plain
<1> QED
  BY <1>1, <1>2 DEF After

\* What the retriever does to the tables: it loads one more deployment, or rows
\* of PENDING go.
LEMMA RetrieverMoves ==
  ASSUME Retriever
  PROVE  /\ Elsewhere
         /\ failed \subseteq failed'
         /\ failed' \subseteq failed \cup Deployments \cup IsLoaded
         /\ \/ \E d \in Deployments : /\ loaded' = Append(loaded, d)
                                      /\ \A i \in DOMAIN loaded : loaded[i] # d
                                      /\ pending' \subseteq pending \cup {d}
            \/ loaded' = loaded /\ pending' \subseteq pending
<1>1. ASSUME NEW d \in Deployments, Load(d)
      PROVE  /\ Elsewhere
             /\ failed \subseteq failed' /\ failed' \subseteq failed \cup {d}
             /\ loaded' = Append(loaded, d)
             /\ \A i \in DOMAIN loaded : loaded[i] # d
             /\ pending' \subseteq pending \cup {d}
  BY <1>1 DEF Load, Tables!Load, IsLoaded
<1>2. ASSUME NEW d \in Deployments, LastResource(d)
      PROVE  Elsewhere /\ loaded' = loaded /\ failed' = failed /\ pending' \subseteq pending
  BY <1>2 DEF LastResource, Tables!LastResource
<1>3. ASSUME NEW D \in SUBSET (IsLoaded \ failed), GiveUp(D)
      PROVE  /\ Elsewhere /\ loaded' = loaded
             /\ failed' = failed \cup D /\ pending' \subseteq pending
  BY <1>3 DEF GiveUp, Tables!GiveUp
<1> QED
  BY <1>1, <1>2, <1>3 DEF Retriever

LEMMA TStep == TInv /\ [Next]_vars => TInv'
<1> SUFFICES ASSUME TInv, [Next]_vars
             PROVE  TInv'
  OBVIOUS
<1> USE DEF TInv
<1>1. CASE Retriever
  <2>1. IsLoaded \subseteq Deployments
    BY DEF TypeOK, IsLoaded
  <2>2. loaded' \in Seq(Deployments) /\ pending' \subseteq Deployments
            /\ failed' \subseteq Deployments
    BY <1>1, <2>1, RetrieverMoves DEF TypeOK
  <2>3. Elsewhere
    BY <1>1, RetrieverMoves
  <2> QED
    BY <2>2, <2>3 DEF Elsewhere, TypeOK, HasLayouts, scheduler,
                monitoring, flags, playing, shown
<1>2. CASE Query
  BY <1>2 DEF Query, TypeOK, HasLayouts, tables, scheduler, flags, playing, shown
<1>3. CASE Count
  BY <1>3 DEF Count, TypeOK, HasLayouts, tables, scheduler, flags, playing, shown
<1>4. CASE Schedule
  <2>1. chosen \in Deployments /\ Contents[chosen] \in Seq(Layouts)
    BY <1>4, ConstantsOK DEF Schedule, TypeOK
  <2>2. Contents[chosen][scheduled + 1] \in Layouts
    BY <1>4, <2>1 DEF Schedule, TypeOK
  <2> QED
    BY <1>4, <2>1, <2>2 DEF Schedule, TypeOK, HasLayouts, tables, flags, playing,
                            shown
<1>5. CASE HandOver
  BY <1>5 DEF HandOver, TypeOK, HasLayouts, tables, scheduler, playing, shown
<1>6. CASE ReadLayout
  BY <1>6 DEF ReadLayout, TypeOK, HasLayouts, tables, scheduler, flags, playing, shown
<1>7. CASE ReadStart
  BY <1>7 DEF ReadStart, TypeOK, HasLayouts, tables, scheduler, flags, playing, shown
<1>8. CASE Expire
  BY <1>8 DEF Expire, TypeOK, HasLayouts, tables, scheduler, playing, shown
<1>9. ASSUME NEW l \in Layouts, Fire(l) PROVE TInv'
  BY <1>9 DEF Fire, TypeOK, HasLayouts, tables, monitoring, playing
<1>10. CASE Playback
  BY <1>10 DEF Playback, Completes, TypeOK, HasLayouts, tables, scheduler,
               monitoring, flags, playing
<1>11. CASE Tick
  BY <1>11 DEF Tick, TypeOK, HasLayouts, tables, scheduler, monitoring, flags, playing
<1>12. CASE StopPlaying
  BY <1>12 DEF StopPlaying, TypeOK, HasLayouts, tables, scheduler, monitoring,
               flags, playing, shown
<1>13. CASE IsDeploymentComplete
  <2>1. completeDeployment' \in BOOLEAN /\ completeLayout' \in BOOLEAN
    BY <1>13, Zenon DEF IsDeploymentComplete, TypeOK
  <2> QED
    BY <1>13, <2>1 DEF IsDeploymentComplete, TypeOK, HasLayouts, tables, scheduler,
                 monitoring, shown
<1>14. CASE TakeLayouts
  <2>1. contents \in Deployments /\ Contents[contents] \in Seq(Layouts)
    BY <1>14, ConstantsOK DEF TakeLayouts, HasLayouts
  <2>2. Contents[contents] # <<>> => 1 \in DOMAIN Contents[contents]
    BY <2>1
  <2> QED
    BY <1>14, <2>1, <2>2 DEF TakeLayouts, TypeOK, HasLayouts, tables, scheduler,
                             monitoring, flags, shown
<1>15. CASE PickFired
  <2>1. elapsed' \in BOOLEAN
    BY <1>15, Zenon DEF PickFired, Showing
  <2> QED
    BY <1>15, <2>1 DEF PickFired, Showing, AfterLayout, TypeOK, HasLayouts,
                       tables, scheduler, monitoring
<1>16. CASE PickPlain
  <2> PICK i \in Plain(layouts) : /\ Showing(Contents[layouts][i])
                                  /\ layoutsIndex' = After(layouts, i)
    BY <1>16 DEF PickPlain
  <2>1. layouts \in Deployments
    BY <1>16 DEF PickPlain, HasLayouts
  <2>2. /\ Contents[layouts][i] \in Layouts
        /\ layoutsIndex' \in DOMAIN Contents[layouts]
        /\ layoutsIndex' \in Nat \ {0}
    BY <2>1, PlainIsLayout
  <2>3. called' \in 0..2
    BY DEF Showing, TypeOK
  <2>4. player' \in {"ended", "between", "watching"}
    BY DEF Showing, AfterLayout
  <2>5. /\ currentLayout' \in Layouts \cup {NoLayout}
        /\ elapsed' \in BOOLEAN /\ completed' \subseteq Caring
    BY <2>2 DEF Showing
  <2> QED
    BY <1>16, <2>1, <2>2, <2>3, <2>4, <2>5 DEF PickPlain, TypeOK, HasLayouts,
                             tables, scheduler, monitoring, flags
<1>17. CASE PickNothing
  BY <1>17 DEF PickNothing, TypeOK, HasLayouts, tables, scheduler, monitoring,
               flags, shown
<1>18. CASE Watch
  <2>1. completeLayout' \in BOOLEAN
    BY <1>18, Zenon DEF Watch
  <2> QED
    BY <1>18, <2>1 DEF Watch, AfterLayout, TypeOK, HasLayouts, tables,
                       scheduler, monitoring, shown
<1>19. CASE Look
  BY <1>19 DEF Look, AfterLayout, TypeOK, HasLayouts, tables, scheduler,
               monitoring, flags, shown
<1>20. CASE UNCHANGED vars
  BY <1>20 DEF vars, TypeOK, HasLayouts, tables, scheduler, monitoring, flags,
               playing, shown
<1> QED
  BY <1>1, <1>2, <1>3, <1>4, <1>5, <1>6, <1>7, <1>8, <1>9, <1>10, <1>11, <1>12,
     <1>13, <1>14, <1>15, <1>16, <1>17, <1>18, <1>19, <1>20
     DEF Next, Monitor, PlayerThread

\* Every variable of the player and its monitor has its type, for any
\* deployments and layouts: no index leaves its list.
THEOREM TypeCorrect == Spec => []TypeOK
<1>1. TInv => TypeOK
  BY DEF TInv
<1> QED
  BY TInitially, TStep, <1>1, PTL DEF Spec

-----------------------------------------------------------------------------
(* What the monitor thread goes by.  A row of PENDING is only entered with *)
(* the descriptor of its deployment, so once a deployment is loaded and    *)
(* has no such rows it never has any.                                      *)

NoRowsAgain ==
    /\ monitor \in {"count", "schedule"} =>
           \E i \in DOMAIN loaded : loaded[i] = chosen
    /\ monitor = "schedule" => chosen \notin pending

LEMMA NoRowsInitially == Init => NoRowsAgain
  BY DEF Init, NoRowsAgain

LEMMA NoRowsStep == TypeOK /\ NoRowsAgain /\ [Next]_vars => NoRowsAgain'
<1> SUFFICES ASSUME TypeOK, NoRowsAgain, [Next]_vars
             PROVE  NoRowsAgain'
  OBVIOUS
<1>1. ASSUME NEW d \in Deployments, loaded' = Append(loaded, d),
             \A i \in DOMAIN loaded : loaded[i] # d,
             pending' \subseteq pending \cup {d}, Elsewhere
      PROVE  NoRowsAgain'
  <2>1. UNCHANGED <<monitor, chosen>>
    BY <1>1 DEF Elsewhere, monitoring
  <2>2. ASSUME NEW i \in DOMAIN loaded
        PROVE  i \in DOMAIN loaded' /\ loaded'[i] = loaded[i]
    BY <1>1 DEF TypeOK
  <2> QED
    BY <1>1, <2>1, <2>2 DEF NoRowsAgain
<1>2. CASE Retriever
  <2>1. ASSUME loaded' = loaded, pending' \subseteq pending, Elsewhere
        PROVE  NoRowsAgain'
    BY <2>1 DEF Elsewhere, NoRowsAgain, monitoring
  <2> QED
    BY <1>1, <1>2, <2>1, RetrieverMoves
<1>3. CASE Query
  BY <1>3 DEF Query, IsLatest, Valid, NoRowsAgain, tables
<1>4. CASE Count
  BY <1>4 DEF Count, Incomplete, NoRowsAgain, tables
<1>5. CASE Schedule
  BY <1>5 DEF Schedule, NoRowsAgain, tables
<1>6. CASE HandOver \/ ReadLayout \/ ReadStart \/ Expire
  BY <1>6 DEF HandOver, ReadLayout, ReadStart, Expire, NoRowsAgain, tables
<1>7. CASE UNCHANGED <<tables, monitoring>>
  BY <1>7 DEF NoRowsAgain, tables, monitoring
<1>8. PlayerThread \/ Tick \/ StopPlaying => UNCHANGED <<tables, monitoring>>
  BY DEF PlayerThread, IsDeploymentComplete, TakeLayouts, PickFired, PickPlain,
         PickNothing, Watch, Look, Tick, StopPlaying
<1>9. ASSUME NEW l \in Layouts, Fire(l) PROVE UNCHANGED <<tables, monitoring>>
  BY <1>9 DEF Fire
<1>10. Playback => UNCHANGED <<tables, monitoring>>
  BY DEF Playback, Completes
<1>11. UNCHANGED vars => UNCHANGED <<tables, monitoring>>
  BY DEF vars
<1> QED
  BY <1>1, <1>2, <1>3, <1>4, <1>5, <1>6, <1>7, <1>8, <1>9, <1>10, <1>11
     DEF Next, Monitor

\* Whatever the retriever does between the two queries of the monitor thread
\* and after them, no deployment is handed to the player with resources to
\* come (monitorDeployments).
THEOREM CompleteCorrect == Spec => NothingPending
<1>1. NoRowsAgain => (HandingOver => chosen \notin pending)
  BY DEF NoRowsAgain, HandingOver
<1> QED
  BY TInitially, TStep, NoRowsInitially, NoRowsStep, <1>1, PTL
     DEF Spec, NothingPending, TInv

-----------------------------------------------------------------------------
(* Newer deployments only.  lastDeploymentID is set with the contents of   *)
(* the player, so what the first query finds is not what the player has;   *)
(* what the player has is older, or has failed.                            *)

Loaded(d) == \E i \in DOMAIN loaded : loaded[i] = d

\* d was loaded after e.
LoadedAfter(d, e) ==
    \A i, j \in DOMAIN loaded : loaded[i] = d /\ loaded[j] = e => i > j

Newer ==
    /\ \A i, j \in DOMAIN loaded : loaded[i] = loaded[j] => i = j
    /\ contents = lastDeployment
    /\ contents # NoDeployment => Loaded(contents)
    /\ monitor \in {"count", "schedule"} =>
           /\ Loaded(chosen)
           /\ contents # NoDeployment =>
                  LoadedAfter(chosen, contents) \/ contents \in failed

LEMMA NewerInitially == Init => Newer
BY DEF Init, Newer

LEMMA NewerStep == TypeOK /\ Newer /\ [Next]_vars => Newer'
<1> SUFFICES ASSUME TypeOK, Newer, [Next]_vars
             PROVE  Newer'
  OBVIOUS
<1>1. ASSUME NEW d \in Deployments, loaded' = Append(loaded, d),
             \A i \in DOMAIN loaded : loaded[i] # d,
             failed \subseteq failed', Elsewhere
      PROVE  Newer'
  <2>1. /\ loaded' = Append(loaded, d)
        /\ \A i \in DOMAIN loaded : loaded[i] # d
        /\ UNCHANGED <<monitor, chosen, contents, lastDeployment>>
    BY <1>1 DEF Elsewhere, monitoring
  <2>2. \A i \in DOMAIN loaded : i \in DOMAIN loaded' /\ loaded'[i] = loaded[i]
    BY <2>1 DEF TypeOK
  <2>3. \A i \in DOMAIN loaded' : loaded'[i] # d => i \in DOMAIN loaded /\ loaded'[i] = loaded[i]
    BY <2>1 DEF TypeOK
  <2>4. \A i, j \in DOMAIN loaded' : loaded'[i] = loaded'[j] => i = j
    <3>1. \A i \in DOMAIN loaded' : loaded'[i] = d => i = Len(loaded) + 1
      BY <2>1 DEF TypeOK
    <3> QED
      BY <2>3, <3>1 DEF Newer
  <2>5. \A e : Loaded(e) => Loaded(e)' /\ e # d
    BY <2>1, <2>2 DEF Loaded
  <2>6. \A e, f : e # d /\ f # d /\ LoadedAfter(e, f) => LoadedAfter(e, f)'
    BY <2>3 DEF LoadedAfter
  <2> QED
    BY <1>1, <2>1, <2>4, <2>5, <2>6 DEF Newer
<1>2. CASE Retriever
  <2>1. ASSUME loaded' = loaded, failed \subseteq failed', Elsewhere
        PROVE  Newer'
    BY <2>1 DEF Elsewhere, Newer, Loaded, LoadedAfter, monitoring
  <2> QED
    BY <1>1, <1>2, <2>1, RetrieverMoves
<1>3. CASE Query
  <2>1. UNCHANGED <<loaded, failed, contents, lastDeployment>>
    BY <1>3 DEF Query, tables
  <2>2. CASE monitor' = "count"
    <3>1. PICK d \in Deployments : IsLatest(d) /\ IsNew(d) /\ chosen' = d
      BY <1>3, <2>2 DEF Query
    <3>2. PICK i \in Valid : loaded[i] = d /\ \A j \in Valid : j <= i
      BY <3>1 DEF IsLatest
    <3>3. i \in DOMAIN loaded /\ DOMAIN loaded \subseteq Nat
      BY <3>2 DEF Valid, TypeOK
    <3>4. Loaded(d)
      BY <3>2, <3>3 DEF Loaded
    <3>5. contents # d
      BY <3>1 DEF IsNew, Newer
    <3>6. ASSUME contents \notin failed PROVE LoadedAfter(d, contents)
      <4> SUFFICES ASSUME NEW k \in DOMAIN loaded, NEW j \in DOMAIN loaded,
                          loaded[k] = d, loaded[j] = contents
                   PROVE  k > j
        BY DEF LoadedAfter
      <4>1. k = i
        BY <3>2, <3>3 DEF Newer
      <4>2. j \in Valid /\ j # i
        BY <3>2, <3>5, <3>6 DEF Valid
      <4> QED
        BY <3>2, <3>3, <4>1, <4>2
    <3> QED
      BY <2>1, <2>2, <3>1, <3>4, <3>6 DEF Newer, Loaded, LoadedAfter
  <2>3. CASE monitor' = "expiry"
    BY <2>1, <2>3 DEF Newer, Loaded, LoadedAfter
  <2> QED
    BY <1>3, <2>2, <2>3 DEF Query
<1>4. CASE Count \/ Schedule
  <2>1. /\ UNCHANGED <<loaded, failed, contents, lastDeployment>>
        /\ monitor \in {"count", "schedule"}
        /\ monitor' = "expiry" \/ (monitor' = "schedule" /\ chosen' = chosen)
    BY <1>4 DEF Count, Schedule, tables
  <2> QED
    BY <2>1 DEF Newer, Loaded, LoadedAfter
<1>5. CASE HandOver
  BY <1>5 DEF HandOver, Newer, Loaded, LoadedAfter, tables
<1>6. CASE ReadLayout \/ ReadStart \/ Expire
  <2>1. /\ UNCHANGED <<loaded, failed, contents, lastDeployment>>
        /\ monitor' \notin {"count", "schedule"}
    BY <1>6 DEF ReadLayout, ReadStart, Expire, tables
  <2> QED
    BY <2>1 DEF Newer, Loaded, LoadedAfter
<1>7. CASE UNCHANGED <<tables, monitoring, contents>>
  BY <1>7 DEF Newer, Loaded, LoadedAfter, tables, monitoring
<1>8. PlayerThread \/ Tick \/ StopPlaying => UNCHANGED <<tables, monitoring, contents>>
  BY DEF PlayerThread, IsDeploymentComplete, TakeLayouts, PickFired, PickPlain,
         PickNothing, Watch, Look, Tick, StopPlaying
<1>9. ASSUME NEW l \in Layouts, Fire(l) PROVE UNCHANGED <<tables, monitoring, contents>>
  BY <1>9 DEF Fire
<1>10. Playback => UNCHANGED <<tables, monitoring, contents>>
  BY DEF Playback, Completes
<1>11. UNCHANGED vars => UNCHANGED <<tables, monitoring, contents>>
  BY DEF vars
<1> QED
  BY <1>1, <1>2, <1>3, <1>4, <1>5, <1>6, <1>7, <1>8, <1>9, <1>10, <1>11
     DEF Next, Monitor

\* The player is never handed a deployment older than the one it has, unless
\* that one has failed, however the loads fall between the queries
\* (monitorDeployments, startDeployment).
THEOREM NeverBackCorrect == Spec => NeverBack
<1>1. TypeOK /\ Newer => (HandingOver => \/ Place(chosen) > Place(contents)
                                         \/ contents \in failed)
  <2> SUFFICES ASSUME TypeOK, Newer, HandingOver, contents \notin failed
               PROVE  Place(chosen) > Place(contents)
    OBVIOUS
  <2>1. Loaded(chosen) /\ Loaded(contents) /\ LoadedAfter(chosen, contents)
    BY DEF HandingOver, Newer
  <2>2. \A d : Loaded(d) => Place(d) \in DOMAIN loaded /\ loaded[Place(d)] = d
    BY DEF Loaded, Place
  <2> QED
    BY <2>1, <2>2 DEF LoadedAfter
<1> QED
  BY TInitially, TStep, NewerInitially, NewerStep, <1>1, PTL DEF Spec, NeverBack, TInv

-----------------------------------------------------------------------------
(* Layouts end for a cause.  The flag that ends a layout is cleared by the *)
(* loop that looks at it, so at most one layout starts with it set.        *)

CalledFor ==
    completeLayout =>
        \/ completeDeployment
        \/ called = 2
        \/ called = 1 /\ player = "watching"

LEMMA CalledForStep == TypeOK /\ CalledFor /\ [Next]_vars => CalledFor'
<1> SUFFICES ASSUME TypeOK, CalledFor, [Next]_vars, completeLayout'
             PROVE  \/ completeDeployment'
                    \/ called' = 2
                    \/ called' = 1 /\ player' = "watching"
  BY DEF CalledFor
<1>1. CASE Retriever \/ Tick \/ StopPlaying \/ Playback \/ UNCHANGED vars
  BY <1>1, RetrieverMoves DEF Elsewhere, Tick, StopPlaying, Playback,
     Completes, vars, flags, shown, playing, CalledFor
<1>2. CASE Monitor
  BY <1>2 DEF Monitor, Query, Count, Schedule, HandOver, ReadLayout, ReadStart, Expire,
     flags, shown, playing, CalledFor
<1>3. CASE \E l \in Layouts : Fire(l)
  BY <1>3 DEF Fire
<1>4. CASE PickFired \/ PickPlain
  <2>1. PICK l : Showing(l)
    BY <1>4 DEF PickFired, PickPlain
  <2>2. UNCHANGED <<completeDeployment, completeLayout>> /\ player = "picking"
    BY <1>4 DEF PickFired, PickPlain, flags
  <2> QED
    BY <2>1, <2>2 DEF Showing, CalledFor
<1>5. CASE IsDeploymentComplete \/ TakeLayouts \/ PickNothing \/ Watch \/ Look
  BY <1>5 DEF IsDeploymentComplete, TakeLayouts, PickNothing, Watch, Look, flags, shown,
     CalledFor
<1> QED
  BY <1>1, <1>2, <1>3, <1>4, <1>5 DEF Next, PlayerThread

\* A layout leaves the screen for a cause, and an end asked for too late takes
\* at most the next layout with it, for any layouts, triggers and deployments
\* (runSingleLayout, isLayoutComplete).
THEOREM EndsForCauseCorrect == Spec => EndsForCause
<1> DEFINE Cause == \/ currentLayout \in Timed /\ elapsed
                    \/ completed # {}
                    \/ completeDeployment \/ stopRunning
                    \/ called # 0
<1>1. ASSUME CalledFor, [Next]_vars, player \in {"watching", "looking"},
             player' \in {"between", "ended"}
      PROVE  Cause
  <2>1. Watch \/ Look
    BY <1>1, RetrieverMoves DEF Next, vars, Elsewhere, Monitor, Query, Count,
       Schedule, HandOver, ReadLayout, ReadStart, Expire, Fire, Playback, Completes, Tick,
       StopPlaying, PlayerThread, IsDeploymentComplete, TakeLayouts, PickFired, PickPlain,
       PickNothing, playing
  <2>2. CASE Watch
    BY <1>1, <2>2 DEF Watch, CalledFor
  <2>3. CASE Look
    BY <1>1, <2>3 DEF Look, LayoutComplete, ContainerComplete
  <2> QED
    BY <2>1, <2>2, <2>3
<1>2. Init => CalledFor
  BY DEF Init, CalledFor
<1>3. CalledFor /\ [Next]_vars =>
          (player \in {"watching", "looking"} /\ player' \in {"between", "ended"} => Cause)
  BY <1>1
<1> QED
  BY TInitially, TStep, CalledForStep, <1>2, <1>3, PTL DEF Spec, EndsForCause, TInv

-----------------------------------------------------------------------------
(* Whose turn it is.  The loop that looks for the next plain layout stops  *)
(* at one place of the list and no other, if there is such a layout.       *)

LEMMA Smallest ==
  ASSUME NEW T \in SUBSET Nat, T # {}
  PROVE  \E m \in T : \A n \in T : m <= n
<1>1. PICK m \in T : \A n \in T : ~(<<n, m>> \in OpToRel(<, Nat))
  BY NatLessThanWellFounded, WFMin
<1>2. \A n \in T : ~(n < m)
  BY <1>1 DEF OpToRel
<1> QED
  BY <1>2

LEMMA FollowsOnce ==
  ASSUME NEW d \in Deployments, NEW i \in Nat, Plain(d) # {}
  PROVE  \E k : Follows(d, i, k) /\ \A j : Follows(d, i, j) => j = k
<1>1. Plain(d) \subseteq Nat
  BY ConstantsOK DEF Plain
<1> DEFINE Ahead == {k \in Plain(d) : k >= i}
<1>2. CASE Ahead # {}
  <2>1. PICK k \in Ahead : \A n \in Ahead : k <= n
    BY <1>1, <1>2, Smallest
  <2>2. Follows(d, i, k)
    BY <1>1, <2>1 DEF Follows
  <2>3. ASSUME NEW j, Follows(d, i, j)
        PROVE  j = k
    BY <1>1, <2>1, <2>3 DEF Follows
  <2> QED
    BY <2>2, <2>3
<1>3. CASE Ahead = {}
  <2>1. PICK k \in Plain(d) : \A n \in Plain(d) : k <= n
    BY <1>1, Smallest
  <2>2. \A n \in Plain(d) : n < i
    BY <1>1, <1>3
  <2>3. Follows(d, i, k)
    BY <1>1, <2>1, <2>2 DEF Follows
  <2>4. ASSUME NEW j, Follows(d, i, j)
        PROVE  j = k
    BY <1>1, <2>1, <2>2, <2>4 DEF Follows
  <2> QED
    BY <2>3, <2>4
<1> QED
  BY <1>2, <1>3


LEMMA Largest ==
  ASSUME NEW n \in Nat, NEW T \in SUBSET (0..n), T # {}
  PROVE  \E m \in T : \A j \in T : j <= m
<1> DEFINE U == {n - j : j \in T}
<1>1. U \in SUBSET Nat /\ U # {}
  <2>1. \A j \in T : n - j \in Nat
    OBVIOUS
  <2> QED
    BY <2>1
<1>2. PICK u \in U : \A v \in U : u <= v
  BY <1>1, Smallest
<1>3. PICK m \in T : u = n - m
  OBVIOUS
<1>4. ASSUME NEW j \in T PROVE j <= m
  <2>1. n - j \in U /\ j \in Nat /\ m \in Nat
    OBVIOUS
  <2>2. n - m <= n - j
    BY <1>2, <1>3, <2>1
  <2> QED
    BY <2>1, <2>2
<1> QED
  BY <1>4

\* Whenever the player thread looks
\* for a plain layout, there is one that is next, and only one: the loop ends, and
\* PickPlain is what it does (Player.run).
THEOREM OneIsNext ==
  Spec => [](player = "picking" /\ Plain(layouts) # {} =>
                \E k : /\ Follows(layouts, layoutsIndex, k)
                       /\ \A j : Follows(layouts, layoutsIndex, j) => j = k)
<1> DEFINE Unique == player = "picking" /\ Plain(layouts) # {} =>
                \E k : /\ Follows(layouts, layoutsIndex, k)
                       /\ \A j : Follows(layouts, layoutsIndex, j) => j = k
<1>1. TInv => Unique
  <2> SUFFICES ASSUME TInv, player = "picking", Plain(layouts) # {}
               PROVE  Unique
    OBVIOUS
  <2>1. layouts \in Deployments /\ layoutsIndex \in Nat
    BY DEF TInv, TypeOK, HasLayouts
  <2> QED
    BY <2>1, FollowsOnce
<1> QED
  BY TInitially, TStep, <1>1, PTL DEF Spec

\* Whoever has a turn is followed by another until all have had theirs: layouts
\* among which the turn stays are all the plain ones.  What EveryLayoutPlays
\* rests on.
THEOREM AllHaveTheirTurn ==
  ASSUME NEW d \in Deployments, NEW T \in SUBSET Plain(d), T # {},
         \A i \in T : \A k : Follows(d, After(d, i), k) => k \in T
  PROVE  T = Plain(d)
<1> DEFINE n == Len(Contents[d])
<1>1. n \in Nat /\ Plain(d) \subseteq 1..n
  BY ConstantsOK DEF Plain
<1> HIDE DEF n
\* The turn passes from i to the next plain layout in the list.
<1>2. ASSUME NEW i \in T, NEW m \in Plain(d), i < m,
             \A j \in Plain(d) : ~(i < j /\ j < m)
      PROVE  m \in T
  <2>1. i # n /\ i \in Nat /\ m \in Nat
    BY <1>1, <1>2
  <2>2. After(d, i) = i + 1
    BY <2>1 DEF After, n
  <2>3. \A j \in Plain(d) : j \in (i + 1)..m => j = m
    BY <1>1, <1>2
  <2>4. Follows(d, i + 1, m)
    BY <2>1, <2>3, <1>2 DEF Follows
  <2> QED
    BY <2>2, <2>4
\* From the last one it passes to the first.
<1>3. ASSUME NEW i \in T, NEW m \in Plain(d), \A j \in Plain(d) : m <= j /\ j <= i
      PROVE  m \in T
  <2>1. CASE i = n
    <3>1. After(d, i) = 1
      BY <2>1 DEF After, n
    <3>2. m \in Nat /\ m >= 1 /\ \A j \in Plain(d) : j \in Nat /\ m <= j
      BY <1>1, <1>3
    <3>3. \A j \in Plain(d) : j \in 1..m => j = m
      BY <3>2
    <3>4. Follows(d, 1, m)
      BY <3>2, <3>3 DEF Follows
    <3> QED
      BY <3>1, <3>4
  <2>2. CASE i # n
    <3>1. After(d, i) = i + 1
      BY <2>2 DEF After, n
    <3>2. ~(m >= i + 1) /\ \A j \in Plain(d) : m <= j /\ j < i + 1
      BY <1>1, <1>3
    <3>3. Follows(d, i + 1, m)
      BY <3>2 DEF Follows
    <3> QED
      BY <3>1, <3>3
  <2> QED
    BY <2>1, <2>2
\* So nothing behind a layout of T is left out.
<1>4. ASSUME NEW i \in T, NEW m \in Plain(d), i < m, m \notin T
      PROVE  FALSE
  <2> DEFINE Out == {j \in Plain(d) \ T : i < j}
  <2>1. Out \in SUBSET Nat /\ Out # {}
    BY <1>1, <1>4
  <2>2. PICK p \in Out : \A j \in Out : p <= j
    BY <2>1, Smallest
  <2> DEFINE In == {j \in Plain(d) : i <= j /\ j < p}
  <2>3. In \in SUBSET (0..n) /\ In # {}
    BY <1>1, <2>2
  <2>4. PICK q \in In : \A j \in In : j <= q
    BY <1>1, <2>3, Largest
  <2>5. q \in T
    <3>1. q = i \/ q \notin Out
      BY <1>1, <2>2, <2>4
    <3> QED
      BY <1>1, <2>4, <3>1
  <2>6. q < p /\ \A j \in Plain(d) : ~(q < j /\ j < p)
    BY <1>1, <2>2, <2>4
  <2>7. p \in T
    BY <1>2, <2>2, <2>5, <2>6
  <2> QED
    BY <2>2, <2>7
\* And T has the first one.
<1>5. PICK p \in Plain(d) : \A j \in Plain(d) : p <= j
  BY <1>1, Smallest
<1>6. PICK q \in Plain(d) : \A j \in Plain(d) : j <= q
  <2>1. Plain(d) \in SUBSET (0..n) /\ Plain(d) # {}
    BY <1>1
  <2> QED
    BY <1>1, <2>1, Largest
<1>7. q \in T
  <2>1. PICK i \in T : TRUE
    OBVIOUS
  <2>2. i \in Plain(d) /\ (i = q \/ i < q)
    BY <1>1, <1>6
  <2> QED
    BY <1>4, <2>2
<1>8. p \in T
  BY <1>3, <1>5, <1>6, <1>7
<1>9. ASSUME NEW m \in Plain(d) PROVE m \in T
  <2>1. m = p \/ p < m
    BY <1>1, <1>5
  <2> QED
    BY <1>4, <1>8, <2>1
<1> QED
  BY <1>9

=============================================================================
