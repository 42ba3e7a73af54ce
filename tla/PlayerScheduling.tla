-------------------------- MODULE PlayerScheduling --------------------------
(***************************************************************************)
(* What the player shows: three kinds of threads of one process share a    *)
(* Player and a TimingMonitor, and the tables the content retriever of     *)
(* the bootstrap manager fills.                                            *)
(*                                                                         *)
(*   - the monitor thread looks once a second for a newer deployment, and  *)
(*     for the end of the duration of the layout being shown;              *)
(*   - the scheduler (Quartz) fires the layouts that have a cron expression*)
(*   - the player thread shows one layout after the other, and learns of   *)
(*     all that from the flags the others set.                             *)
(*                                                                         *)
(* A layout is a list of regions, a region a list of components.           *)
(***************************************************************************)
EXTENDS Naturals, Sequences, FiniteSets

CONSTANTS Deployments,   \* deployments the retriever may load
          Layouts,       \* layouts of all of them
          Names,         \* the names layouts carry
          Contents,      \* DeploymentContents.layouts of each deployment
          NameOf,        \* DeploymentLayout.name
          Cron,          \* layouts with a cron expression
          Timed,         \* layouts with a duration
          Broken,        \* layouts that cannot be brought on the screen
          Components,    \* components of a region
          Caring,        \* components whose end is known (a video played once)
          Regions,       \* DeploymentLayout.contentRoots
          NoDeployment,  \* no deployment at all
          NoLayout,      \* null
          MaxLoads,      \* a bound on the deployments loaded
          MaxFires       \* a bound on the cron triggers fired

ASSUME ConstantsOK ==
    /\ Contents \in [Deployments -> Seq(Layouts)]
    /\ NameOf \in [Layouts -> Names]
    /\ Cron \subseteq Layouts /\ Timed \subseteq Layouts /\ Broken \subseteq Layouts
    /\ Caring \subseteq Components
    /\ Regions \in [Layouts -> SUBSET Seq(Components)]
    /\ NoDeployment \notin Deployments
    /\ NoLayout \notin Layouts
    /\ MaxLoads \in Nat /\ MaxFires \in Nat

VARIABLES
    loaded,              \* deployments with a FILENAME, by DEPLOY_DATE
    pending,             \* deployments with rows in PENDING
    failed,              \* deployments with FAILED_RESOURCE = 'Y'
    jobs,                \* layouts scheduled with Quartz
    fires,               \* how many of them have fired
    monitor,             \* where the monitor thread is
    chosen,              \* ... potentialDeploymentId
    scheduled,           \* ... how many layouts it has gone through
    lastDeployment,      \* ... lastDeploymentID
    checked,             \* ... the layout whose duration it looks at
    contents,            \* Player.contents, by deployment
    completeDeployment,  \* Player.completeDeployment
    completeLayout,      \* Player.completeLayout
    nextLayout,          \* Player.nextLayout
    stopRunning,         \* Player.stopRunning
    player,              \* where the player thread is
    layouts,             \* ... the deployment whose layouts it goes through
    layoutsIndex,        \* ... and which of them is next
    currentLayout,       \* TimingMonitor.currentLayout
    elapsed,             \* any duration is over since TimingMonitor.layoutStart
    completed,           \* components of the current layout that have ended
    called               \* 2: its end was asked for since it started
                         \* 1: ... since the one before it started

tables     == <<loaded, pending, failed>>
scheduler  == <<jobs, fires>>
monitoring == <<monitor, chosen, scheduled, lastDeployment, checked>>
flags      == <<completeDeployment, completeLayout, nextLayout>>
shown      == <<currentLayout, elapsed, completed, called>>
playing    == <<player, layouts, layoutsIndex>>

vars == <<tables, scheduler, monitoring, contents, flags, stopRunning,
          playing, shown>>

-----------------------------------------------------------------------------
\* The layouts of a deployment that play in turn, by their places.
Plain(d) == {i \in DOMAIN Contents[d] : Contents[d][i] \notin Cron}

\* k is the next of them from place i on, going round.
Follows(d, i, k) ==
    /\ k \in Plain(d)
    /\ \A j \in Plain(d) : IF k >= i THEN j \in i..k => j = k
                                     ELSE k <= j /\ j < i

\* Mutant: the index starts over for each layout.
AfterFirst(d, i) == 1

\* The index after the layout in place i was picked.
After(d, i) == IF i = Len(Contents[d]) THEN 1 ELSE i + 1

\* RootContainer.isComplete: the first component that cares decides.
ContainerComplete(region) ==
    \E i \in DOMAIN region :
        /\ region[i] \in completed
        /\ \A j \in 1..(i - 1) : region[j] \notin Caring \ completed

LayoutComplete(l) == \E region \in Regions[l] : ContainerComplete(region)

ComponentsOf(l) == UNION {{r[i] : i \in DOMAIN r} : r \in Regions[l]}

\* The latest valid deployment, of ORDER BY DEPLOY_DATE DESC.
Valid == {i \in DOMAIN loaded : loaded[i] \notin failed}
IsLatest(d) == \E i \in Valid : loaded[i] = d /\ \A j \in Valid : j <= i

\* Mutant: any deployment will do.
IsNewAlways(d) == TRUE

IsNew(d) == d # lastDeployment

\* Mutant: nothing is ever pending.
IncompleteNever(d) == FALSE

\* SELECT COUNT(*) FROM PENDING ...
Incomplete(d) == d \in pending

-----------------------------------------------------------------------------
Init ==
    /\ loaded = <<>> /\ pending = {} /\ failed = {}
    /\ jobs = {} /\ fires = 0
    /\ monitor = "query"
    /\ chosen = NoDeployment /\ scheduled = 0
    /\ lastDeployment = NoDeployment
    /\ checked = NoLayout
    /\ contents = NoDeployment
    /\ completeDeployment = FALSE /\ completeLayout = FALSE
    /\ nextLayout = NoLayout
    /\ stopRunning = FALSE
    /\ player = "waiting" /\ layouts = NoDeployment /\ layoutsIndex = 1
    /\ currentLayout = NoLayout
    /\ elapsed = FALSE /\ completed = {} /\ called = 0

-----------------------------------------------------------------------------
(* The content retriever, in its own process, as the tables show it: each  *)
(* step it may take, a race or not, and the order the loads give.          *)

IsLoaded == {loaded[i] : i \in DOMAIN loaded}

Tables == INSTANCE ContentDelivery WITH loaded <- IsLoaded, raced <- TRUE

Elsewhere == UNCHANGED <<scheduler, monitoring, contents, flags, stopRunning,
                         playing, shown>>

Load(d) ==
    /\ Len(loaded) < MaxLoads
    /\ loaded' = Append(loaded, d)
    /\ Tables!Load(d)
    /\ Elsewhere

LastResource(d) ==
    /\ loaded' = loaded
    /\ Tables!LastResource(d)
    /\ Elsewhere

GiveUp(D) ==
    /\ loaded' = loaded
    /\ Tables!GiveUp(D)
    /\ Elsewhere

-----------------------------------------------------------------------------
(* The monitor thread.                                                     *)

\* monitorDeployments: the first query.
Query ==
    /\ monitor = "query"
    /\ \/ /\ monitor' = "count"
          /\ \E d \in Deployments : IsLatest(d) /\ IsNew(d) /\ chosen' = d
       \/ /\ monitor' = "expiry" /\ chosen' = NoDeployment
          /\ \A d \in Deployments : ~(IsLatest(d) /\ IsNew(d))
    /\ UNCHANGED <<tables, scheduler, scheduled, lastDeployment, checked,
                   contents, flags, stopRunning, playing, shown>>

\* ... the second one, on the PENDING rows of what the first one found.
Count ==
    /\ monitor = "count"
    /\ IF Incomplete(chosen)
       THEN monitor' = "expiry" /\ chosen' = NoDeployment
       ELSE monitor' = "schedule" /\ chosen' = chosen
    /\ scheduled' = 0
    /\ UNCHANGED <<tables, scheduler, lastDeployment, checked, contents, flags,
                   stopRunning, playing, shown>>

\* startDeployment: the layouts with a cron expression, one after the other.
\* A job of that name makes the scheduler throw, and that ends the attempt.
Schedule ==
    /\ monitor = "schedule"
    /\ scheduled < Len(Contents[chosen])
    /\ LET l == Contents[chosen][scheduled + 1]
           taken == \E j \in jobs : NameOf[j] = NameOf[l]
       IN  /\ jobs' = IF l \in Cron /\ ~taken THEN jobs \cup {l} ELSE jobs
           /\ IF l \in Cron /\ taken
              THEN /\ monitor' = "expiry"
                   /\ chosen' = NoDeployment /\ scheduled' = 0
              ELSE /\ scheduled' = scheduled + 1
                   /\ UNCHANGED <<monitor, chosen>>
    /\ UNCHANGED <<tables, fires, lastDeployment, checked, contents, flags,
                   stopRunning, playing, shown>>

\* ... and the player is told.
HandOver ==
    /\ monitor = "schedule"
    /\ scheduled = Len(Contents[chosen])
    /\ contents' = chosen
    /\ completeDeployment' = TRUE
    /\ completeLayout' = TRUE
    /\ lastDeployment' = chosen
    /\ monitor' = "expiry" /\ chosen' = NoDeployment /\ scheduled' = 0
    /\ UNCHANGED <<tables, scheduler, checked, nextLayout, stopRunning,
                   playing, shown>>

\* checkLayoutExpiry: reads the current layout ...
ReadLayout ==
    /\ monitor = "expiry"
    /\ IF currentLayout \in Timed
       THEN monitor' = "decide" /\ checked' = currentLayout
       ELSE monitor' = "query" /\ checked' = NoLayout
    /\ UNCHANGED <<tables, scheduler, chosen, scheduled, lastDeployment,
                   contents, flags, stopRunning, playing, shown>>

\* ... then, not under the lock any more, when it started ...
ReadStart ==
    /\ monitor = "decide"
    /\ monitor' = IF elapsed THEN "expired" ELSE "query"
    /\ checked' = NoLayout
    /\ UNCHANGED <<tables, scheduler, chosen, scheduled, lastDeployment,
                   contents, flags, stopRunning, playing, shown>>

\* ... and ends the layout shown by now.
Expire ==
    /\ monitor = "expired"
    /\ completeLayout' = TRUE
    /\ called' = 2
    /\ monitor' = "query"
    /\ UNCHANGED <<tables, scheduler, chosen, scheduled, lastDeployment,
                   checked, contents, completeDeployment, nextLayout,
                   stopRunning, playing, currentLayout, elapsed, completed>>

-----------------------------------------------------------------------------
(* The scheduler, the components, time, and whoever watches the screen.    *)

\* Mutant: the layout being shown is left alone.
FireGently(l) ==
    /\ l \in jobs
    /\ fires < MaxFires
    /\ fires' = fires + 1
    /\ nextLayout' = l
    /\ UNCHANGED <<tables, jobs, monitoring, contents, completeDeployment,
                   completeLayout, stopRunning, playing, shown>>

\* LayoutJob.execute.
Fire(l) ==
    /\ l \in jobs
    /\ fires < MaxFires
    /\ fires' = fires + 1
    /\ nextLayout' = l
    /\ completeLayout' = TRUE
    /\ called' = 2
    /\ UNCHANGED <<tables, jobs, monitoring, contents, completeDeployment,
                   stopRunning, playing, currentLayout, elapsed, completed>>

\* A component comes to its end.
Completes(c) ==
    /\ player \in {"watching", "looking"}
    /\ c \in ComponentsOf(currentLayout) \ completed
    /\ completed' = completed \cup {c}
    /\ UNCHANGED <<tables, scheduler, monitoring, contents, flags, stopRunning,
                   playing, currentLayout, elapsed, called>>

\* The durations of all layouts are over.
Tick ==
    /\ currentLayout \in Timed
    /\ ~elapsed
    /\ elapsed' = TRUE
    /\ UNCHANGED <<tables, scheduler, monitoring, contents, flags, stopRunning,
                   playing, currentLayout, completed, called>>

\* stopPlaying: the exit key, or the right mouse button.
StopPlaying ==
    /\ player \notin {"waiting", "ended"}
    /\ ~stopRunning
    /\ stopRunning' = TRUE
    /\ UNCHANGED <<tables, scheduler, monitoring, contents, flags, playing,
                   shown>>

-----------------------------------------------------------------------------
(* The player thread.                                                      *)

\* isDeploymentComplete: the wait for the first deployment, and the test
\* before each layout.  Both flags are cleared, nextLayout is not.
IsDeploymentComplete ==
    /\ player \in {"waiting", "between"}
    /\ IF completeDeployment
       THEN /\ completeDeployment' = FALSE /\ completeLayout' = FALSE
            /\ player' = IF stopRunning THEN "ended" ELSE "switching"
       ELSE /\ player = "between"
            /\ player' = "picking"
            /\ UNCHANGED <<completeDeployment, completeLayout>>
    /\ UNCHANGED <<tables, scheduler, monitoring, contents, nextLayout,
                   stopRunning, layouts, layoutsIndex, shown>>

\* Mutant: the layouts are taken once.
TakeLayoutsOnce ==
    /\ player = "switching"
    /\ layouts' = IF layouts = NoDeployment THEN contents ELSE layouts
    /\ layoutsIndex' = 1
    /\ player' = "between"
    /\ UNCHANGED <<tables, scheduler, monitoring, contents, flags, stopRunning,
                   shown>>

\* contents.getLayouts(), read without the lock.
TakeLayouts ==
    /\ player = "switching"
    /\ layouts' = contents
    /\ layoutsIndex' = 1
    /\ player' = "between"
    /\ UNCHANGED <<tables, scheduler, monitoring, contents, flags, stopRunning,
                   shown>>

\* A layout is off the screen.
AfterLayout == IF stopRunning THEN "ended" ELSE "between"

\* startingLayout, and the start of runSingleLayout.
Showing(l) ==
    /\ currentLayout' = l
    /\ elapsed' = FALSE /\ completed' = {}
    /\ called' = IF called = 0 \/ l \in Broken THEN called ELSE called - 1
    /\ player' = IF l \in Broken THEN AfterLayout ELSE "watching"

\* getNextLayout returned a layout that was fired.
PickFired ==
    /\ player = "picking"
    /\ nextLayout # NoLayout
    /\ Showing(nextLayout)
    /\ nextLayout' = NoLayout
    /\ UNCHANGED <<tables, scheduler, monitoring, contents, completeDeployment,
                   completeLayout, stopRunning, layouts, layoutsIndex>>

\* It returned null: the next layout without a cron expression.
PickPlain ==
    /\ player = "picking"
    /\ nextLayout = NoLayout
    /\ Plain(layouts) # {}
    /\ \E i \in Plain(layouts) :
           /\ Follows(layouts, layoutsIndex, i)
           /\ Showing(Contents[layouts][i])
           /\ layoutsIndex' = After(layouts, i)
    /\ UNCHANGED <<tables, scheduler, monitoring, contents, flags, stopRunning,
                   layouts>>

\* There is none: the loop looks for one for ever (or, with no layouts at
\* all, ends the thread), and never looks at the flags again.
PickNothing ==
    /\ player = "picking"
    /\ nextLayout = NoLayout
    /\ Plain(layouts) = {}
    /\ player' = IF Contents[layouts] = <<>> THEN "ended" ELSE "spinning"
    /\ UNCHANGED <<tables, scheduler, monitoring, contents, flags, stopRunning,
                   layouts, layoutsIndex, shown>>

\* Mutant: the flag is not cleared.
WatchOnly ==
    /\ player = "watching"
    /\ player' = IF completeLayout THEN AfterLayout ELSE "looking"
    /\ UNCHANGED <<tables, scheduler, monitoring, contents, flags, stopRunning,
                   layouts, layoutsIndex, shown>>

\* runSingleLayout, the loop condition: isLayoutComplete.
Watch ==
    /\ player = "watching"
    /\ player' = IF completeLayout THEN AfterLayout ELSE "looking"
    /\ completeLayout' = FALSE
    /\ UNCHANGED <<tables, scheduler, monitoring, contents, completeDeployment,
                   nextLayout, stopRunning, layouts, layoutsIndex, shown>>

\* ... and its body, after the sleep.  The flag keeps its value.
Look ==
    /\ player = "looking"
    /\ player' = IF LayoutComplete(currentLayout) \/ stopRunning
                 THEN AfterLayout
                 ELSE "watching"
    /\ UNCHANGED <<tables, scheduler, monitoring, contents, flags, stopRunning,
                   layouts, layoutsIndex, shown>>

-----------------------------------------------------------------------------
Retriever == \/ \E d \in Deployments : Load(d) \/ LastResource(d)
             \/ \E D \in SUBSET (IsLoaded \ failed) : GiveUp(D)
Monitor == \/ Query \/ Count \/ Schedule \/ HandOver
           \/ ReadLayout \/ ReadStart \/ Expire
PlayerThread == \/ IsDeploymentComplete \/ TakeLayouts
                \/ PickFired \/ PickPlain \/ PickNothing
                \/ Watch \/ Look

Playback == \E c \in Caring : Completes(c)

Next == \/ Retriever
        \/ Monitor
        \/ PlayerThread
        \/ \E l \in Layouts : Fire(l)
        \/ Playback
        \/ Tick
        \/ StopPlaying

Spec == Init /\ [][Next]_vars

\* Both threads are loops that only sleep; time passes and videos end.  The
\* retriever, the triggers and whoever presses the exit key owe nothing.  Every
\* step of Monitor changes monitoring, every one of PlayerThread playing.
FairSpec == /\ Spec
            /\ WF_monitoring(Monitor) /\ WF_playing(PlayerThread)
            /\ WF_elapsed(Tick) /\ WF_completed(Playback)

-----------------------------------------------------------------------------
(* Properties.                                                             *)

\* Every variable has its type; the indexes stay inside the lists of layouts.
TypeOK ==
    /\ loaded \in Seq(Deployments)
    /\ pending \subseteq Deployments /\ failed \subseteq Deployments
    /\ jobs \subseteq Layouts /\ fires \in Nat
    /\ monitor \in {"query", "count", "schedule", "expiry", "decide", "expired"}
    /\ chosen \in Deployments \cup {NoDeployment}
    /\ scheduled \in Nat
    /\ monitor = "schedule" => /\ chosen \in Deployments
                               /\ scheduled <= Len(Contents[chosen])
    /\ lastDeployment \in Deployments \cup {NoDeployment}
    /\ checked \in Layouts \cup {NoLayout}
    /\ contents \in Deployments \cup {NoDeployment}
    /\ completeDeployment \in BOOLEAN /\ completeLayout \in BOOLEAN
    /\ nextLayout \in Layouts \cup {NoLayout}
    /\ stopRunning \in BOOLEAN
    /\ player \in {"waiting", "switching", "between", "picking", "watching",
                   "looking", "spinning", "ended"}
    /\ layouts \in Deployments \cup {NoDeployment}
    /\ layoutsIndex \in Nat \ {0}
    /\ layouts \in Deployments /\ Contents[layouts] # <<>> =>
           layoutsIndex \in DOMAIN Contents[layouts]
    /\ currentLayout \in Layouts \cup {NoLayout}
    /\ elapsed \in BOOLEAN /\ completed \subseteq Caring /\ called \in 0..2

Place(d) == CHOOSE i \in DOMAIN loaded : loaded[i] = d
HandingOver == contents # NoDeployment /\ monitor = "schedule" /\ monitor' = "expiry"
                  /\ scheduled = Len(Contents[chosen])

\* The player is never handed a deployment it has left for a newer one, nor
\* the one it has, unless the newer one turned out to have failed
\* (monitorDeployments; lastDeploymentID is set last).
NeverBack ==
    [][HandingOver => \/ Place(chosen) > Place(contents)
                      \/ contents \in failed]_vars

\* The player is never handed a deployment with resources still to come,
\* whatever the retriever did since the first query (monitorDeployments).
NothingPending == [][HandingOver => chosen \notin pending]_vars

Stuck == player \in {"spinning", "ended"}

Clash(l, d) == \E i \in DOMAIN Contents[d] :
    LET k == Contents[d][i] IN k # l /\ k \in Cron /\ NameOf[k] = NameOf[l]

\* Cron layouts of d have names of their own among all that are loaded.
OwnNames(d) == \A i \in DOMAIN Contents[d] : Contents[d][i] \in Cron =>
    \A j \in DOMAIN loaded : ~Clash(Contents[d][i], loaded[j])

\* None of its layouts was ever scheduled; jobs are never removed.
Fresh(d) == \A i \in DOMAIN Contents[d] : Contents[d][i] \notin jobs

\* The latest deployment, once it is complete, gets on the screen, unless a
\* name is used twice, or the player got stuck in the one before.
NewestPlays ==
    \A d \in Deployments :
        (IsLatest(d) /\ d \notin pending /\ OwnNames(d) /\ Fresh(d))
            ~> (layouts = d \/ ~IsLatest(d) \/ Stuck)

\* A layout whose cron expression fires is shown, whatever is being shown, or
\* gives way to one fired after it (startLayout, getNextLayout).
FiredPlays ==
    \A l \in Cron :
        (nextLayout = l /\ player # "waiting") ~>
            \/ currentLayout = l /\ nextLayout = NoLayout
            \/ nextLayout \notin {l, NoLayout}
            \/ Stuck

\* Layouts that end only when another one is called for.
Endless == {l \in Layouts \ Timed : ComponentsOf(l) \cap Caring = {}}

\* Each layout without a cron expression is shown again and again, when the
\* others come to an end: no ending is missed and none is left out.
EveryLayoutPlays ==
    \A d \in Deployments : \A i \in Plain(d) :
        []<>(\/ layouts # d \/ Stuck
             \/ currentLayout = Contents[d][i]
             \/ currentLayout \in Endless)

\* A layout that got on the screen leaves it because its duration is over, one
\* of its components has ended, a new deployment is there, the player is
\* stopped, or its end was asked for since the one before it got there: what
\* comes too late for one layout ends the next, but none after it
\* (runSingleLayout, isLayoutComplete).
EndsForCause ==
    [][(player \in {"watching", "looking"} /\ player' \in {"between", "ended"}) =>
           \/ currentLayout \in Timed /\ elapsed
           \/ completed # {}
           \/ completeDeployment \/ stopRunning
           \/ called # 0]_vars
=============================================================================
