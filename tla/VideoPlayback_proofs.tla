------------------------- MODULE VideoPlayback_proofs -------------------------
(***************************************************************************)
(* For any number of processes, polls, ends and crashes: until a file is   *)
(* scheduled, one process plays and mplayerIn is its (OneVideoCorrect);    *)
(* when the component is released, nothing plays (NothingLeftCorrect); what *)
(* is completed plays no more (CompletedCorrect).  With scheduled files    *)
(* processes are forgotten, but never many (FewProcesses).                 *)
(***************************************************************************)
EXTENDS VideoPlayback, FiniteSetTheorems, TLAPS

Places == {"idle", "test", "start", "track", "use", "dead", "quit", "file"}

\* The types the invariant needs.  Only the poller and the job track.
Typed ==
    /\ mplayerIn \in Processes \cup {None}
    /\ status \in [Processes -> {"none", "playing", "told", "ended"}]
    /\ watched \subseteq Processes
    /\ at \in [Threads -> Places]
    /\ new \in [Threads -> Processes \cup {None}]
    /\ \A t \in Threads : at[t] = "track" => new[t] \in Processes
    /\ phase = "starting" => mplayerIn \in Processes
    /\ scheduled \in Nat

\* Neither the timer nor a job has an effect before the first repaint is done.
Quiet ==
    phase \in {"init", "starting"} =>
        at["poller"] = "idle" /\ scheduled = 0 /\ watched = {}

\* mplayerIn belongs to the one process that plays or whose end is still to be
\* told; a poll that starts a process has found none, and tracks it before
\* anybody else looks.
Held ==
    scheduled = 0 /\ phase # "off" =>
        /\ Playing \cup watched \subseteq {mplayerIn}
        /\ at["job"] = "idle"
        /\ phase = "init" => mplayerIn = None
        /\ at["poller"] = "start" => mplayerIn = None
        /\ at["poller"] = "track" => new["poller"] = mplayerIn /\ watched = {}

HInv == Typed /\ Quiet /\ Held

LEMMA HeldInitially == Init => HInv
BY ConstantsOK DEF Init, HInv, Typed, Quiet, Held, Playing, Threads, Places

LEMMA FreshIsProcess == Free # {} => Fresh \in Processes
BY DEF Fresh, Free

LEMMA HeldStep == HInv /\ [Next]_vars => HInv'
<1> SUFFICES ASSUME HInv, [Next]_vars
             PROVE  HInv'
  OBVIOUS
<1> USE ConstantsOK DEF HInv, Typed, Quiet, Held, Playing, processes, threads,
                        history, Threads, Places, Go, Throw, HasPlayer
<1>1. ASSUME NEW p \in Processes, End(p) \/ Obey(p)
      PROVE  HInv'
  BY <1>1 DEF End, Obey
<1>2. ASSUME NEW p \in Processes, Crash(p)
      PROVE  HInv'
  BY <1>2 DEF Crash
<1>3. ASSUME NEW p \in Processes, ProcessFinished(p)
      PROVE  HInv'
  BY <1>3 DEF ProcessFinished
<1>4. CASE Poll
  BY <1>4 DEF Poll
<1>5. ASSUME NEW t \in Threads, Test(t)
      PROVE  HInv'
  BY <1>5 DEF Test, NoProcess
<1>6. ASSUME NEW t \in Threads, StartList(t)
      PROVE  HInv'
  BY <1>6, FreshIsProcess DEF StartList, Start
<1>7. ASSUME NEW t \in Threads, StartFails(t)
      PROVE  HInv'
  BY <1>7 DEF StartFails
<1>8. ASSUME NEW t \in Threads, Track(t)
      PROVE  HInv'
  BY <1>8 DEF Track, Watch
<1>9. ASSUME NEW t \in Threads, Use(t)
      PROVE  HInv'
  BY <1>9 DEF Use
<1>10. CASE RunResource
  BY <1>10 DEF RunResource
<1>11. CASE JobQuits
  BY <1>11 DEF JobQuits, Quit
<1>12. CASE StartFile
  BY <1>12, FreshIsProcess DEF StartFile, Start
<1>13. CASE FileFails
  BY <1>13 DEF FileFails
<1>14. CASE Repaint
  BY <1>14, FreshIsProcess DEF Repaint, Start
<1>15. CASE Started
  BY <1>15 DEF Started, Watch
<1>16. CASE Complete \/ Leave
  BY <1>16 DEF Complete, Leave
<1>17. CASE ReleaseResources
  BY <1>17 DEF ReleaseResources, Released
<1>18. CASE Terminate
  BY <1>18 DEF Terminate, Quit, Released
<1>19. CASE UNCHANGED vars
  BY <1>19 DEF vars
<1> QED
  BY <1>1, <1>2, <1>3, <1>4, <1>5, <1>6, <1>7, <1>8, <1>9, <1>10, <1>11,
     <1>12, <1>13, <1>14, <1>15, <1>16, <1>17, <1>18, <1>19
     DEF Next, Process, Poller, GetMPlayerIn, Job, PlayerThread

\* Until a file is scheduled or the component is released, no process plays but
\* the one mplayerIn writes to, for any number of processes and crashes.
THEOREM OneVideoCorrect == Spec => []OneVideo
<1>1. HInv => OneVideo
  BY DEF HInv, Held, OneVideo
<1> QED
  BY HeldInitially, HeldStep, <1>1, PTL DEF Spec

-----------------------------------------------------------------------------
(* After the release.                                                      *)

\* Nobody starts a process any more: a poll that was not about to do so when
\* the component was released will not, and another poll finds no player.
Left ==
    phase = "off" /\ scheduled = 0 /\ ~overtaken =>
        /\ Playing = {}
        /\ at["poller"] \notin {"test", "start"}
        /\ at["job"] = "idle"

LEMMA LeftStep == HInv /\ Left /\ [Next]_vars => Left'
<1> SUFFICES ASSUME HInv, Left, [Next]_vars,
                    (phase = "off" /\ scheduled = 0 /\ ~overtaken)'
             PROVE  /\ Playing' = {}
                    /\ at'["poller"] \notin {"test", "start"}
                    /\ at'["job"] = "idle"
  BY DEF Left
<1> USE ConstantsOK DEF Playing, processes, threads, history, Go
\* No step makes a process play that did not, but for those that start one.
<1>1. CASE phase = "off"
  <2>1. /\ scheduled = 0 /\ ~overtaken
        /\ Playing = {}
        /\ at["poller"] \notin {"test", "start"}
        /\ at["job"] = "idle"
    <3>1. scheduled' = scheduled
      BY <1>1
         DEF Next, vars, Process, Poller, GetMPlayerIn, Job, PlayerThread, End,
             Crash, Obey, ProcessFinished, Poll, Test, StartList, StartFails, Track,
             Use, RunResource, JobQuits, StartFile, FileFails, Repaint, Started,
             Complete, ReleaseResources, Terminate, Leave, HasPlayer
    <3>2. ~overtaken' => ~overtaken
      BY <1>1 DEF Next, vars, Process, Poller, GetMPlayerIn, Job, PlayerThread, End,
             Crash, Obey, ProcessFinished, Poll, Test, StartList, StartFails, Track,
             Use, RunResource, JobQuits, StartFile, FileFails, Repaint, Started,
             Complete, ReleaseResources, Terminate, Leave
    <3> QED
      BY <1>1, <3>1, <3>2 DEF Left
  <2>2. \A p \in Processes : status'[p] = "playing" => status[p] = "playing"
    BY <1>1, <2>1
       DEF Next, vars, Process, Poller, GetMPlayerIn, Job, PlayerThread, End,
           Crash, Obey, ProcessFinished, Poll, Test, StartList, StartFails, Track,
           Use, RunResource, JobQuits, StartFile, FileFails, Repaint, Started,
           Complete, ReleaseResources, Terminate, Leave, HasPlayer, HInv, Typed
  <2>3. /\ at'["poller"] \notin {"test", "start"}
        /\ at'["job"] = "idle"
    <3>1. CASE UNCHANGED at
      BY <2>1, <3>1
    <3>2. CASE Poller
      <4>1. Track("poller") \/ Use("poller")
        BY <1>1, <2>1, <3>2
           DEF Poller, GetMPlayerIn, Poll, Test, StartList, StartFails, HasPlayer
      <4>2. \E to \in {"use", "idle", "dead"} : at' = [at EXCEPT !["poller"] = to]
        BY <4>1 DEF Track, Use, Throw
      <4>3. at \in [Threads -> Places] /\ Threads = {"poller", "job"}
        BY DEF HInv, Typed, Threads
      <4> QED
        BY <2>1, <4>2, <4>3
    <3>3. CASE RunResource \/ Job
      BY <1>1, <2>1, <3>3
         DEF RunResource, Job, GetMPlayerIn, JobQuits, StartFile, FileFails, Test,
             StartList, StartFails, Track, Use, HasPlayer
    <3>4. Poller \/ RunResource \/ Job \/ UNCHANGED at
      BY DEF Next, vars, Process, PlayerThread, End, Crash, Obey, ProcessFinished,
             Repaint, Started, Complete, ReleaseResources, Terminate, Leave
    <3> QED
      BY <3>1, <3>2, <3>3, <3>4
  <2> QED
    BY <2>1, <2>2, <2>3
<1>2. CASE phase # "off"
  <2>1. Started \/ Leave \/ ReleaseResources \/ Terminate
    BY <1>2
       DEF Next, vars, Process, Poller, GetMPlayerIn, Job, PlayerThread, End,
           Crash, Obey, ProcessFinished, Poll, Test, StartList, StartFails, Track,
           Use, RunResource, JobQuits, StartFile, FileFails, Repaint, Complete
  <2>2. scheduled = 0 /\ at' = at
    BY <2>1 DEF Started, Leave, ReleaseResources, Terminate
  <2>3. /\ Playing \subseteq {mplayerIn} /\ at["job"] = "idle"
        /\ phase = "init" => mplayerIn = None
    BY <1>2, <2>2 DEF HInv, Held
  <2>4. CASE Started \/ Leave
    BY <1>2, <2>2, <2>3, <2>4 DEF Started, Leave, HInv, Typed, Quiet
  <2>5. CASE ReleaseResources \/ Terminate
    <3>1. at["poller"] \notin {"test", "start"}
      BY <2>5 DEF ReleaseResources, Terminate, Released
    <3>2. CASE ReleaseResources
      BY <2>2, <2>3, <3>1, <3>2 DEF ReleaseResources, Released
    <3>3. CASE Terminate
      <4>1. Quit
        BY <3>3 DEF Terminate
      <4>2. Playing' = {}
        BY <2>3, <4>1 DEF Quit, HInv, Typed
      <4> QED
        BY <2>2, <2>3, <3>1, <4>2
    <3> QED
      BY <2>5, <3>2, <3>3
  <2> QED
    BY <2>1, <2>4, <2>5
<1> QED
  BY <1>1, <1>2

\* A component that is released leaves no process behind that was not told to
\* quit, unless a file was scheduled or a poll was about to start one, for any
\* number of processes and crashes.
THEOREM NothingLeftCorrect == Spec => []NothingLeft
<1>1. Init => Left
  BY DEF Init, Left
<1>2. Left => NothingLeft
  BY DEF Left, NothingLeft
<1> QED
  BY HeldInitially, HeldStep, LeftStep, <1>1, <1>2, PTL DEF Spec

-----------------------------------------------------------------------------
(* What is completed is over.  A process that plays is the one mplayerIn   *)
(* belongs to, with scheduled files too, until it was taken for another.   *)

OnlyHeld == ~mistaken => Playing \subseteq {mplayerIn}

LEMMA OnlyHeldStep == Typed /\ OnlyHeld /\ [Next]_vars => OnlyHeld'
<1> SUFFICES ASSUME Typed, OnlyHeld, [Next]_vars, ~mistaken'
             PROVE  Playing' \subseteq {mplayerIn'}
  BY DEF OnlyHeld
<1> USE ConstantsOK DEF Playing, processes, threads, history
<1>1. ASSUME NEW p \in Processes, Process(p)
      PROVE  Playing' \subseteq {mplayerIn'}
  <2>1. CASE End(p) \/ Crash(p) \/ Obey(p)
    BY <2>1 DEF End, Crash, Obey, Typed, OnlyHeld
  <2>2. CASE ProcessFinished(p)
    BY <2>2 DEF ProcessFinished, Typed, OnlyHeld
  <2> QED
    BY <1>1, <2>1, <2>2 DEF Process
<1>2. ASSUME NEW asFile, Start(asFile)
      PROVE  Playing' \subseteq {mplayerIn'}
  <2>1. /\ status' = [status EXCEPT ![Fresh] = "playing"] /\ mplayerIn' = Fresh
        /\ mplayerIn = None /\ ~mistaken
    BY <1>2 DEF Start
  <2>2. \A p \in Processes : status[p] # "playing"
    BY <2>1 DEF OnlyHeld
  <2> QED
    BY <2>1, <2>2 DEF Typed
<1>3. CASE Quit /\ mistaken' = mistaken
  BY <1>3 DEF Quit, OnlyHeld, Typed
<1>4. CASE UNCHANGED <<status, mplayerIn, mistaken>>
  BY <1>4 DEF OnlyHeld
<1>5. ASSUME NEW t, GetMPlayerIn(t)
      PROVE  Start(FALSE) \/ UNCHANGED <<status, mplayerIn, mistaken>>
  BY <1>5 DEF GetMPlayerIn, Test, StartList, StartFails, Track, Use, Watch
<1>6. CASE Poll \/ RunResource \/ JobQuits \/ StartFile \/ FileFails
  <2>1. \/ Start(TRUE)
        \/ Quit /\ mistaken' = mistaken
        \/ UNCHANGED <<status, mplayerIn, mistaken>>
    BY <1>6 DEF Poll, RunResource, JobQuits, StartFile, FileFails
  <2> QED
    BY <1>2, <1>3, <1>4, <2>1
<1>7. CASE PlayerThread \/ Leave
  <2>1. \/ Start(FALSE)
        \/ Quit /\ mistaken' = mistaken
        \/ UNCHANGED <<status, mplayerIn, mistaken>>
    BY <1>7 DEF PlayerThread, Repaint, Started, Complete, ReleaseResources, Terminate,
       Leave, Watch, Released
  <2> QED
    BY <1>2, <1>3, <1>4, <2>1
<1>8. CASE UNCHANGED vars
  BY <1>4, <1>8 DEF vars
<1> QED
  BY <1>1, <1>2, <1>4, <1>5, <1>6, <1>7, <1>8 DEF Next, Poller, Job

\* A component whose playback is completed has no process that plays, for any
\* processes, scheduled files, polls and crashes, unless one was forgotten for
\* the end or the start of another (isPlaybackCompleted, processFinished).
THEOREM CompletedCorrect == Spec => []CompletedIsOver
<1>1. Init => OnlyHeld
  BY DEF Init, OnlyHeld, Playing
<1>2. HInv => Typed
  BY DEF HInv
<1>3. HInv /\ OnlyHeld => CompletedIsOver
  BY ConstantsOK DEF OnlyHeld, CompletedIsOver, Playing
<1> QED
  BY HeldInitially, HeldStep, OnlyHeldStep, <1>1, <1>2, <1>3, PTL DEF Spec

-----------------------------------------------------------------------------
(* What was started and not yet tracked.                                   *)

\* A process that was started is watched only when it has been tracked, and
\* each thread tracks its own.
Untracked ==
    /\ \A t \in Threads :
           /\ new[t] \notin watched
           /\ new[t] \in Processes => status[new[t]] # "none"
    /\ new["poller"] = new["job"] => new["job"] = None
    /\ mplayerIn \in Processes => status[mplayerIn] # "none"

SInv == HInv /\ Types /\ Untracked

LEMMA SupplyInitially == Init => SInv
<1>1. Init => Types
  <2> SUFFICES ASSUME Init PROVE Types
    OBVIOUS
  <2>1. /\ early \in BOOLEAN /\ overtaken \in BOOLEAN /\ mistaken \in BOOLEAN
        /\ repeat \in BOOLEAN
    BY Zenon DEF Init
  <2>2. scheduled \in 0..MaxScheduled /\ failures \in 0..MaxFailures
    BY ConstantsOK DEF Init
  <2> QED
    BY <2>1, <2>2 DEF Init, Types, Threads
<1>2. Init => Untracked
  BY ConstantsOK DEF Init, Untracked, Threads
<1> QED
  BY <1>1, <1>2, HeldInitially DEF SInv

LEMMA FreshIsFree ==
    Free # {} => /\ Fresh \in Processes /\ Fresh \notin watched
                 /\ Fresh # mplayerIn /\ \A t \in Threads : new[t] # Fresh
BY DEF Fresh, Free

LEMMA SupplyStep == SInv /\ [Next]_vars => SInv'
<1> SUFFICES ASSUME SInv, [Next]_vars
             PROVE  (Types /\ Untracked)'
  BY HeldStep DEF SInv
<1>0. HInv /\ Types /\ Untracked
  BY DEF SInv
<1> USE ConstantsOK, <1>0 DEF HInv, Typed, Quiet, Held, Types, Untracked,
        processes, threads, history, Threads, Places, Go, Throw
<1>1. ASSUME NEW p \in Processes, End(p) \/ Obey(p)
      PROVE  (Types /\ Untracked)'
  BY <1>1 DEF End, Obey
<1>2. ASSUME NEW p \in Processes, Crash(p)
      PROVE  (Types /\ Untracked)'
  BY <1>2 DEF Crash
<1>3. ASSUME NEW p \in Processes, ProcessFinished(p)
      PROVE  (Types /\ Untracked)'
  BY <1>3 DEF ProcessFinished
<1>4. CASE Poll
  BY <1>4 DEF Poll
<1>5. ASSUME NEW t \in Threads, Test(t)
      PROVE  (Types /\ Untracked)'
  BY <1>5 DEF Test, NoProcess
<1>6. ASSUME NEW t \in Threads, StartList(t)
      PROVE  (Types /\ Untracked)'
  BY <1>6, FreshIsFree DEF StartList, Start
<1>7. ASSUME NEW t \in Threads, StartFails(t)
      PROVE  (Types /\ Untracked)'
  BY <1>7 DEF StartFails
<1>8. ASSUME NEW t \in Threads, Track(t)
      PROVE  (Types /\ Untracked)'
  BY <1>8 DEF Track, Watch
<1>9. ASSUME NEW t \in Threads, Use(t)
      PROVE  (Types /\ Untracked)'
  BY <1>9 DEF Use
<1>10. CASE RunResource
  BY <1>10 DEF RunResource
<1>11. CASE JobQuits
  BY <1>11 DEF JobQuits, Quit
<1>12. CASE StartFile
  BY <1>12, FreshIsFree DEF StartFile, Start
<1>13. CASE FileFails
  BY <1>13 DEF FileFails
<1>14. CASE Repaint
  BY <1>14, FreshIsFree DEF Repaint, Start
<1>15. CASE Started
  BY <1>15 DEF Started, Watch
<1>16. CASE Complete \/ Leave
  BY <1>16 DEF Complete, Leave
<1>17. CASE ReleaseResources
  <2>1. overtaken' \in BOOLEAN
    <3> DEFINE starts == at["poller"] \in {"test", "start"}
    <3>1. overtaken' = starts \/ overtaken' = overtaken
      BY <1>17, Zenon DEF ReleaseResources, Released
    <3>2. starts \in BOOLEAN
      OBVIOUS
    <3> HIDE DEF starts
    <3> QED
      BY <3>1, <3>2, Zenon
  <2>2. phase' \in {"off", "quitting"}
    BY <1>17 DEF ReleaseResources, Released
  <2> QED
    BY <1>17, <2>1, <2>2 DEF ReleaseResources
<1>18. CASE Terminate
  <2>1. overtaken' \in BOOLEAN
    <3> DEFINE starts == at["poller"] \in {"test", "start"}
    <3>1. overtaken' = starts \/ overtaken' = overtaken
      BY <1>18, Zenon DEF Terminate, Released
    <3>2. starts \in BOOLEAN
      OBVIOUS
    <3> HIDE DEF starts
    <3> QED
      BY <3>1, <3>2, Zenon
  <2>2. /\ phase' \in {"off", "abandoned"} /\ mplayerIn' = None
        /\ Quit \/ status' = status
    BY <1>18 DEF Terminate, Quit, Released
  <2> QED
    BY <1>18, <2>1, <2>2 DEF Terminate, Quit
<1>19. CASE UNCHANGED vars
  BY <1>19 DEF vars
<1> QED
  BY <1>1, <1>2, <1>3, <1>4, <1>5, <1>6, <1>7, <1>8, <1>9, <1>10, <1>11,
     <1>12, <1>13, <1>14, <1>15, <1>16, <1>17, <1>18, <1>19
     DEF Next, Process, Poller, GetMPlayerIn, Job, PlayerThread


-----------------------------------------------------------------------------
(* How many processes there are at once.  A process is busy from its start *)
(* until its end is told; what the threads may still start is owed.        *)

Busy == {p \in Processes : \/ status[p] \in {"playing", "told"}
                           \/ p \in watched
                           \/ p = mplayerIn
                           \/ \E t \in Threads : new[t] = p}

\* A job that tells a process to quit leaves room for another besides its own.
Owed == (CASE at["job"] = "quit" -> 2
           [] at["job"] \in {"file", "test", "start"} -> 1
           [] OTHER -> 0)
        + (IF mplayerIn = None \/ at["poller"] = "start" THEN 1 ELSE 0)
        + (IF phase # "off" THEN 1 ELSE 0)

\* The release makes room for one, a scheduled file for two.
Room == 2 + 2 * scheduled

Few == /\ IsFiniteSet(Busy)
       /\ Cardinality(Busy) + Owed <= Room

LEMMA Fewer ==
    ASSUME NEW S, IsFiniteSet(S), NEW p \in S, NEW T \in SUBSET (S \ {p})
    PROVE  /\ IsFiniteSet(T)
           /\ Cardinality(T) \in Nat /\ Cardinality(S) \in Nat
           /\ Cardinality(T) + 1 <= Cardinality(S)
<1>1. /\ IsFiniteSet(S \ {p}) /\ Cardinality(S \ {p}) = Cardinality(S) - 1
  BY FS_RemoveElement
<1>2. IsFiniteSet(T) /\ Cardinality(T) <= Cardinality(S \ {p})
  BY <1>1, FS_Subset
<1> QED
  BY <1>1, <1>2, FS_CardinalityType

LEMMA OneMore ==
    ASSUME NEW S, IsFiniteSet(S), NEW p, NEW T \in SUBSET (S \cup {p})
    PROVE  /\ IsFiniteSet(T)
           /\ Cardinality(T) \in Nat /\ Cardinality(S) \in Nat
           /\ Cardinality(T) <= Cardinality(S) + 1
<1>1. /\ IsFiniteSet(S \cup {p})
      /\ Cardinality(S \cup {p}) \in {Cardinality(S), Cardinality(S) + 1}
  BY FS_AddElement
<1>2. IsFiniteSet(T) /\ Cardinality(T) <= Cardinality(S \cup {p})
  BY <1>1, FS_Subset
<1> QED
  BY <1>1, <1>2, FS_CardinalityType

LEMMA OwedIs == Owed \in 0..4 /\ Owed' \in 0..4
BY DEF Owed

LEMMA RoomIs ==
    scheduled \in Nat =>
        /\ Room \in Nat
        /\ scheduled' = scheduled => Room' = Room
        /\ scheduled' = scheduled + 1 => Room' = Room + 2
BY DEF Room

\* No more is owed, or no more than there is room for.
NoMore == Owed' + Room <= Owed + Room'

LEMMA SameRoom ==
    scheduled \in Nat /\ scheduled' = scheduled /\ Owed' <= Owed => NoMore
<1> SUFFICES ASSUME scheduled \in Nat, scheduled' = scheduled, Owed' <= Owed
             PROVE  NoMore
  OBVIOUS
<1>1. PICK a, b, r \in Int : a = Owed /\ b = Owed' /\ r = Room /\ r = Room'
  BY OwedIs, RoomIs
<1>2. b <= a
  BY <1>1
<1>3. b + r <= a + r
  BY <1>2
<1> QED
  BY <1>1, <1>3 DEF NoMore

LEMMA MoreRoom ==
    scheduled \in Nat /\ scheduled' = scheduled + 1 /\ Owed' <= Owed + 2 => NoMore
<1> SUFFICES ASSUME scheduled \in Nat, scheduled' = scheduled + 1, Owed' <= Owed + 2
             PROVE  NoMore
  OBVIOUS
<1>1. PICK a, b, r \in Int : a = Owed /\ b = Owed' /\ r = Room /\ r + 2 = Room'
  BY OwedIs, RoomIs
<1>2. b <= a + 2
  BY <1>1
<1>3. b + r <= a + (r + 2)
  BY <1>2
<1> QED
  BY <1>1, <1>3 DEF NoMore

LEMMA FewInitially == Init => Few
<1> SUFFICES ASSUME Init PROVE Few
  OBVIOUS
<1>1. Busy = {}
  BY ConstantsOK DEF Init, Busy
<1>2. Owed = 2 /\ scheduled = 0
  BY DEF Init, Owed, Threads
<1> QED
  BY <1>1, <1>2, FS_EmptySet DEF Few, Room

\* A start takes a process that is not busy.
LEMMA StartTakesOne ==
    ASSUME NEW x, Start(x), watched' = watched,
           new' = new \/ \E t \in Threads : new' = [new EXCEPT ![t] = Fresh],
           SInv
    PROVE  Busy' \subseteq Busy \cup {Fresh}
<1> SUFFICES ASSUME NEW p \in Processes, p \in Busy', p # Fresh
             PROVE  p \in Busy
  BY DEF Busy
<1>1. /\ status' = [status EXCEPT ![Fresh] = "playing"] /\ mplayerIn' = Fresh
      /\ Fresh \in Processes
  BY FreshIsFree DEF Start
<1>2. status'[p] = status[p]
  BY <1>1 DEF SInv, Types
<1>3. \A t \in Threads : new'[t] = p => new[t] = p
  BY DEF SInv, HInv, Typed
<1> QED
  BY <1>1, <1>2, <1>3 DEF Busy

\* One process less to tell of makes room for one, a process more takes it.
LEMMA Balance ==
    SInv /\ [Next]_vars =>
        \/ Busy' \subseteq Busy /\ NoMore
        \/ /\ \E p \in Busy : Busy' \subseteq Busy \ {p}
           /\ Owed' <= Owed + 1 /\ scheduled' = scheduled
        \/ /\ Busy' \subseteq Busy \cup {Fresh}
           /\ Owed' + 1 <= Owed /\ scheduled' = scheduled
<1> SUFFICES ASSUME SInv, [Next]_vars
             PROVE  \/ Busy' \subseteq Busy /\ NoMore
                    \/ /\ \E p \in Busy : Busy' \subseteq Busy \ {p}
                       /\ Owed' <= Owed + 1 /\ scheduled' = scheduled
                    \/ /\ Busy' \subseteq Busy \cup {Fresh}
                       /\ Owed' + 1 <= Owed /\ scheduled' = scheduled
  OBVIOUS
<1>0. /\ HInv /\ Types /\ Untracked /\ scheduled \in Nat
      /\ at \in [Threads -> Places] /\ new \in [Threads -> Processes \cup {None}]
      /\ Threads = {"poller", "job"}
  BY DEF SInv, HInv, Typed, Threads
<1> USE ConstantsOK DEF processes, threads, history, Go, Throw
<1>1. ASSUME NEW p \in Processes, End(p) \/ Crash(p) \/ Obey(p)
      PROVE  Busy' \subseteq Busy /\ NoMore
  <2>1. Owed' = Owed /\ scheduled' = scheduled
    BY <1>1 DEF End, Crash, Obey, Owed
  <2>2. Busy' \subseteq Busy
    BY <1>0, <1>1 DEF End, Crash, Obey, Busy, Types
  <2> QED
    BY <1>0, <2>1, <2>2, OwedIs, SameRoom
<1>2. ASSUME NEW p \in Processes, ProcessFinished(p)
      PROVE  /\ \E q \in Busy : Busy' \subseteq Busy \ {q}
             /\ Owed' <= Owed + 1 /\ scheduled' = scheduled
  <2>1. Owed' <= Owed + 1 /\ scheduled' = scheduled
    BY <1>2 DEF ProcessFinished, Owed
  <2>2. p \in Busy /\ Busy' \subseteq Busy \ {p}
    BY <1>0, <1>2 DEF ProcessFinished, Busy, Untracked
  <2> QED
    BY <2>1, <2>2
<1>3. CASE Poll
  <2>1. Owed' = Owed /\ scheduled' = scheduled /\ Busy' = Busy
    BY <1>0, <1>3 DEF Poll, Owed, Busy
  <2> QED
    BY <1>0, <2>1, OwedIs, SameRoom
<1>4. ASSUME NEW t \in Threads, Test(t) \/ StartFails(t) \/ Use(t)
      PROVE  Busy' \subseteq Busy /\ NoMore
  <2>1. Busy' = Busy /\ scheduled' = scheduled
    BY <1>4 DEF Test, StartFails, Use, Busy
  <2>2. Owed' <= Owed
    BY <1>0, <1>4 DEF Test, StartFails, Use, NoProcess, Owed
  <2> QED
    BY <1>0, <2>1, <2>2, SameRoom
<1>5. ASSUME NEW t \in Threads, StartList(t)
      PROVE  /\ Busy' \subseteq Busy \cup {Fresh}
             /\ Owed' + 1 <= Owed /\ scheduled' = scheduled
  <2>1. Owed' + 1 <= Owed /\ scheduled' = scheduled
    <3>1. /\ at[t] = "start" /\ at' = [at EXCEPT ![t] = "track"]
          /\ mplayerIn' \in Processes /\ phase' = phase /\ scheduled' = scheduled
      BY <1>5, FreshIsFree DEF StartList, Start
    <3>2. CASE t = "job"
      <4>1. /\ at["job"] = "start" /\ at'["job"] = "track"
            /\ at'["poller"] = at["poller"] /\ mplayerIn' # None
        BY <1>0, <3>1, <3>2
      <4> QED
        BY <3>1, <4>1 DEF Owed
    <3>3. CASE t = "poller"
      <4>1. /\ at["poller"] = "start" /\ at'["poller"] = "track"
            /\ at'["job"] = at["job"] /\ mplayerIn' # None
        BY <1>0, <3>1, <3>3
      <4> QED
        BY <3>1, <4>1 DEF Owed
    <3> QED
      BY <1>0, <3>1, <3>2, <3>3
  <2> QED
    BY <1>5, <2>1, StartTakesOne DEF StartList
<1>6. ASSUME NEW t \in Threads, Track(t)
      PROVE  Busy' \subseteq Busy /\ NoMore
  <2>1. /\ at[t] = "track" /\ scheduled' = scheduled /\ mplayerIn' = mplayerIn
        /\ phase' = phase /\ status' = status
        /\ \E to \in {"dead", "idle", "use"} : at' = [at EXCEPT ![t] = to]
    BY <1>6 DEF Track
  <2>2. Owed' <= Owed
    BY <1>0, <2>1 DEF Owed
  <2>3. Busy' \subseteq Busy
    BY <1>0, <1>6 DEF Track, Watch, Busy, Types
  <2> QED
    BY <1>0, <2>1, <2>2, <2>3, SameRoom
<1>7. CASE RunResource
  <2>1. Busy' = Busy /\ scheduled' = scheduled + 1
    BY <1>7 DEF RunResource, Busy
  <2>2. Owed' <= Owed + 2
    BY <1>0, <1>7 DEF RunResource, Owed
  <2> QED
    BY <1>0, <2>1, <2>2, MoreRoom
<1>8. CASE JobQuits
  <2>1. Busy' \subseteq Busy /\ scheduled' = scheduled
    BY <1>0, <1>8 DEF JobQuits, Quit, Busy, Types
  <2>2. Owed' <= Owed
    BY <1>0, <1>8 DEF JobQuits, Quit, Owed
  <2> QED
    BY <1>0, <2>1, <2>2, SameRoom
<1>9. CASE StartFile
  <2>1. Owed' + 1 <= Owed /\ scheduled' = scheduled
    <3>1. /\ at["job"] = "file" /\ at' = [at EXCEPT !["job"] = "track"]
          /\ mplayerIn' \in Processes /\ phase' = phase /\ scheduled' = scheduled
      BY <1>9, FreshIsFree DEF StartFile, Start
    <3>2. /\ at'["job"] = "track" /\ at'["poller"] = at["poller"]
          /\ mplayerIn' # None
      BY <1>0, <3>1
    <3> QED
      BY <3>1, <3>2 DEF Owed
  <2> QED
    BY <1>0, <1>9, <2>1, StartTakesOne DEF StartFile
<1>10. CASE FileFails
  <2>1. Busy' = Busy /\ scheduled' = scheduled
    BY <1>10 DEF FileFails, Busy
  <2>2. Owed' = Owed
    BY <1>0, <1>10 DEF FileFails, Owed
  <2> QED
    BY <1>0, <2>1, <2>2, OwedIs, SameRoom
<1>11. CASE Repaint
  <2>1. /\ phase = "init" /\ phase' = "starting" /\ mplayerIn' \in Processes
        /\ at' = at /\ scheduled' = scheduled
    BY <1>11, FreshIsFree DEF Repaint, Start
  <2>2. mplayerIn = None /\ at["poller"] = "idle"
    BY <1>0, <2>1 DEF HInv, Quiet, Held
  <2>3. Owed' + 1 <= Owed
    BY <2>1, <2>2 DEF Owed
  <2> QED
    BY <1>11, <2>1, <2>3, StartTakesOne DEF Repaint
<1>12. CASE Started \/ Leave \/ Complete \/ ReleaseResources
  <2>1. /\ at' = at /\ scheduled' = scheduled /\ mplayerIn' = mplayerIn
        /\ status' = status /\ new' = new /\ phase # "off"
    BY <1>12 DEF Started, Leave, Complete, ReleaseResources
  <2>2. Owed' <= Owed
    BY <2>1 DEF Owed
  <2>3. watched' \subseteq watched \cup {mplayerIn}
    BY <1>12 DEF Started, Leave, Complete, ReleaseResources, Watch
  <2> QED
    BY <1>0, <2>1, <2>2, <2>3, SameRoom DEF Busy
<1>13. CASE Terminate
  <2>1. /\ phase = "quitting" /\ at' = at /\ new' = new /\ watched' = watched
        /\ scheduled' = scheduled
        /\ \/ phase' = "abandoned" /\ UNCHANGED <<mplayerIn, status>>
           \/ phase' = "off" /\ Quit
    BY <1>13 DEF Terminate, Released
  <2>2. Owed' <= Owed
    BY <2>1 DEF Owed
  <2>3. Busy' \subseteq Busy
    BY <1>0, <2>1 DEF Busy, Quit, Types
  <2> QED
    BY <1>0, <2>1, <2>2, <2>3, SameRoom
<1>14. CASE UNCHANGED vars
  <2>1. Owed' = Owed /\ scheduled' = scheduled /\ Busy' = Busy
    BY <1>14 DEF vars, Owed, Busy
  <2> QED
    BY <1>0, <2>1, OwedIs, SameRoom
<1> QED
  BY <1>1, <1>2, <1>3, <1>4, <1>5, <1>6, <1>7, <1>8, <1>9, <1>10, <1>11,
     <1>12, <1>13, <1>14
     DEF Next, Process, Poller, GetMPlayerIn, Job, PlayerThread, Threads

LEMMA FewStep == SInv /\ Few /\ [Next]_vars => Few'
<1> SUFFICES ASSUME SInv, Few, [Next]_vars
             PROVE  Few'
  OBVIOUS
<1>1. scheduled \in Nat /\ scheduled' \in Nat /\ IsFiniteSet(Busy)
  BY SupplyStep DEF Few, SInv, HInv, Typed
<1>2. PICK b, o, r \in Nat : /\ b = Cardinality(Busy) /\ o = Owed /\ r = Room
                             /\ b + o <= r
  <2>1. Cardinality(Busy) \in Nat /\ Owed \in Nat /\ Room \in Nat
    BY <1>1, OwedIs, RoomIs, FS_CardinalityType
  <2> QED
    BY <2>1 DEF Few
<1>3. PICK p, s \in Nat : p = Owed' /\ s = Room'
  <2>1. Owed' \in Nat
    BY OwedIs
  <2>2. PICK n \in Nat : n = scheduled'
    BY <1>1
  <2>3. Room' \in Nat
    <3>1. 2 + 2 * n \in Nat
      OBVIOUS
    <3>2. Room' = 2 + 2 * n
      BY <2>2, Zenon DEF Room
    <3> QED
      BY <3>1, <3>2
  <2> QED
    BY <2>1, <2>3
<1>4. ASSUME IsFiniteSet(Busy'), NEW c \in Nat, c = Cardinality(Busy'),
             c + p <= s
      PROVE  Few'
  BY <1>3, <1>4 DEF Few
<1>5. CASE Busy' \subseteq Busy /\ NoMore
  <2>1. IsFiniteSet(Busy')
    BY <1>1, <1>5, FS_Subset
  <2>2. PICK c \in Nat : c = Cardinality(Busy') /\ c <= b
    BY <1>1, <1>2, <1>5, FS_Subset, FS_CardinalityType
  <2>3. p + r <= o + s
    BY <1>2, <1>3, <1>5 DEF NoMore
  <2>4. c + p <= s
    BY <1>2, <2>2, <2>3
  <2> QED
    BY <1>4, <2>1, <2>2, <2>4
<1>6. CASE /\ \E q \in Busy : Busy' \subseteq Busy \ {q}
           /\ Owed' <= Owed + 1 /\ scheduled' = scheduled
  <2>1. IsFiniteSet(Busy')
    BY <1>1, <1>6, Fewer
  <2>2. PICK c \in Nat : c = Cardinality(Busy') /\ c + 1 <= b
    BY <1>1, <1>2, <1>6, Fewer
  <2>3. p <= o + 1 /\ s = r
    BY <1>1, <1>2, <1>3, <1>6, RoomIs
  <2>4. c + p <= s
    BY <1>2, <2>2, <2>3
  <2> QED
    BY <1>4, <2>1, <2>2, <2>4
<1>7. CASE /\ Busy' \subseteq Busy \cup {Fresh}
           /\ Owed' + 1 <= Owed /\ scheduled' = scheduled
  <2>1. IsFiniteSet(Busy')
    BY <1>1, <1>7, OneMore
  <2>2. PICK c \in Nat : c = Cardinality(Busy') /\ c <= b + 1
    BY <1>1, <1>2, <1>7, OneMore
  <2>3. p + 1 <= o /\ s = r
    BY <1>1, <1>2, <1>3, <1>7, RoomIs
  <2>4. c + p <= s
    BY <1>2, <2>2, <2>3
  <2> QED
    BY <1>4, <2>1, <2>2, <2>4
<1> QED
  BY <1>5, <1>6, <1>7, Balance

\* There are never more processes of mplayer at once, that play, were told to
\* quit or whose end is not yet told, than two and two for each scheduled file,
\* however polls, ends, crashes and failures fall (MPlayer.getMPlayerIn).
THEOREM FewProcesses ==
    Spec => [](/\ IsFiniteSet(Busy) /\ Cardinality(Busy) <= 2 + 2 * scheduled)
<1>1. SInv /\ Few => IsFiniteSet(Busy) /\ Cardinality(Busy) <= 2 + 2 * scheduled
  <2> SUFFICES ASSUME SInv, Few
               PROVE  Cardinality(Busy) <= 2 + 2 * scheduled
    BY DEF Few
  <2>1. Cardinality(Busy) \in Nat /\ Owed \in Nat /\ scheduled \in Nat
    BY OwedIs, FS_CardinalityType DEF Few, SInv, HInv, Typed
  <2> QED
    BY <2>1 DEF Few, Room
<1> QED
  BY SupplyInitially, SupplyStep, FewInitially, FewStep, <1>1, PTL DEF Spec

\* Every variable keeps its type, and a thread never lacks a process to start,
\* for any processes, scheduled files, crashes and failures.
THEOREM TypeCorrect == Spec => []TypeOK
<1>1. SInv /\ Few => TypeOK
  <2> SUFFICES ASSUME SInv, Few PROVE TypeOK
    OBVIOUS
  <2>1. Free # {}
    <3> SUFFICES ASSUME Free = {} PROVE FALSE
      OBVIOUS
    <3>1. Busy = Processes
      BY DEF Busy, Free, SInv, Types
    <3>2. /\ scheduled \in 0..MaxScheduled /\ MaxScheduled \in Nat
          /\ Cardinality(Processes) \in Nat /\ Owed \in Nat
      BY <3>1, ConstantsOK, OwedIs, FS_CardinalityType DEF Few, SInv, Types
    <3>3. /\ Cardinality(Processes) + Owed <= 2 + 2 * scheduled
          /\ Cardinality(Processes) > 2 + 2 * MaxScheduled
      BY <3>1, EnoughProcesses DEF Few, Room
    <3> QED
      BY <3>2, <3>3
  <2>2. Types
    BY DEF SInv
  <2> QED
    BY <2>1, <2>2 DEF Types, TypeOK
<1> QED
  BY SupplyInitially, SupplyStep, FewInitially, FewStep, <1>1, PTL DEF Spec
=============================================================================
