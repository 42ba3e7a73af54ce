----------------------------- MODULE VideoPlayback -----------------------------
(***************************************************************************)
(* A FileVideo of a layout while the layout is shown: the MPlayer object   *)
(* it owns and the mplayer processes behind it.  Four kinds of threads     *)
(* share MPlayer.mplayerIn, and nothing guards it:                         *)
(*                                                                         *)
(*   - the thread of the Player repaints the component, asks it whether it *)
(*     is complete and releases it;                                        *)
(*   - a timer polls the process twice a second, and starts one if there   *)
(*     is none;                                                            *)
(*   - a job of Quartz plays a scheduled file in place of the list;        *)
(*   - a ProcessExitDetector for each process tells the MPlayer of its end.*)
(*                                                                         *)
(* Each test of mplayerIn and each use after it is a step of its own.  The *)
(* full-screen answers of a process are left out.  early, overtaken and      *)
(* mistaken record three races, for the properties.                        *)
(***************************************************************************)
EXTENDS Naturals, FiniteSets

CONSTANTS Processes,    \* processes of mplayer; one that is over may return
          None,         \* null
          MaxScheduled, \* a bound on the scheduled files
          MaxFailures   \* a bound on failures to start, and on crashes

ASSUME ConstantsOK == /\ None \notin Processes
                      /\ MaxScheduled \in Nat /\ MaxFailures \in Nat

\* As many names as there are processes at once; without end, or so many.
ASSUME EnoughProcesses ==
    IsFiniteSet(Processes) => Cardinality(Processes) > 2 + 2 * MaxScheduled

Threads == {"poller", "job"}

VARIABLES
    repeat,     \* FileVideo.repeat
    phase,      \* of the component: "init", "starting", "on", "leaving",
                \* "quitting", "off", or "abandoned" by an exception
    mplayerIn,  \* the process whose input MPlayer.mplayerIn is, or None
    status,     \* of each process: "none", "playing", "told" to quit, "ended"
    files,      \* processes that play a scheduled file
    watched,    \* processes with a ProcessExitDetector that has not reported
    at,         \* where each thread is
    new,        \* the process each thread has started and not yet tracked
    scheduled,  \* how many scheduled files have been asked for
    failures,   \* how many failures there have been
    early,      \* a process ended before its detector was made
    overtaken,  \* the component was released during a poll
    mistaken    \* mplayerIn went from a process on the word of another

processes == <<status, files, watched>>
threads == <<at, new>>
history == <<early, overtaken, mistaken>>
vars == <<repeat, phase, mplayerIn, processes, threads, scheduled, failures,
          history>>

-----------------------------------------------------------------------------
Playing == {p \in Processes : status[p] = "playing"}

Free == {p \in Processes : /\ status[p] \in {"none", "ended"}
                           /\ p \notin watched
                           /\ p # mplayerIn
                           /\ \A t \in Threads : new[t] # p}
Fresh == CHOOSE p \in Free : TRUE

\* Init is the component after FileVideo.init, before its first repaint.
Init ==
    /\ repeat \in BOOLEAN
    /\ phase = "init"
    /\ mplayerIn = None
    /\ status = [p \in Processes |-> "none"]
    /\ files = {} /\ watched = {}
    /\ at = [t \in Threads |-> "idle"]
    /\ new = [t \in Threads |-> None]
    /\ scheduled = 0 /\ failures = 0
    /\ early = FALSE /\ overtaken = FALSE /\ mistaken = FALSE

\* Runtime.exec, and mplayerIn is set.
Start(asFile) ==
    /\ Free # {}
    /\ status' = [status EXCEPT ![Fresh] = "playing"]
    /\ files' = IF asFile THEN files \cup {Fresh} ELSE files \ {Fresh}
    /\ mplayerIn' = Fresh
    /\ mistaken' = (mistaken \/ mplayerIn # None)

\* createTrackers: a process that is over has no detector.
Watch(p) ==
    /\ watched' = IF status[p] = "ended" THEN watched ELSE watched \cup {p}
    /\ early' = (early \/ status[p] = "ended")

-----------------------------------------------------------------------------
(* The processes and their detectors.                                      *)

\* A list that is not repeated and a scheduled file come to their end.
End(p) ==
    /\ status[p] = "playing" /\ (p \in files \/ ~repeat)
    /\ status' = [status EXCEPT ![p] = "ended"]
    /\ UNCHANGED <<repeat, phase, mplayerIn, files, watched, threads, scheduled,
                   failures, history>>

Crash(p) ==
    /\ status[p] = "playing" /\ failures < MaxFailures
    /\ status' = [status EXCEPT ![p] = "ended"]
    /\ failures' = failures + 1
    /\ UNCHANGED <<repeat, phase, mplayerIn, files, watched, threads, scheduled,
                   history>>

Obey(p) ==
    /\ status[p] = "told"
    /\ status' = [status EXCEPT ![p] = "ended"]
    /\ UNCHANGED <<repeat, phase, mplayerIn, files, watched, threads, scheduled,
                   failures, history>>

\* Mutant: the MPlayer is not among the listeners of the detector.
ProcessFinishedUnheard(p) ==
    /\ p \in watched /\ status[p] = "ended"
    /\ watched' = watched \ {p}
    /\ UNCHANGED <<repeat, phase, mplayerIn, status, files, threads, scheduled,
                   failures, history>>

\* processFinished, whichever process mplayerIn belongs to by then.
ProcessFinished(p) ==
    /\ p \in watched /\ status[p] = "ended"
    /\ watched' = watched \ {p}
    /\ mplayerIn' = None
    /\ mistaken' = (mistaken \/ mplayerIn \notin {p, None})
    /\ UNCHANGED <<repeat, phase, status, files, threads, scheduled, failures,
                   early, overtaken>>

-----------------------------------------------------------------------------
(* The timer, and the job of a scheduled file.  The MPlayer is there from  *)
(* the first repaint to the release; before and after, neither has effect. *)

HasPlayer == phase \in {"on", "leaving", "quitting", "abandoned"}

Go(t, to) == at' = [at EXCEPT ![t] = to]

\* An exception ends the timer for good; a job only ends itself.
Throw(t) == Go(t, IF t = "poller" THEN "dead" ELSE "idle")

\* MPlayerPoller.run.
Poll ==
    /\ at["poller"] = "idle" /\ HasPlayer
    /\ Go("poller", "test")
    /\ UNCHANGED <<repeat, phase, mplayerIn, processes, new, scheduled, failures,
                   history>>

\* Mutant: a new process for each poll.
FindsNone == TRUE

NoProcess == mplayerIn = None

\* getMPlayerIn: is there a process?
Test(t) ==
    /\ at[t] = "test"
    /\ Go(t, IF NoProcess THEN "start" ELSE "use")
    /\ UNCHANGED <<repeat, phase, mplayerIn, processes, new, scheduled, failures,
                   history>>

\* ... one is started, or not after an exception, which is logged ...
StartList(t) ==
    /\ at[t] = "start"
    /\ Start(FALSE)
    /\ new' = [new EXCEPT ![t] = Fresh]
    /\ Go(t, "track")
    /\ UNCHANGED <<repeat, phase, watched, scheduled, failures, early, overtaken>>

StartFails(t) ==
    /\ at[t] = "start" /\ failures < MaxFailures
    /\ Go(t, "idle")
    /\ failures' = failures + 1
    /\ UNCHANGED <<repeat, phase, mplayerIn, processes, new, scheduled, history>>

\* ... and tracked, the scheduled file of a job too.
Track(t) ==
    /\ at[t] = "track"
    /\ Watch(new[t])
    /\ IF status[new[t]] = "ended" THEN Throw(t)
       ELSE Go(t, IF t = "poller" THEN "use" ELSE "idle")
    /\ new' = [new EXCEPT ![t] = None]
    /\ UNCHANGED <<repeat, phase, mplayerIn, status, files, scheduled, failures,
                   overtaken, mistaken>>

\* mplayerIn is read again.  A poll writes to it, a job puts it back.
Use(t) ==
    /\ at[t] = "use"
    /\ IF mplayerIn = None /\ t = "poller" THEN Throw(t) ELSE Go(t, "idle")
    /\ UNCHANGED <<repeat, phase, mplayerIn, processes, new, scheduled, failures,
                   history>>

\* runResource: playFile, first the terminate in it.
RunResource ==
    /\ at["job"] = "idle" /\ HasPlayer
    /\ scheduled < MaxScheduled
    /\ scheduled' = scheduled + 1
    /\ Go("job", IF mplayerIn = None THEN "file" ELSE "quit")
    /\ UNCHANGED <<repeat, phase, mplayerIn, processes, new, failures, history>>

\* Mutant: a scheduled file is started next to the list.
QuitOnPaper ==
    /\ status' = status
    /\ mplayerIn' = None

\* The process is told to quit; one that is over cannot be told.
Quit ==
    /\ status' = [p \in Processes |->
                     IF p = mplayerIn /\ status[p] = "playing" THEN "told"
                     ELSE status[p]]
    /\ mplayerIn' = None

JobQuits ==
    /\ at["job"] = "quit"
    /\ IF mplayerIn = None
       THEN Throw("job") /\ UNCHANGED <<mplayerIn, status>>
       ELSE Quit /\ Go("job", "file")
    /\ UNCHANGED <<repeat, phase, files, watched, new, scheduled, failures,
                   history>>

\* createTempMPlayer; after an exception the list is resumed.
StartFile ==
    /\ at["job"] = "file"
    /\ Start(TRUE)
    /\ new' = [new EXCEPT !["job"] = Fresh]
    /\ Go("job", "track")
    /\ UNCHANGED <<repeat, phase, watched, scheduled, failures, early, overtaken>>

FileFails ==
    /\ at["job"] = "file" /\ failures < MaxFailures
    /\ Go("job", "test")
    /\ failures' = failures + 1
    /\ UNCHANGED <<repeat, phase, mplayerIn, processes, new, scheduled, history>>

-----------------------------------------------------------------------------
(* The thread of the Player.                                               *)

\* Mutant: each repaint makes an MPlayer.
RepaintAgain ==
    /\ phase \in {"init", "on"}
    /\ phase' = "starting"
    /\ Start(FALSE)
    /\ UNCHANGED <<repeat, watched, threads, scheduled, failures, early, overtaken>>

\* The first repaint: the MPlayer is not the component's until it is tracked.
Repaint ==
    /\ phase = "init"
    /\ phase' = "starting"
    /\ Start(FALSE)
    /\ UNCHANGED <<repeat, watched, threads, scheduled, failures, early, overtaken>>

\* ... If the process is over by then, an exception ends the layout.
Started ==
    /\ phase = "starting"
    /\ Watch(mplayerIn)
    /\ phase' = IF status[mplayerIn] = "ended" THEN "off" ELSE "on"
    /\ UNCHANGED <<repeat, mplayerIn, status, files, threads, scheduled, failures,
                   overtaken, mistaken>>

\* A list that is not repeated is over, and so is the layout.
Complete ==
    /\ phase = "on" /\ ~repeat /\ mplayerIn = None
    /\ phase' = "leaving"
    /\ UNCHANGED <<repeat, mplayerIn, processes, threads, scheduled, failures,
                   history>>

\* Another component, the monitor or the user ends the layout.
Leave ==
    /\ phase \in {"init", "on"}
    /\ phase' = IF phase = "init" THEN "off" ELSE "leaving"
    /\ UNCHANGED <<repeat, mplayerIn, processes, threads, scheduled, failures,
                   history>>

\* releaseResources: terminate, then the MPlayer is forgotten and the timer
\* cancelled.  The poll that runs goes on.
Released ==
    /\ phase' = "off"
    /\ overtaken' = (at["poller"] \in {"test", "start"})

ReleaseResources ==
    /\ phase = "leaving"
    /\ IF mplayerIn = None THEN Released
       ELSE phase' = "quitting" /\ UNCHANGED overtaken
    /\ UNCHANGED <<repeat, mplayerIn, processes, threads, scheduled, failures,
                   early, mistaken>>

\* Mutant: the process is forgotten, not told to quit.
TerminateQuietly ==
    /\ phase = "quitting"
    /\ IF mplayerIn = None
       THEN phase' = "abandoned" /\ UNCHANGED <<mplayerIn, overtaken>>
       ELSE mplayerIn' = None /\ Released
    /\ UNCHANGED <<repeat, processes, threads, scheduled, failures, early, mistaken>>

\* ... An exception there leaves the rest undone.
Terminate ==
    /\ phase = "quitting"
    /\ IF mplayerIn = None
       THEN phase' = "abandoned" /\ UNCHANGED <<mplayerIn, status, overtaken>>
       ELSE Quit /\ Released
    /\ UNCHANGED <<repeat, files, watched, threads, scheduled, failures, early, mistaken>>

-----------------------------------------------------------------------------
Process(p) == End(p) \/ Crash(p) \/ Obey(p) \/ ProcessFinished(p)

GetMPlayerIn(t) == Test(t) \/ StartList(t) \/ StartFails(t) \/ Track(t) \/ Use(t)

Poller == Poll \/ GetMPlayerIn("poller")

Job == GetMPlayerIn("job") \/ JobQuits \/ StartFile \/ FileFails

PlayerThread == Repaint \/ Started \/ Complete \/ ReleaseResources \/ Terminate

Next == \/ \E p \in Processes : Process(p)
        \/ Poller
        \/ RunResource \/ Job
        \/ PlayerThread
        \/ Leave

Spec == Init /\ [][Next]_vars

\* Threads go on and a process that was told to quit does; no video needs to
\* end, and nobody needs to schedule one or to end the layout.
FairSpec ==
    /\ Spec
    /\ WF_vars(Poller) /\ WF_vars(Job)
    /\ WF_vars(PlayerThread)
    /\ \A p \in Processes : WF_vars(Obey(p)) /\ WF_vars(ProcessFinished(p))

-----------------------------------------------------------------------------
(* Properties.                                                             *)

\* The types; what a thread tracks it has just started.
Types ==
    /\ repeat \in BOOLEAN
    /\ phase \in {"init", "starting", "on", "leaving", "quitting", "off",
                  "abandoned"}
    /\ mplayerIn \in Processes \cup {None}
    /\ phase = "starting" => mplayerIn # None
    /\ status \in [Processes -> {"none", "playing", "told", "ended"}]
    /\ files \subseteq Processes
    /\ watched \subseteq {p \in Processes : status[p] # "none"}
    /\ at["poller"] \in {"idle", "test", "start", "track", "use", "dead"}
    /\ at["job"] \in {"idle", "quit", "file", "test", "start", "track", "use"}
    /\ \A t \in Threads : IF at[t] = "track" THEN new[t] \in Processes
                          ELSE new[t] = None
    /\ scheduled \in 0..MaxScheduled /\ failures \in 0..MaxFailures
    /\ early \in BOOLEAN /\ overtaken \in BOOLEAN /\ mistaken \in BOOLEAN

\* Every variable has its type, and no thread ever lacks a process to start:
\* however processes are forgotten, there are few of them at once.
TypeOK == Types /\ Free # {}

\* Until a file is scheduled or the component is released, the process that
\* plays is the one mplayerIn writes to, however polls, ends and crashes fall
\* (getMPlayerIn, processFinished).
OneVideo == scheduled = 0 /\ phase # "off" => Playing \subseteq {mplayerIn}

\* A component that is released leaves no process behind that was not told to
\* quit, unless a file was scheduled or a poll was going on (releaseResources).
NothingLeft == phase = "off" /\ scheduled = 0 /\ ~overtaken => Playing = {}

\* A layout that stays on goes on playing: after a crash, and after a scheduled
\* file, as long as every process lives to see its detector and no exception
\* ends the timer (pollFullScreen, playFile).
Resumes ==
    <>[](phase = "on" /\ ~early /\ at["poller"] # "dead") => []<>(Playing # {})

\* A component whose playback is completed has no process that plays, with
\* scheduled files too, unless a process was forgotten for the end or the start
\* of another (isPlaybackCompleted, processFinished).
CompletedIsOver == phase = "on" /\ mplayerIn = None /\ ~mistaken => Playing = {}
=============================================================================
