--------------------------- MODULE PlayerSupervision ---------------------------
(***************************************************************************)
(* The bootstrap manager, seen from the player it supervises:              *)
(*                                                                         *)
(*   - the thread of the Manager, which tells the console now and then     *)
(*     whether the player runs and adds a screen dump to some of its       *)
(*     heartbeats;                                                         *)
(*   - the MessagePump, which restarts the player, reconfigures it and the *)
(*     manager, and reboots the machine;                                   *)
(*   - PlayerProcessHelper, also a shutdown hook of the JVM, and the       *)
(*     service wrapper that starts a JVM after the last one has gone;      *)
(*   - the player processes, each with a DeploymentConfigurer that reads   *)
(*     its standard input through a BufferedLineReader.                    *)
(*                                                                         *)
(* What ActionProtocol says of actions is not repeated here: a heartbeat   *)
(* that gets through brings at most one of them, which is as good as many  *)
(* since nothing has to happen between two heartbeats.                     *)
(*                                                                         *)
(* A line is one token and its line end two more.  How many characters a   *)
(* line has is left open, so a read of the 512 characters of a buffer may  *)
(* end anywhere in what there is to read.                                  *)
(***************************************************************************)
EXTENDS Integers, Sequences, FiniteSets

CONSTANTS Actions,       \* restarts, reconfigurations and reboots asked for
          Types,         \* the types of action each may have
          Settings,      \* the fields of the manager it sets
          Lines,         \* the lines it has for the player
          Malformed,     \* lines without a value, or without a bean
          NoAction,      \* the identifier of the restart a new pump begins with
          CR, LF,        \* the tokens of a line end
          Communication, \* communicationInterval of the configuration
          Screendump,    \* its screenDumpInterval
          Debug,         \* TRUE: com.kesdip logs debug messages
          MaxStarts,     \* a bound on the players that are started
          MaxFaults      \* a bound on what goes wrong, or just stops

Kinds == {"restart", "reconfigure", "reboot"}
Fields == {"communicationInterval", "screendumpInterval"}
Line == UNION {Lines[a] : a \in Actions}
Token == Line \cup {CR, LF}
Pids == 1 .. MaxStarts
NoProcess == 0

ASSUME ConstantsOK ==
    /\ NoAction \notin Actions
    /\ Types \in [Actions -> SUBSET Kinds]
    /\ Settings \in [Actions -> SUBSET [field : Fields, value : Int]]
    /\ \A a \in Actions : \A s \in Settings[a] :
          s.field = "screendumpInterval" => s.value \in Nat
    /\ DOMAIN Lines = Actions
    /\ Malformed \subseteq Line
    /\ CR # LF /\ CR \notin Line /\ LF \notin Line
    /\ Communication \in Nat \ {0} /\ Screendump \in Nat
    /\ Debug \in BOOLEAN
    /\ MaxStarts \in Nat /\ MaxFaults \in Nat

VARIABLES
    jvm,        \* of the manager: "running", "stopping", "down"
    queue,      \* MessagePump.messageQueue
    pc,         \* the pump: "idle", "processing", "killed", "started"
    message,    \* the message it handles
    rest,       \* what it has yet to do of a reconfiguration
    unsent,     \* what is in the buffer of Process.getOutputStream
    helper,     \* PlayerProcessHelper.playerProcess
    static,     \* RestartPlayerMessage.playerProcess
    interval,   \* the two intervals of the Manager
    ratio,      \* Manager.intervalsRatio
    beat,       \* its thread: "sleeping", "requesting", "dead"
    asAlive,    \* playerAlive, read for the heartbeat under way
    started,    \* how many players there have been
    alive,      \* those that run
    closed,     \* those whose standard input the manager has closed
    pipe,       \* what each has still to read
    deployed,   \* those with a deployment
    reader,     \* of each: "none", "reading", "ended"
    builder,    \* BufferedLineReader.stringBuilder of each
    status,     \* of each action, as the manager reports it
    told,       \* whether the player runs, as the console was told
    dumped,     \* whether the last heartbeat had a screen dump
    sent,       \* history: what was written to each player
    set,        \* history: the lines each has taken up
    ignored,    \* history: a line met a player without a deployment
    missed,     \* history: taskkill left a player running
    shrunk,     \* history: no screen dump fitted between two heartbeats
    faults      \* how much has gone wrong so far

pump == <<queue, pc, message, rest, unsent>>
process == <<helper, static>>
heart == <<interval, ratio, beat, asAlive, dumped, shrunk>>
input == <<closed, pipe, sent>>
player == <<deployed, reader, builder, set, ignored>>
console == <<status, told>>
vars == <<jvm, pump, process, heart, started, alive, input, player, console,
          missed, faults>>

Message == [kind : Kinds, action : Actions \cup {NoAction},
            process : Pids \cup {NoProcess}]

RestartPlayer(a) == [kind |-> "restart", action |-> a, process |-> NoProcess]
Nothing == [settings |-> {}, lines |-> {}]

\* Division of longs truncates.
Quotient(m, n) == IF n > 0 THEN m \div n ELSE -(m \div (-n))

IntervalsRatio ==
    Quotient(interval.screendumpInterval, interval.communicationInterval)
Configured == [communicationInterval |-> Communication,
               screendumpInterval |-> Screendump]

Init ==
    /\ jvm = "running"
    /\ queue = <<RestartPlayer(NoAction)>>
    /\ pc = "idle" /\ message = RestartPlayer(NoAction)
    /\ rest = Nothing /\ unsent = << >>
    /\ helper = NoProcess /\ static = NoProcess
    /\ interval = Configured
    /\ ratio = Quotient(Screendump, Communication)
    /\ beat = "sleeping" /\ asAlive = FALSE /\ dumped = FALSE
    /\ shrunk = (ratio < 1)
    /\ started = 0 /\ alive = {} /\ closed = {}
    /\ pipe = [p \in Pids |-> << >>] /\ sent = pipe
    /\ deployed = {}
    /\ reader = [p \in Pids |-> "none"]
    /\ builder = [p \in Pids |-> << >>]
    /\ set = [p \in Pids |-> << >>] /\ ignored = FALSE
    /\ status = [a \in Actions |-> "NONE"]
    /\ told = FALSE /\ missed = FALSE
    /\ faults = 0

Fault == faults < MaxFaults /\ faults' = faults + 1

\* What the processes in S had is gone with them.
Die(S) ==
    /\ alive' = alive \ S
    /\ deployed' = deployed \ S
    /\ pipe' = [p \in Pids |-> IF p \in S THEN << >> ELSE pipe[p]]
    /\ reader' = [p \in Pids |-> IF p \in S THEN "none" ELSE reader[p]]
    /\ builder' = [p \in Pids |-> IF p \in S THEN << >> ELSE builder[p]]
    /\ set' = [p \in Pids |-> IF p \in S THEN << >> ELSE set[p]]

\* taskkill is waited for, and its exit code ignored: it may have failed for
\* any of the players.
KillAllPlayers(stops) ==
    \E S \in SUBSET alive :
        /\ Die(alive \ S)
        /\ missed' = (missed \/ S # {})
        /\ faults' = faults + stops + (IF S = {} THEN 0 ELSE 1)
        /\ faults' <= MaxFaults

-----------------------------------------------------------------------------
(* The pump                                                                *)

Running == jvm # "down"

TakeMessage ==
    /\ Running /\ pc = "idle" /\ queue # << >>
    /\ message' = Head(queue) /\ queue' = Tail(queue)
    /\ rest' = IF message'.kind = "reconfigure"
                 THEN [settings |-> Settings[message'.action],
                       lines |-> Lines[message'.action]]
                 ELSE Nothing
    /\ pc' = "processing"
    /\ UNCHANGED <<jvm, unsent, process, heart, started, alive, input, player,
                   console, missed, faults>>

Handling(kind) == Running /\ pc = "processing" /\ message.kind = kind

\* The end of Message.handle; the pump lets go of the message.
Report(verdict) ==
    /\ pc' = "idle" /\ message' = RestartPlayer(NoAction)
    /\ status' = [a \in Actions |->
                     IF a = message.action THEN verdict ELSE status[a]]

\* Mutant: only the player that was started last is killed.
KillPlayersOfHelper ==
    /\ Handling("restart")
    /\ Die(alive \cap {helper})
    /\ pc' = "killed"
    /\ UNCHANGED <<jvm, queue, message, rest, unsent, process, heart, started,
                   closed, sent, ignored, console, missed, faults>>

KillPlayers ==
    /\ Handling("restart")
    /\ KillAllPlayers(0)
    /\ pc' = "killed"
    /\ UNCHANGED <<jvm, queue, message, rest, unsent, process, heart, started,
                   closed, sent, ignored, console>>

StartPlayer ==
    /\ Running /\ pc = "killed" /\ started < MaxStarts
    /\ started' = started + 1
    /\ alive' = alive \cup {started'}
    /\ helper' = started'
    /\ pc' = "started"
    /\ UNCHANGED <<jvm, queue, message, rest, unsent, static, heart, input,
                   player, console, missed, faults>>

StartFails ==
    /\ Running /\ pc = "killed" /\ Fault
    /\ Report("FAILED")
    /\ UNCHANGED <<jvm, queue, rest, unsent, process, heart, started,
                   alive, input, player, told, missed>>

\* The heartbeat thread may still find the last player between the two.
SetPlayerProcess ==
    /\ Running /\ pc = "started"
    /\ static' = helper
    /\ Report("OK")
    /\ UNCHANGED <<jvm, queue, rest, unsent, helper, heart, started,
                   alive, input, player, told, missed, faults>>

\* The parameters of an action are a set: they come in any order.
SetManagerField ==
    /\ Handling("reconfigure")
    /\ \E s \in rest.settings :
          /\ rest' = [rest EXCEPT !.settings = @ \ {s}]
          /\ interval' = [interval EXCEPT ![s.field] = s.value]
    /\ UNCHANGED <<jvm, queue, pc, message, unsent, process, ratio, beat,
                   asAlive, dumped, shrunk, started, alive, input, player,
                   console, missed, faults>>

PrintLine ==
    /\ Handling("reconfigure")
    /\ message.process # NoProcess
    /\ \E l \in rest.lines :
          /\ rest' = [rest EXCEPT !.lines = @ \ {l}]
          /\ unsent' = unsent \o <<l, CR, LF>>
    /\ UNCHANGED <<jvm, queue, pc, message, process, heart, started, alive,
                   input, player, console, missed, faults>>

\* A null pointer: there was no player when the message was queued.
PrintLineFails ==
    /\ Handling("reconfigure")
    /\ message.process = NoProcess /\ rest.lines # {}
    /\ rest' = Nothing
    /\ Report("FAILED")
    /\ UNCHANGED <<jvm, queue, unsent, process, heart, started, alive,
                   input, player, told, missed, faults>>

\* Closing flushes the buffer.  A PrintStream keeps it to itself if it cannot.
Reaches(p) == p \in alive \ closed

CloseInput ==
    /\ Handling("reconfigure") /\ rest = Nothing
    /\ LET p == message.process
           Write(f) == [f EXCEPT ![p] = @ \o unsent]
       IN IF Reaches(p) THEN pipe' = Write(pipe) /\ sent' = Write(sent)
                        ELSE UNCHANGED <<pipe, sent>>
    /\ closed' = closed \cup ({message.process} \ {NoProcess})
    /\ unsent' = << >>
    /\ Report("OK")
    /\ UNCHANGED <<jvm, queue, rest, process, heart, started, alive,
                   player, told, missed, faults>>

\* The machine is down ten seconds later: MachineRestarts.
Reboot ==
    /\ Handling("reboot")
    /\ Report("OK")
    /\ UNCHANGED <<jvm, queue, rest, unsent, process, heart, started,
                   alive, input, player, told, missed, faults>>

RebootFails ==
    /\ Handling("reboot") /\ Fault
    /\ Report("FAILED")
    /\ UNCHANGED <<jvm, queue, rest, unsent, process, heart, started,
                   alive, input, player, told, missed>>

Pump == TakeMessage \/ KillPlayers \/ StartPlayer \/ StartFails
            \/ SetPlayerProcess \/ SetManagerField \/ PrintLine
            \/ PrintLineFails \/ CloseInput \/ Reboot \/ RebootFails

-----------------------------------------------------------------------------
(* The thread of the Manager                                               *)

\* Mutant: it is there, so it runs.
IsPlayerKnown == helper # NoProcess

\* exitValue throws an exception for a process that runs; it is only called
\* for a debug message.
IsPlayerRunning == helper # NoProcess /\ Debug /\ helper \in alive

StartHeartbeat ==
    /\ Running /\ beat = "sleeping" /\ interval.communicationInterval >= 0
    /\ beat' = "requesting"
    /\ asAlive' = IsPlayerRunning
    /\ UNCHANGED <<jvm, pump, process, interval, ratio, dumped, shrunk, started,
                   alive, input, player, console, missed, faults>>

\* Thread.sleep throws what nothing catches.
ManagerDies ==
    /\ Running /\ beat = "sleeping" /\ interval.communicationInterval < 0
    /\ beat' = "dead"
    /\ UNCHANGED <<jvm, pump, process, interval, ratio, asAlive, dumped, shrunk,
                   started, alive, input, player, console, missed, faults>>

\* The counter goes on below zero; it is not followed there.
Decremented == IF ratio < 0 THEN ratio ELSE ratio - 1
IncludesScreendump == Decremented = 0
DividesByZero == IncludesScreendump /\ interval.communicationInterval = 0

\* Mutant: the heartbeat with the dump is counted as one without.
CountOnward ==
    IF IncludesScreendump /\ ~DividesByZero
      THEN /\ ratio' = IntervalsRatio - 1
           /\ shrunk' = (shrunk \/ IntervalsRatio < 1)
      ELSE ratio' = Decremented /\ shrunk' = (shrunk \/ IncludesScreendump)

\* What includeScreendump leaves behind.
Count ==
    /\ ratio' = IF IncludesScreendump /\ ~DividesByZero THEN IntervalsRatio
                ELSE Decremented
    /\ shrunk' = (shrunk \/ (IncludesScreendump /\ ratio' < 1))

\* handleResponse: a message takes the process there is when it is queued.
MessageFor(a, type) ==
    [kind |-> type, action |-> a,
     process |-> IF type = "reconfigure" THEN static ELSE NoProcess]

Receive ==
    \/ UNCHANGED <<queue, status>>
    \/ \E a \in Actions : \E type \in Types[a] :
          /\ status[a] = "NONE"
          /\ status' = [status EXCEPT ![a] = "SCHEDULED"]
          /\ queue' = Append(queue, MessageFor(a, type))

PerformRequest ==
    /\ Running /\ beat = "requesting" /\ ~DividesByZero
    /\ Count
    /\ beat' = "sleeping" /\ dumped' = IncludesScreendump
    /\ told' = asAlive /\ asAlive' = FALSE
    /\ Receive
    /\ UNCHANGED <<jvm, pc, message, rest, unsent, process, interval, started,
                   alive, input, player, missed, faults>>

\* The division, the screen dump or the connection fails: nothing is sent.
RequestFails ==
    /\ Running /\ beat = "requesting"
    /\ IF DividesByZero THEN UNCHANGED faults ELSE Fault
    /\ Count
    /\ beat' = "sleeping" /\ dumped' = FALSE /\ asAlive' = FALSE
    /\ UNCHANGED <<jvm, pump, process, interval, started, alive, input,
                   player, console, missed>>

Manager == StartHeartbeat \/ ManagerDies \/ PerformRequest \/ RequestFails

-----------------------------------------------------------------------------
(* The JVM of the manager and its shutdown hook, the service wrapper, the  *)
(* machine.                                                                *)

\* The pump goes on while the hook runs.
ShutdownHook ==
    /\ jvm = "running"
    /\ jvm' = "stopping"
    /\ KillAllPlayers(1)
    /\ UNCHANGED <<pump, process, heart, started, closed, sent, ignored, console>>

\* What the threads of the JVM had is gone; the players go on.
Halt ==
    /\ jvm' = "down"
    /\ queue' = << >> /\ pc' = "idle" /\ message' = RestartPlayer(NoAction)
    /\ rest' = Nothing /\ unsent' = << >>
    /\ helper' = NoProcess /\ static' = NoProcess
    /\ interval' = Configured /\ ratio' = IntervalsRatio'
    /\ shrunk' = (ratio' < 1)
    /\ beat' = "sleeping" /\ asAlive' = FALSE /\ dumped' = FALSE
    /\ UNCHANGED <<started, told, sent, ignored>>

Stop ==
    /\ jvm = "stopping"
    /\ Halt
    /\ UNCHANGED <<alive, closed, pipe, deployed, reader, builder, set, status,
                   missed, faults>>

Crash ==
    /\ jvm = "running" /\ Fault
    /\ Halt
    /\ UNCHANGED <<alive, closed, pipe, deployed, reader, builder, set, status,
                   missed>>

MachineRestarts ==
    /\ Fault
    /\ Die(alive)
    /\ Halt
    /\ UNCHANGED <<closed, status, missed>>

\* Mutant: a new pump leaves the player alone.
BootOnly ==
    /\ jvm = "down"
    /\ jvm' = "running"
    /\ UNCHANGED <<pump, process, heart, started, alive, input, player, console,
                   missed, faults>>

\* wrapper.on_exit.default=RESTART
Boot ==
    /\ jvm = "down"
    /\ jvm' = "running"
    /\ queue' = <<RestartPlayer(NoAction)>>
    /\ UNCHANGED <<pc, message, rest, unsent, process, heart, started, alive,
                   input, player, console, missed, faults>>

-----------------------------------------------------------------------------
(* The players                                                             *)

Ends(p) ==
    /\ p \in alive /\ Fault
    /\ Die({p})
    /\ UNCHANGED <<jvm, pump, process, heart, started, closed, sent, ignored,
                   console, missed>>

StartDeployment(p) ==
    /\ p \in alive \ deployed
    /\ deployed' = deployed \cup {p}
    /\ UNCHANGED <<jvm, pump, process, heart, started, alive, input, reader,
                   builder, set, ignored, console, missed, faults>>

\* Player.run waits for the first deployment.
StartConfigurer(p) ==
    /\ p \in alive \cap deployed /\ reader[p] = "none"
    /\ reader' = [reader EXCEPT ![p] = "reading"]
    /\ UNCHANGED <<jvm, pump, process, heart, started, alive, input, deployed,
                   builder, set, ignored, console, missed, faults>>

\* Mutant: what is left of a buffer takes the place of what was left before.
ReadPartOnly(p, n) ==
    /\ \A i \in 1 .. n : pipe[p][i] # LF
    /\ builder' = [builder EXCEPT ![p] = SubSeq(pipe[p], 1, n)]
    /\ UNCHANGED <<reader, set, ignored>>

\* A read with many line ends is as good as one for each of them: only the
\* first of its characters may be a line end that has lost its CR.
ReadPart(p, n) ==
    /\ \A i \in 1 .. n : pipe[p][i] # LF
    /\ builder' = [builder EXCEPT ![p] = @ \o SubSeq(pipe[p], 1, n)]
    /\ UNCHANGED <<reader, set, ignored>>

LineEnd(p, n) == IF n > 1 /\ pipe[p][n - 1] = CR THEN n - 2 ELSE n - 1

\* Mutant: there is no loop around it.
ReadLineOnce(p, n) ==
    /\ pipe[p][n] = LF /\ \A i \in 1 .. n - 1 : pipe[p][i] # LF
    /\ set' = [set EXCEPT ![p] =
                  Append(@, builder[p] \o SubSeq(pipe[p], 1, LineEnd(p, n)))]
    /\ reader' = [reader EXCEPT ![p] = "ended"]
    /\ builder' = [builder EXCEPT ![p] = << >>]
    /\ UNCHANGED ignored

\* notifyListeners, and the configurer's processLine, which has to find a
\* deployment and throws an exception for a malformed line.
ReadLine(p, n) ==
    /\ pipe[p][n] = LF /\ \A i \in 1 .. n - 1 : pipe[p][i] # LF
    /\ LET line == builder[p] \o SubSeq(pipe[p], 1, LineEnd(p, n))
       IN IF p \notin deployed
            THEN ignored' = TRUE /\ UNCHANGED <<reader, set>>
            ELSE /\ UNCHANGED ignored
                 /\ set' = [set EXCEPT ![p] = Append(@, line)]
                 /\ reader' = IF line[1] \in Malformed
                                THEN [reader EXCEPT ![p] = "ended"] ELSE reader
    /\ builder' = [builder EXCEPT ![p] = << >>]

Read(p) ==
    /\ p \in alive /\ reader[p] = "reading"
    /\ \E n \in 1 .. Len(pipe[p]) :
          /\ ReadPart(p, n) \/ ReadLine(p, n)
          /\ pipe' = [pipe EXCEPT ![p] = SubSeq(@, n + 1, Len(@))]
    /\ UNCHANGED <<jvm, pump, process, heart, started, alive, closed, sent,
                   deployed, console, missed, faults>>

Next == \/ Pump \/ Manager
        \/ ShutdownHook \/ Stop \/ Crash \/ MachineRestarts \/ Boot
        \/ \E p \in Pids : \/ Ends(p) \/ StartDeployment(p)
                           \/ StartConfigurer(p) \/ Read(p)

Spec == Init /\ [][Next]_vars

\* Threads that are not blocked run on; the wrapper starts the JVM again.
\* Nothing says that a player ends, or ever has a deployment.
Fairness == /\ WF_vars(Pump) /\ WF_vars(Manager)
            /\ WF_vars(Stop) /\ WF_vars(Boot)
            /\ \A p \in Pids : WF_vars(StartConfigurer(p)) /\ WF_vars(Read(p))

FairSpec == Spec /\ Fairness

-----------------------------------------------------------------------------
(* Properties                                                              *)

\* The types, and: a line end separates lines, it is never part of one that
\* BufferedLineReader collects or hands on.
TypeOK ==
    /\ jvm \in {"running", "stopping", "down"}
    /\ queue \in Seq(Message) /\ message \in Message
    /\ pc \in {"idle", "processing", "killed", "started"}
    /\ rest \in [settings : SUBSET [field : Fields, value : Int],
                 lines : SUBSET Line]
    /\ unsent \in Seq(Token)
    /\ started \in 0 .. MaxStarts /\ alive \subseteq 1 .. started
    /\ helper \in 0 .. started /\ static \in 0 .. started
    /\ interval \in [Fields -> Int] /\ ratio \in Int
    /\ beat \in {"sleeping", "requesting", "dead"}
    /\ asAlive \in BOOLEAN /\ told \in BOOLEAN /\ dumped \in BOOLEAN
    /\ closed \subseteq Pids /\ deployed \subseteq alive
    /\ pipe \in [Pids -> Seq(Token)] /\ sent \in [Pids -> Seq(Token)]
    /\ reader \in [Pids -> {"none", "reading", "ended"}]
    /\ builder \in [Pids -> Seq(Line \cup {CR})]
    /\ set \in [Pids -> Seq(Seq(Line \cup {CR}))]
    /\ status \in [Actions -> {"NONE", "SCHEDULED", "OK", "FAILED"}]
    /\ ignored \in BOOLEAN /\ missed \in BOOLEAN /\ shrunk \in BOOLEAN
    /\ faults \in 0 .. MaxFaults

\* Two players never share the screen, whatever stops or is started again in
\* between, unless taskkill left one running (RestartPlayerMessage.process,
\* killAllPlayers).
OnePlayer == ~missed => \A p, q \in alive : p = q

FirstRestart(m) == m = RestartPlayer(NoAction)
FirstRestartPending ==
    \/ \E i \in DOMAIN queue : FirstRestart(queue[i])
    \/ pc = "processing" /\ FirstRestart(message)

\* Once the first message of a manager has found its players, the one that
\* runs is the one whose end the heartbeat would see, and whose input a
\* reconfiguration would get: a player that outlived another manager, or was
\* started while its shutdown hook had already run, does not go unnoticed.
KnownPlayer ==
    ~missed /\ jvm # "down" /\ ~FirstRestartPending =>
        /\ alive \subseteq {helper}
        /\ pc # "started" => static = helper

\* A DeploymentConfigurer never reads a line before there is a deployment to
\* set it in.
NoneTooEarly == ~ignored

\* The lines a player takes up are those written to it, one by one and in
\* their order, however they fall into buffers (BufferedLineReader.read); the
\* CR of a line end may stay behind, when the buffer ends after it.  None of
\* them meets a player without a deployment.
LinesWhole ==
    /\ NoneTooEarly
    /\ \A p \in alive : \A i \in DOMAIN set[p] :
           /\ 3 * i <= Len(sent[p])
           /\ LET line == sent[p][3 * i - 2]
              IN set[p][i] \in {<<line>>, <<line, CR>>}

EndedByLine(p) == \E i \in DOMAIN set[p] : set[p][i][1] \in Malformed

\* What is written to a player with a deployment is read to its end, unless
\* the player ends or a malformed line stops its DeploymentConfigurer.
WrittenIsRead ==
    \A p \in Pids :
        p \in deployed /\ pipe[p] # << >>
            ~> pipe[p] = << >> \/ p \notin alive \/ EndedByLine(p)

Beating == jvm # "down" /\ beat # "dead"

\* If a player goes on running, the console is told so for good, and if none
\* runs any more it is told that (isPlayerRunning, ProtocolHandler): while the
\* heartbeat thread is there and com.kesdip logs debug messages.
StatusIsTold ==
    \A b \in BOOLEAN :
        <>[](Beating /\ ~missed /\ b = (alive # {})) => <>[](told = b)

\* Screen dumps go on, unless the heartbeat thread has died or, when one was
\* due, the intervals set by then had no room for another (includeScreendump).
DumpsGoOn == []<>dumped \/ <>[](beat = "dead" \/ shrunk)

\* ReconfigureMessage, 30-41: what is for the player "is passed to the Player
\* process via command-line".  The code closes the player's input after every
\* message: what the second one reports as OK is lost.
OKReaches ==
    \A a \in Actions : status[a] = "OK" /\ "reconfigure" \in Types[a] =>
        \A l \in Lines[a] : \E p \in Pids : \E i \in DOMAIN sent[p] : sent[p][i] = l
=============================================================================
