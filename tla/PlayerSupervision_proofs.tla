---------------------- MODULE PlayerSupervision_proofs ----------------------
(***************************************************************************)
(* One player runs and its manager knows it, and the lines written to a    *)
(* player are taken up whole and in order, by a player with a deployment:  *)
(* for any actions, lines, players and faults.                             *)
(***************************************************************************)
EXTENDS PlayerSupervision, TLAPS

-----------------------------------------------------------------------------
(* A player is only started when taskkill has left none, and a manager     *)
(* begins with a restart.                                                  *)

\* The types the invariants need.
Typed ==
    /\ queue \in Seq(Message) /\ message \in Message
    /\ missed \in BOOLEAN
    /\ started \in Nat
    /\ {helper, static} \subseteq Pids \cup {NoProcess}

Known ==
    /\ pc # "started" => static = helper
    /\ ~missed /\ pc = "killed" => alive = {}
    /\ ~missed /\ jvm # "down" /\ ~FirstRestartPending => alive \subseteq {helper}

PInv == Typed /\ Known /\ OnePlayer

LEMMA FirstIsMessage == RestartPlayer(NoAction) \in Message
BY DEF RestartPlayer, Message, Kinds

LEMMA PInitially == Init => PInv
<1> SUFFICES ASSUME Init PROVE PInv
  OBVIOUS
<1>1. missed \in BOOLEAN
  BY Zenon DEF Init
<1>2. Typed
  BY <1>1, FirstIsMessage DEF Init, Typed
<1> QED
  BY <1>2 DEF Init, PInv, Known, OnePlayer

\* Whoever stops the players has either stopped them all or missed one.
LEMMA KilledOrMissed ==
  ASSUME Typed, NEW n, KillAllPlayers(n)
  PROVE  missed' \in BOOLEAN /\ (~missed' => alive' = {} /\ ~missed)
<1> PICK S \in SUBSET alive : Die(alive \ S) /\ missed' = (missed \/ S # {})
  BY DEF KillAllPlayers
<1>1. alive' = S
  BY DEF Die
<1>2. missed' \in BOOLEAN /\ (~missed' => S = {} /\ ~missed)
  BY Zenon DEF Typed
<1> QED
  BY <1>1, <1>2

LEMMA PumpKnows == ASSUME PInv, Pump PROVE PInv'
<1> USE DEF PInv
<1>1. CASE TakeMessage
  <2>1. /\ jvm # "down" /\ pc = "idle" /\ pc' = "processing" /\ queue # << >>
        /\ message' = Head(queue) /\ queue' = Tail(queue)
        /\ UNCHANGED <<jvm, helper, static, alive, missed>>
    BY <1>1 DEF TakeMessage, Running, process
  <2>2. message' \in Message /\ queue' \in Seq(Message)
    BY <2>1 DEF Typed
  <2>3. FirstRestartPending => FirstRestartPending'
    <3>1. ASSUME NEW i \in DOMAIN queue, FirstRestart(queue[i]), i # 1
          PROVE  i - 1 \in DOMAIN queue' /\ queue'[i - 1] = queue[i]
      BY <2>1, <3>1 DEF Typed
    <3>2. message' = queue[1]
      BY <2>1 DEF Typed
    <3> QED
      BY <2>1, <3>1, <3>2 DEF FirstRestartPending, FirstRestart, RestartPlayer
  <2> QED
    BY <1>1, <2>1, <2>2, <2>3 DEF TakeMessage, Typed, Known, OnePlayer
<1>2. CASE KillPlayers
  <2>1. /\ pc' = "killed" /\ pc = "processing"
        /\ UNCHANGED <<jvm, queue, message, helper, static, started>>
    BY <1>2 DEF KillPlayers, Handling, process
  <2>2. missed' \in BOOLEAN /\ (~missed' => alive' = {})
    BY <1>2, KilledOrMissed DEF KillPlayers
  <2> QED
    BY <2>1, <2>2 DEF Typed, Known, OnePlayer
<1>3. CASE StartPlayer
  <2>1. /\ pc = "killed" /\ pc' = "started"
        /\ alive' = alive \cup {helper'}
        /\ started' = started + 1 /\ started < MaxStarts /\ helper' = started'
        /\ UNCHANGED <<jvm, queue, message, static, missed>>
    BY <1>3 DEF StartPlayer
  <2>2. ~missed' => alive' = {helper'}
    BY <2>1 DEF Known
  <2>3. helper' \in Pids
    BY <2>1, ConstantsOK DEF Typed, Pids
  <2> QED
    BY <2>1, <2>2, <2>3 DEF Typed, Known, OnePlayer
<1>4. CASE StartFails \/ SetPlayerProcess
  <2>1. /\ jvm # "down"
        /\ pc \in {"killed", "started"} /\ pc' = "idle"
        /\ message' = RestartPlayer(NoAction)
        /\ pc = "started" => static' = helper
        /\ pc = "killed" => static' = static
        /\ UNCHANGED <<jvm, queue, helper, alive, missed, started>>
    BY <1>4 DEF StartFails, SetPlayerProcess, Report, Running, process
  <2>2. FirstRestartPending => FirstRestartPending'
    BY <2>1 DEF FirstRestartPending
  <2> QED
    BY <2>1, <2>2, FirstIsMessage DEF Typed, Known, OnePlayer
<1>5. CASE SetManagerField \/ PrintLine
  BY <1>5 DEF SetManagerField, PrintLine, Typed, Known, OnePlayer, process,
              FirstRestartPending
<1>6. CASE PrintLineFails \/ CloseInput \/ Reboot \/ RebootFails
  <2>1. /\ pc = "processing" /\ pc' = "idle" /\ message.kind # "restart"
        /\ message' = RestartPlayer(NoAction)
        /\ UNCHANGED <<jvm, queue, helper, static, alive, missed, started>>
    BY <1>6 DEF PrintLineFails, CloseInput, Reboot, RebootFails, Handling, Report,
                process
  <2>2. FirstRestartPending => FirstRestartPending'
    BY <2>1 DEF FirstRestartPending, FirstRestart, RestartPlayer
  <2> QED
    BY <2>1, <2>2, FirstIsMessage DEF Typed, Known, OnePlayer
<1> QED
  BY <1>1, <1>2, <1>3, <1>4, <1>5, <1>6 DEF Pump

\* A manager that is gone knows nothing, and the next one begins anew.
LEMMA HaltKnows ==
  ASSUME PInv, Halt, alive' \subseteq alive, missed' = missed
  PROVE  PInv'
<1>1. Typed'
  BY FirstIsMessage DEF Halt, PInv, Typed
<1> QED
  BY <1>1 DEF Halt, PInv, Known, OnePlayer

LEMMA OthersKnow ==
  ASSUME PInv,
         \/ Manager
         \/ ShutdownHook \/ Stop \/ Crash \/ MachineRestarts \/ Boot
         \/ \E p \in Pids : \/ Ends(p) \/ StartDeployment(p)
                            \/ StartConfigurer(p) \/ Read(p)
         \/ UNCHANGED vars
  PROVE  PInv'
<1> USE DEF PInv
<1>1. CASE UNCHANGED <<jvm, queue, pc, message, helper, static, started, alive, missed>>
  BY <1>1 DEF Typed, Known, OnePlayer, FirstRestartPending
<1>2. CASE PerformRequest
  <2>1. UNCHANGED <<jvm, pc, message, helper, static, started, alive, missed>>
    BY <1>2 DEF PerformRequest, process
  <2>2. ASSUME NEW a \in Actions, NEW type \in Types[a]
        PROVE  MessageFor(a, type) \in Message
    BY <2>2, ConstantsOK DEF MessageFor, Message, Typed
  <2>3. \/ queue' = queue
        \/ \E m \in Message : queue' = Append(queue, m)
    BY <1>2, <2>2 DEF PerformRequest, Receive
  <2>4. /\ queue' \in Seq(Message)
        /\ \A i \in DOMAIN queue : i \in DOMAIN queue' /\ queue'[i] = queue[i]
    BY <2>3 DEF Typed
  <2>5. FirstRestartPending => FirstRestartPending'
    BY <2>1, <2>4 DEF FirstRestartPending
  <2> QED
    BY <2>1, <2>4, <2>5 DEF Typed, Known, OnePlayer
<1>3. CASE ShutdownHook
  <2>1. /\ jvm # "down"
        /\ UNCHANGED <<queue, pc, message, helper, static, started>>
    BY <1>3 DEF ShutdownHook, pump, process
  <2>2. missed' \in BOOLEAN /\ (~missed' => alive' = {} /\ ~missed)
    BY <1>3, KilledOrMissed DEF ShutdownHook
  <2> QED
    BY <2>1, <2>2 DEF Typed, Known, OnePlayer, FirstRestartPending
<1>4. CASE Stop \/ Crash \/ MachineRestarts
  <2>1. Halt /\ missed' = missed /\ alive' \subseteq alive
    BY <1>4 DEF Stop, Crash, MachineRestarts, Die
  <2> QED
    BY <2>1, HaltKnows
<1>5. CASE Boot
  <2>1. /\ queue' = <<RestartPlayer(NoAction)>>
        /\ UNCHANGED <<pc, message, helper, static, started, alive, missed>>
    BY <1>5 DEF Boot, process
  <2>2. FirstRestartPending' /\ queue' \in Seq(Message)
    <3>1. 1 \in DOMAIN queue' /\ queue'[1] = RestartPlayer(NoAction)
      BY <2>1
    <3> QED
      BY <2>1, <3>1, FirstIsMessage DEF FirstRestartPending, FirstRestart
  <2> QED
    BY <2>1, <2>2 DEF Typed, Known, OnePlayer
<1>6. ASSUME NEW p \in Pids, Ends(p)
      PROVE  PInv'
  <2>1. /\ alive' \subseteq alive
        /\ UNCHANGED <<jvm, queue, pc, message, helper, static, started, missed>>
    BY <1>6 DEF Ends, Die, pump, process
  <2> QED
    BY <2>1 DEF Typed, Known, OnePlayer, FirstRestartPending
<1>7. ASSUME NEW p \in Pids, StartDeployment(p) \/ StartConfigurer(p) \/ Read(p)
      PROVE  UNCHANGED <<jvm, queue, pc, message, helper, static, started, alive,
                         missed>>
  BY <1>7 DEF StartDeployment, StartConfigurer, Read, pump, process
<1>8. ASSUME StartHeartbeat \/ ManagerDies \/ RequestFails \/ UNCHANGED vars
      PROVE  UNCHANGED <<jvm, queue, pc, message, helper, static, started, alive,
                         missed>>
  BY <1>8 DEF StartHeartbeat, ManagerDies, RequestFails, vars, pump, process
<1> QED
  BY <1>1, <1>2, <1>3, <1>4, <1>5, <1>6, <1>7, <1>8 DEF Manager

LEMMA PAlways == Spec => []PInv
<1>1. PInv /\ [Next]_vars => PInv'
  BY PumpKnows, OthersKnow DEF Next
<1> QED
  BY PInitially, <1>1, PTL DEF Spec

\* No two players share the screen, whatever the manager, its wrapper, the
\* machine and the players do, unless taskkill has left one running
\* (killAllPlayers, RestartPlayerMessage.process).
THEOREM OnePlayerCorrect == Spec => []OnePlayer
BY PAlways, PTL DEF PInv

\* The player that runs is the one its manager would tell the console about, as
\* soon as the first restart has begun; so is the one it would reconfigure
\* (PlayerProcessHelper.startPlayer, RestartPlayerMessage.process).
THEOREM KnownCorrect == Spec => []KnownPlayer
<1>1. PInv => KnownPlayer
  BY DEF PInv, Known, KnownPlayer
<1> QED
  BY PAlways, <1>1, PTL

-----------------------------------------------------------------------------
(* Lines are read by players with a deployment only: the reader starts     *)
(* after it and neither outlives the process.                              *)

Reading ==
    /\ ~ignored
    /\ reader \in [Pids -> {"none", "reading", "ended"}]
    /\ \A p \in Pids : reader[p] = "reading" => p \in deployed

LEMMA ReadingStep == Reading /\ [Next]_vars => Reading'
<1> SUFFICES ASSUME Reading, [Next]_vars
             PROVE  Reading'
  OBVIOUS
<1>1. ASSUME NEW S, Die(S), ignored' = ignored
      PROVE  Reading'
  BY <1>1 DEF Die, Reading
<1>2. CASE UNCHANGED <<reader, deployed, ignored>>
  BY <1>2 DEF Reading
<1>3. CASE Pump
  <2>1. CASE KillPlayers
    BY <1>1, <2>1 DEF KillPlayers, KillAllPlayers
  <2> QED
    BY <1>2, <1>3, <2>1 DEF Pump, TakeMessage, StartPlayer, StartFails,
       SetPlayerProcess, SetManagerField, PrintLine, PrintLineFails, CloseInput,
       Reboot, RebootFails, player
<1>4. CASE Manager \/ UNCHANGED vars
  BY <1>2, <1>4 DEF Manager, StartHeartbeat, ManagerDies, PerformRequest,
                    RequestFails, player, vars
<1>5. CASE ShutdownHook
  BY <1>1, <1>5 DEF ShutdownHook, KillAllPlayers
<1>6. CASE Stop \/ Crash \/ Boot
  BY <1>2, <1>6 DEF Stop, Crash, Boot, Halt, player
<1>7. CASE MachineRestarts
  BY <1>1, <1>7 DEF MachineRestarts, Halt
<1>8. ASSUME NEW p \in Pids, Ends(p)
      PROVE  Reading'
  BY <1>1, <1>8 DEF Ends
<1>9. ASSUME NEW p \in Pids, StartDeployment(p) \/ StartConfigurer(p)
      PROVE  Reading'
  BY <1>9 DEF StartDeployment, StartConfigurer, Reading
<1>10. ASSUME NEW p \in Pids, Read(p)
       PROVE  Reading'
  <2>1. /\ reader[p] = "reading" /\ deployed' = deployed
        /\ \E n \in 1 .. Len(pipe[p]) : ReadPart(p, n) \/ ReadLine(p, n)
    BY <1>10 DEF Read
  <2>2. /\ ignored' = ignored
        /\ reader' \in {reader, [reader EXCEPT ![p] = "ended"]}
    BY <2>1 DEF ReadPart, ReadLine, Reading
  <2> QED
    BY <2>1, <2>2 DEF Reading
<1> QED
  BY <1>3, <1>4, <1>5, <1>6, <1>7, <1>8, <1>9, <1>10 DEF Next

\* No line written to a player meets it without a deployment, which would lose
\* the line (DeploymentConfigurer, Player.run).
THEOREM NotTooEarly == Spec => []NoneTooEarly
<1>1. Init => Reading
  <2>1. Init => ~ignored
    BY Zenon DEF Init
  <2> QED
    BY <2>1 DEF Init, Reading
<1>2. Reading => NoneTooEarly
  BY DEF Reading, NoneTooEarly
<1> QED
  BY <1>1, <1>2, ReadingStep, PTL DEF Spec

-----------------------------------------------------------------------------
(* The types.                                                              *)

\* A reconfiguration in the queue is one of an action.
Proper == {m \in Message : m.kind = "reconfigure" => m.action \in Actions}

PumpTyped ==
    /\ jvm \in {"running", "stopping", "down"}
    /\ queue \in Seq(Proper) /\ message \in Proper
    /\ pc \in {"idle", "processing", "killed", "started"}
    /\ rest \in [settings : SUBSET [field : Fields, value : Int],
                 lines : SUBSET Line]
    /\ unsent \in Seq(Token)
    /\ status \in [Actions -> {"NONE", "SCHEDULED", "OK", "FAILED"}]

PlayersTyped ==
    /\ started \in 0 .. MaxStarts /\ alive \subseteq 1 .. started
    /\ helper \in 0 .. started /\ static \in 0 .. started
    /\ missed \in BOOLEAN
    /\ faults \in 0 .. MaxFaults

HeartTyped ==
    /\ interval \in [Fields -> Int] /\ ratio \in Int
    /\ beat \in {"sleeping", "requesting", "dead"}
    /\ asAlive \in BOOLEAN /\ told \in BOOLEAN /\ dumped \in BOOLEAN
    /\ shrunk \in BOOLEAN

InputTyped ==
    /\ closed \subseteq Pids /\ deployed \subseteq alive
    /\ pipe \in [Pids -> Seq(Token)] /\ sent \in [Pids -> Seq(Token)]
    /\ reader \in [Pids -> {"none", "reading", "ended"}]
    /\ builder \in [Pids -> Seq(Line \cup {CR})]
    /\ set \in [Pids -> Seq(Seq(Line \cup {CR}))]
    /\ ignored \in BOOLEAN

TInv == PumpTyped /\ PlayersTyped /\ HeartTyped /\ InputTyped

LEMMA FirstIsProper == RestartPlayer(NoAction) \in Proper
BY DEF RestartPlayer, Proper, Message, Kinds

LEMMA QuotientIsInt ==
    ASSUME NEW m \in Int, NEW n \in Int, n # 0
    PROVE  Quotient(m, n) \in Int
BY DEF Quotient

LEMMA TInit == Init => TInv
<1> SUFFICES ASSUME Init PROVE TInv
  OBVIOUS
<1>1. PumpTyped
  BY FirstIsProper DEF Init, PumpTyped, Nothing
<1>2. PlayersTyped
  <2>1. missed \in BOOLEAN
    BY Zenon DEF Init
  <2> QED
    BY <2>1, ConstantsOK DEF Init, PlayersTyped, NoProcess
<1>3. HeartTyped
  <2>1. asAlive \in BOOLEAN /\ told \in BOOLEAN /\ dumped \in BOOLEAN
    BY Zenon DEF Init
  <2>2. ratio \in Int /\ shrunk \in BOOLEAN
    <3>1. ratio \in Int
      BY QuotientIsInt, ConstantsOK DEF Init
    <3>2. (ratio < 1) \in BOOLEAN
      OBVIOUS
    <3>3. shrunk \in BOOLEAN
      BY <3>2, Zenon DEF Init
    <3> QED
      BY <3>1, <3>3
  <2> QED
    BY <2>1, <2>2, ConstantsOK DEF Init, HeartTyped, Configured, Fields
<1>4. InputTyped
  <2>1. ignored \in BOOLEAN
    BY Zenon DEF Init
  <2> QED
    BY <2>1 DEF Init, InputTyped
<1> QED
  BY <1>1, <1>2, <1>3, <1>4 DEF TInv

\* The end of a message.
LEMMA ReportTyped ==
    ASSUME PumpTyped, NEW v \in {"OK", "FAILED"}, Report(v),
           UNCHANGED <<jvm, queue>>, rest' \in {rest, Nothing},
           unsent' \in {unsent, << >>}
    PROVE  PumpTyped'
<1>1. status' \in [Actions -> {"NONE", "SCHEDULED", "OK", "FAILED"}]
  BY DEF PumpTyped, Report
<1>2. /\ rest' \in [settings : SUBSET [field : Fields, value : Int],
                   lines : SUBSET Line]
      /\ unsent' \in Seq(Token)
  <2>1. Nothing \in [settings : SUBSET [field : Fields, value : Int],
                    lines : SUBSET Line]
    BY DEF Nothing
  <2>2. << >> \in Seq(Token)
    OBVIOUS
  <2>3. /\ rest \in [settings : SUBSET [field : Fields, value : Int],
                    lines : SUBSET Line]
        /\ unsent \in Seq(Token)
    BY DEF PumpTyped
  <2> QED
    BY <2>1, <2>2, <2>3, Zenon
<1> QED
  BY <1>1, <1>2, FirstIsProper DEF PumpTyped, Report

LEMMA HaltTyped ==
    ASSUME TInv, Halt, status' = status
    PROVE  PumpTyped' /\ HeartTyped'
<1>1. PumpTyped'
  BY FirstIsProper DEF Halt, TInv, PumpTyped, Nothing
<1>2. HeartTyped'
  <2>1. interval' \in [Fields -> Int]
    BY ConstantsOK DEF Halt, Configured, Fields
  <2>2. ratio' \in Int
    <3>1. ratio' = Quotient(Screendump, Communication)
      BY DEF Halt, IntervalsRatio, Configured
    <3> QED
      BY <3>1, QuotientIsInt, ConstantsOK
  <2>3. shrunk' \in BOOLEAN /\ asAlive' \in BOOLEAN /\ dumped' \in BOOLEAN
    <3>1. (ratio' < 1) \in BOOLEAN
      OBVIOUS
    <3> QED
      BY <3>1, Zenon DEF Halt
  <2> QED
    BY <2>1, <2>2, <2>3 DEF Halt, TInv, HeartTyped
<1> QED
  BY <1>1, <1>2

\* What the players that are gone had.
LEMMA DieTyped ==
    ASSUME TInv, NEW S, Die(S), UNCHANGED <<closed, sent, ignored>>
    PROVE  InputTyped' /\ alive' \subseteq alive
BY DEF Die, TInv, InputTyped

LEMMA KillTyped ==
    ASSUME TInv, NEW n \in Nat, KillAllPlayers(n),
           UNCHANGED <<closed, sent, ignored, started, helper, static>>
    PROVE  InputTyped' /\ PlayersTyped'
<1>1. PICK S \in SUBSET alive :
        /\ Die(alive \ S)
        /\ missed' = (missed \/ S # {})
        /\ faults' = faults + n + (IF S = {} THEN 0 ELSE 1)
        /\ faults' <= MaxFaults
  BY DEF KillAllPlayers
<1>2. InputTyped' /\ alive' \subseteq alive
  BY <1>1, DieTyped
<1>3. missed' \in BOOLEAN
  BY <1>1, Zenon
<1>4. faults' \in 0 .. MaxFaults
  BY <1>1, ConstantsOK DEF TInv, PlayersTyped
<1> QED
  BY <1>2, <1>3, <1>4 DEF TInv, PlayersTyped

LEMMA FaultTyped ==
    ASSUME TInv, Fault PROVE faults' \in 0 .. MaxFaults
BY ConstantsOK DEF TInv, PlayersTyped, Fault

LEMMA PumpKeepsTypes == ASSUME TInv, Pump PROVE TInv'
<1>1. CASE TakeMessage
  <2>1. /\ pc' = "processing" /\ queue # << >>
        /\ message' = Head(queue) /\ queue' = Tail(queue)
        /\ UNCHANGED <<jvm, unsent, status>>
    BY <1>1 DEF TakeMessage, console
  <2>2. message' \in Proper /\ queue' \in Seq(Proper)
    BY <2>1 DEF TInv, PumpTyped
  <2>3. rest' \in [settings : SUBSET [field : Fields, value : Int],
                   lines : SUBSET Line]
    <3>1. CASE message'.kind = "reconfigure"
      <4>1. message'.action \in Actions
        BY <2>2, <3>1 DEF Proper
      <4>2. /\ Settings[message'.action] \in SUBSET [field : Fields, value : Int]
            /\ Lines[message'.action] \in SUBSET Line
        BY <4>1, ConstantsOK DEF Line
      <4> QED
        BY <1>1, <3>1, <4>2 DEF TakeMessage
    <3>2. CASE message'.kind # "reconfigure"
      BY <1>1, <3>2 DEF TakeMessage, Nothing
    <3> QED
      BY <3>1, <3>2
  <2>4. PumpTyped'
    BY <2>1, <2>2, <2>3 DEF TInv, PumpTyped
  <2>5. PlayersTyped' /\ HeartTyped' /\ InputTyped'
    BY <1>1 DEF TakeMessage, TInv, PlayersTyped, HeartTyped, InputTyped, process,
       heart, input, player, console
  <2> QED
    BY <2>4, <2>5 DEF TInv
<1>2. CASE KillPlayers
  <2>1. PumpTyped' /\ HeartTyped'
    BY <1>2 DEF KillPlayers, TInv, PumpTyped, HeartTyped, heart, console
  <2>2. InputTyped' /\ PlayersTyped'
    BY <1>2, KillTyped DEF KillPlayers, process
  <2> QED
    BY <2>1, <2>2 DEF TInv
<1>3. CASE StartPlayer
  <2>1. PumpTyped' /\ HeartTyped' /\ InputTyped'
    BY <1>3 DEF StartPlayer, TInv, PumpTyped, HeartTyped, InputTyped, heart,
       input, player, console
  <2>2. PlayersTyped'
    BY <1>3, ConstantsOK DEF StartPlayer, TInv, PlayersTyped
  <2> QED
    BY <2>1, <2>2 DEF TInv
<1>4. CASE StartFails \/ SetPlayerProcess \/ Reboot \/ RebootFails
  <2>1. /\ \E v \in {"OK", "FAILED"} : Report(v)
        /\ UNCHANGED <<jvm, queue, rest, unsent, helper, heart, started, alive,
                       input, player, told, missed>>
        /\ static' \in {static, helper}
        /\ faults' = faults \/ Fault
    BY <1>4 DEF StartFails, SetPlayerProcess, Reboot, RebootFails, process
  <2>2. PumpTyped'
    BY <2>1, ReportTyped DEF TInv
  <2>3. PlayersTyped'
    BY <2>1, FaultTyped DEF TInv, PlayersTyped
  <2>4. HeartTyped' /\ InputTyped'
    BY <2>1 DEF TInv, HeartTyped, InputTyped, heart, input, player
  <2> QED
    BY <2>2, <2>3, <2>4 DEF TInv
<1>5. CASE SetManagerField
  <2>1. PICK s \in rest.settings :
          /\ rest' = [rest EXCEPT !.settings = @ \ {s}]
          /\ interval' = [interval EXCEPT ![s.field] = s.value]
    BY <1>5 DEF SetManagerField
  <2>2. PumpTyped'
    BY <1>5, <2>1 DEF SetManagerField, TInv, PumpTyped, console
  <2>3. s.field \in Fields /\ s.value \in Int
    BY DEF TInv, PumpTyped
  <2>4. HeartTyped'
    BY <1>5, <2>1, <2>3 DEF SetManagerField, TInv, HeartTyped, console
  <2>5. PlayersTyped' /\ InputTyped'
    BY <1>5 DEF SetManagerField, TInv, PlayersTyped, InputTyped, process, input,
       player
  <2> QED
    BY <2>2, <2>4, <2>5 DEF TInv
<1>6. CASE PrintLine
  <2>1. PICK l \in rest.lines :
          /\ rest' = [rest EXCEPT !.lines = @ \ {l}]
          /\ unsent' = unsent \o <<l, CR, LF>>
    BY <1>6 DEF PrintLine
  <2>2. <<l, CR, LF>> \in Seq(Token)
    <3>1. l \in Token /\ CR \in Token /\ LF \in Token
      BY DEF TInv, PumpTyped, Token
    <3> QED
      BY <3>1
  <2>3. unsent' \in Seq(Token)
    BY <2>1, <2>2 DEF TInv, PumpTyped
  <2>4. PumpTyped'
    BY <1>6, <2>1, <2>3 DEF PrintLine, TInv, PumpTyped, console
  <2>5. PlayersTyped' /\ HeartTyped' /\ InputTyped'
    BY <1>6 DEF PrintLine, TInv, PlayersTyped, HeartTyped, InputTyped, process,
       heart, input, player, console
  <2> QED
    BY <2>4, <2>5 DEF TInv
<1>7. CASE PrintLineFails
  <2>1. PumpTyped'
    BY <1>7, ReportTyped DEF PrintLineFails, TInv
  <2>2. PlayersTyped' /\ HeartTyped' /\ InputTyped'
    BY <1>7 DEF PrintLineFails, TInv, PlayersTyped, HeartTyped, InputTyped,
       process, heart, input, player
  <2> QED
    BY <2>1, <2>2 DEF TInv
<1>8. CASE CloseInput
  <2>1. PumpTyped'
    BY <1>8, ReportTyped DEF CloseInput, TInv
  <2>2. PlayersTyped' /\ HeartTyped'
    BY <1>8 DEF CloseInput, TInv, PlayersTyped, HeartTyped, process, heart
  <2>3. InputTyped'
    <3>1. closed' \subseteq Pids
      <4>1. message.process \in Pids \cup {NoProcess}
        BY DEF TInv, PumpTyped, Proper, Message
      <4> QED
        BY <1>8, <4>1 DEF CloseInput, TInv, InputTyped
    <3>2. pipe' \in [Pids -> Seq(Token)] /\ sent' \in [Pids -> Seq(Token)]
      <4> DEFINE p == message.process
      <4>1. \/ UNCHANGED <<pipe, sent>>
            \/ /\ pipe' = [pipe EXCEPT ![p] = @ \o unsent]
               /\ sent' = [sent EXCEPT ![p] = @ \o unsent]
        BY <1>8 DEF CloseInput
      <4>2. \A q \in Pids : /\ pipe[q] \o unsent \in Seq(Token)
                            /\ sent[q] \o unsent \in Seq(Token)
        BY DEF TInv, PumpTyped, InputTyped
      <4>3. pipe \in [Pids -> Seq(Token)] /\ sent \in [Pids -> Seq(Token)]
        BY DEF TInv, InputTyped
      <4> HIDE DEF p
      <4>4. CASE UNCHANGED <<pipe, sent>>
        BY <4>3, <4>4
      <4>5. ASSUME NEW w \in Pids, p = w,
                   pipe' = [pipe EXCEPT ![p] = @ \o unsent],
                   sent' = [sent EXCEPT ![p] = @ \o unsent]
            PROVE  /\ pipe' \in [Pids -> Seq(Token)]
                   /\ sent' \in [Pids -> Seq(Token)]
        <5> DEFINE a == pipe[w] \o unsent
                   b == sent[w] \o unsent
        <5>1. a \in Seq(Token) /\ b \in Seq(Token)
          BY <4>2
        <5>2. pipe' = [pipe EXCEPT ![w] = a] /\ sent' = [sent EXCEPT ![w] = b]
          BY <4>5
        <5> HIDE DEF a, b
        <5> QED
          BY <4>3, <5>1, <5>2
      <4>6. UNCHANGED <<pipe, sent>> \/ p \in Pids
        <5>1. UNCHANGED <<pipe, sent>> \/ p \in alive
          BY <1>8 DEF CloseInput, Reaches, p
        <5>2. alive \subseteq Pids
          BY ConstantsOK DEF TInv, PlayersTyped, Pids
        <5> QED
          BY <5>1, <5>2
      <4> QED
        BY <4>1, <4>4, <4>5, <4>6
    <3> QED
      BY <1>8, <3>1, <3>2 DEF CloseInput, TInv, InputTyped, player
  <2> QED
    BY <2>1, <2>2, <2>3 DEF TInv
<1> QED
  BY <1>1, <1>2, <1>3, <1>4, <1>5, <1>6, <1>7, <1>8 DEF Pump

LEMMA CountTyped ==
    ASSUME TInv, Count PROVE ratio' \in Int /\ shrunk' \in BOOLEAN
<1>1. shrunk' \in BOOLEAN
  BY Zenon DEF Count
<1>2. Decremented \in Int
  BY DEF TInv, HeartTyped, Decremented
<1>3. IncludesScreendump /\ ~DividesByZero => IntervalsRatio \in Int
  <2>1. /\ interval.screendumpInterval \in Int
        /\ interval.communicationInterval \in Int
    BY DEF TInv, HeartTyped, Fields
  <2> QED
    BY <2>1, QuotientIsInt DEF DividesByZero, IntervalsRatio
<1> QED
  BY <1>1, <1>2, <1>3 DEF Count

LEMMA ManagerKeepsTypes == ASSUME TInv, Manager PROVE TInv'
<1>1. CASE StartHeartbeat
  <2>1. asAlive' \in BOOLEAN
    BY <1>1, Zenon DEF StartHeartbeat, IsPlayerRunning
  <2>2. PumpTyped' /\ PlayersTyped' /\ HeartTyped' /\ InputTyped'
    BY <1>1, <2>1 DEF StartHeartbeat, TInv, PumpTyped, PlayersTyped, HeartTyped,
       InputTyped, pump, process, input, player, console
  <2> QED
    BY <2>2 DEF TInv
<1>2. CASE ManagerDies
  <2>1. PumpTyped' /\ InputTyped'
    BY <1>2 DEF ManagerDies, TInv, PumpTyped, InputTyped, pump, input, player,
       console
  <2>2. PlayersTyped' /\ HeartTyped'
    BY <1>2 DEF ManagerDies, TInv, PlayersTyped, HeartTyped, process, console
  <2> QED
    BY <2>1, <2>2 DEF TInv
<1>3. CASE PerformRequest
  <2>1. dumped' \in BOOLEAN
    BY <1>3, Zenon DEF PerformRequest, IncludesScreendump
  <2>2. HeartTyped'
    BY <1>3, <2>1, CountTyped DEF PerformRequest, TInv, HeartTyped
  <2>3. PumpTyped'
    <3>1. CASE UNCHANGED <<queue, status>>
      BY <1>3, <3>1 DEF PerformRequest, TInv, PumpTyped
    <3>2. ASSUME NEW a \in Actions, NEW type \in Types[a],
                 status' = [status EXCEPT ![a] = "SCHEDULED"],
                 queue' = Append(queue, MessageFor(a, type))
          PROVE  PumpTyped'
      <4>1. type \in Kinds /\ static \in Pids \cup {NoProcess}
        BY <3>2, ConstantsOK DEF TInv, PlayersTyped, Pids, NoProcess
      <4>2. MessageFor(a, type) \in Proper
        BY <4>1 DEF MessageFor, Proper, Message
      <4>3. queue' \in Seq(Proper)
        BY <3>2, <4>2 DEF TInv, PumpTyped
      <4> QED
        BY <1>3, <3>2, <4>3 DEF PerformRequest, TInv, PumpTyped
    <3> QED
      BY <1>3, <3>1, <3>2 DEF PerformRequest, Receive
  <2>4. PlayersTyped' /\ InputTyped'
    BY <1>3 DEF PerformRequest, TInv, PlayersTyped, InputTyped, process, input,
       player
  <2> QED
    BY <2>2, <2>3, <2>4 DEF TInv
<1>4. CASE RequestFails
  <2>1. HeartTyped'
    BY <1>4, CountTyped DEF RequestFails, TInv, HeartTyped, console
  <2>2. faults' \in 0 .. MaxFaults
    BY <1>4, FaultTyped DEF RequestFails, TInv, PlayersTyped
  <2>3. PumpTyped' /\ PlayersTyped' /\ InputTyped'
    BY <1>4, <2>2 DEF RequestFails, TInv, PumpTyped, PlayersTyped, InputTyped,
       pump, process, input, player, console
  <2> QED
    BY <2>1, <2>3 DEF TInv
<1> QED
  BY <1>1, <1>2, <1>3, <1>4 DEF Manager

LEMMA MachineKeepsTypes ==
    ASSUME TInv, ShutdownHook \/ Stop \/ Crash \/ MachineRestarts \/ Boot
    PROVE  TInv'
<1>1. CASE ShutdownHook
  <2>1. PumpTyped' /\ HeartTyped'
    BY <1>1 DEF ShutdownHook, TInv, PumpTyped, HeartTyped, pump, heart, console
  <2>2. InputTyped' /\ PlayersTyped'
    BY <1>1, KillTyped DEF ShutdownHook, process
  <2> QED
    BY <2>1, <2>2 DEF TInv
<1>2. CASE Stop \/ Crash
  <2>1. /\ Halt
        /\ UNCHANGED <<alive, closed, pipe, deployed, reader, builder, set,
                       status, missed>>
        /\ faults' = faults \/ Fault
    BY <1>2 DEF Stop, Crash
  <2>2. PumpTyped' /\ HeartTyped'
    BY <2>1, HaltTyped
  <2>3. PlayersTyped' /\ InputTyped'
    BY <2>1, FaultTyped DEF Halt, TInv, PlayersTyped, InputTyped, NoProcess
  <2> QED
    BY <2>2, <2>3 DEF TInv
<1>3. CASE MachineRestarts
  <2>1. PumpTyped' /\ HeartTyped'
    BY <1>3, HaltTyped DEF MachineRestarts
  <2>2. InputTyped' /\ alive' \subseteq alive
    BY <1>3, DieTyped DEF MachineRestarts, Halt
  <2>3. PlayersTyped'
    BY <1>3, <2>2, FaultTyped DEF MachineRestarts, Halt, TInv, PlayersTyped,
       NoProcess
  <2> QED
    BY <2>1, <2>2, <2>3 DEF TInv
<1>4. CASE Boot
  <2>1. queue' \in Seq(Proper)
    BY <1>4, FirstIsProper DEF Boot
  <2>2. PumpTyped' /\ PlayersTyped' /\ HeartTyped' /\ InputTyped'
    BY <1>4, <2>1 DEF Boot, TInv, PumpTyped, PlayersTyped, HeartTyped,
       InputTyped, process, heart, input, player, console
  <2> QED
    BY <2>2 DEF TInv
<1> QED
  BY <1>1, <1>2, <1>3, <1>4

\* What is read is a part of what there is to read, up to its first line end.
LEMMA ReadTyped ==
    ASSUME TInv, NEW p \in Pids, p \in alive, NEW n \in 1 .. Len(pipe[p]),
           \A i \in 1 .. n - 1 : pipe[p][i] # LF
    PROVE  /\ SubSeq(pipe[p], n + 1, Len(pipe[p])) \in Seq(Token)
           /\ \A m \in 0 .. n : (m = n => pipe[p][n] # LF) =>
                builder[p] \o SubSeq(pipe[p], 1, m) \in Seq(Line \cup {CR})
<1>1. pipe[p] \in Seq(Token) /\ builder[p] \in Seq(Line \cup {CR})
  BY DEF TInv, InputTyped
<1>2. SubSeq(pipe[p], n + 1, Len(pipe[p])) \in Seq(Token)
  BY <1>1
<1>3. ASSUME NEW m \in 0 .. n, m = n => pipe[p][n] # LF
      PROVE  builder[p] \o SubSeq(pipe[p], 1, m) \in Seq(Line \cup {CR})
  <2>1. \A i \in 1 .. m : pipe[p][i] \in Line \cup {CR}
    BY <1>1, <1>3 DEF Token
  <2>2. SubSeq(pipe[p], 1, m) \in Seq(Line \cup {CR})
    BY <1>1, <2>1
  <2> QED
    BY <1>1, <2>2
<1> QED
  BY <1>2, <1>3

LEMMA PlayerKeepsTypes ==
    ASSUME TInv, NEW p \in Pids,
           Ends(p) \/ StartDeployment(p) \/ StartConfigurer(p) \/ Read(p)
    PROVE  TInv'
<1>1. CASE Ends(p)
  <2>1. PumpTyped' /\ HeartTyped'
    BY <1>1 DEF Ends, TInv, PumpTyped, HeartTyped, pump, heart, console
  <2>2. InputTyped' /\ alive' \subseteq alive
    BY <1>1, DieTyped DEF Ends
  <2>3. PlayersTyped'
    BY <1>1, <2>2, FaultTyped DEF Ends, TInv, PlayersTyped, process
  <2> QED
    BY <2>1, <2>2, <2>3 DEF TInv
<1>2. CASE StartDeployment(p) \/ StartConfigurer(p)
  <2>1. UNCHANGED <<jvm, pump, process, heart, started, alive, console, missed,
                    faults>>
    BY <1>2 DEF StartDeployment, StartConfigurer
  <2>2. PumpTyped' /\ HeartTyped' /\ PlayersTyped'
    BY <2>1 DEF TInv, PumpTyped, HeartTyped, PlayersTyped, pump, heart, console,
       process
  <2>3. InputTyped'
    <3>1. CASE StartDeployment(p)
      BY <3>1 DEF StartDeployment, TInv, InputTyped, input
    <3>2. CASE StartConfigurer(p)
      BY <3>2 DEF StartConfigurer, TInv, InputTyped, input
    <3> QED
      BY <1>2, <3>1, <3>2
  <2> QED
    BY <2>2, <2>3 DEF TInv
<1>3. CASE Read(p)
  <2>1. PICK n \in 1 .. Len(pipe[p]) :
          /\ ReadPart(p, n) \/ ReadLine(p, n)
          /\ pipe' = [pipe EXCEPT ![p] = SubSeq(@, n + 1, Len(@))]
    BY <1>3 DEF Read
  <2>2. p \in alive /\ UNCHANGED <<closed, sent, deployed, alive>>
    BY <1>3 DEF Read
  <2>3. Len(pipe[p]) \in Nat /\ \A i \in 1 .. n - 1 : pipe[p][i] # LF
    BY <2>1 DEF ReadPart, ReadLine, TInv, InputTyped
  <2>4. pipe' \in [Pids -> Seq(Token)]
    BY <2>1, <2>2, <2>3, ReadTyped DEF TInv, InputTyped
  <2>5. /\ reader' \in [Pids -> {"none", "reading", "ended"}]
        /\ builder' \in [Pids -> Seq(Line \cup {CR})]
        /\ set' \in [Pids -> Seq(Seq(Line \cup {CR}))]
        /\ ignored' \in BOOLEAN
    <3>1. CASE ReadPart(p, n)
      <4>1. builder[p] \o SubSeq(pipe[p], 1, n) \in Seq(Line \cup {CR})
        <5>1. pipe[p][n] # LF /\ n \in 0 .. n
          BY <2>3, <3>1 DEF ReadPart
        <5> QED
          BY <2>2, <2>3, <5>1, ReadTyped
      <4> QED
        BY <3>1, <4>1 DEF ReadPart, TInv, InputTyped
    <3>2. CASE ReadLine(p, n)
      <4> DEFINE line == builder[p] \o SubSeq(pipe[p], 1, LineEnd(p, n))
      <4>1. LineEnd(p, n) \in 0 .. n /\ LineEnd(p, n) # n
        BY <2>3 DEF LineEnd
      <4>2. line \in Seq(Line \cup {CR})
        <5>1. \A m \in 0 .. n : (m = n => pipe[p][n] # LF) =>
                  builder[p] \o SubSeq(pipe[p], 1, m) \in Seq(Line \cup {CR})
          BY <2>2, <2>3, ReadTyped
        <5> QED
          BY <4>1, <5>1
      <4>3. /\ builder' = [builder EXCEPT ![p] = << >>]
            /\ set' \in {set, [set EXCEPT ![p] = Append(@, line)]}
            /\ reader' \in {reader, [reader EXCEPT ![p] = "ended"]}
            /\ ignored' = TRUE \/ ignored' = ignored
        BY <3>2 DEF ReadLine
      <4> HIDE DEF line
      <4>4. Append(set[p], line) \in Seq(Seq(Line \cup {CR}))
        BY <4>2 DEF TInv, InputTyped
      <4>5. builder' \in [Pids -> Seq(Line \cup {CR})]
        BY <4>3 DEF TInv, InputTyped
      <4>6. set' \in [Pids -> Seq(Seq(Line \cup {CR}))]
        BY <4>3, <4>4 DEF TInv, InputTyped
      <4>7. /\ reader' \in [Pids -> {"none", "reading", "ended"}]
            /\ ignored' \in BOOLEAN
        BY <4>3 DEF TInv, InputTyped
      <4> QED
        BY <4>5, <4>6, <4>7
    <3> QED
      BY <2>1, <3>1, <3>2
  <2>6. InputTyped'
    BY <2>2, <2>4, <2>5 DEF TInv, InputTyped
  <2>7. PumpTyped' /\ HeartTyped' /\ PlayersTyped'
    BY <1>3 DEF Read, TInv, PumpTyped, HeartTyped, PlayersTyped, pump, heart,
       console, process
  <2> QED
    BY <2>6, <2>7 DEF TInv
<1> QED
  BY <1>1, <1>2, <1>3

LEMMA TAlways == Spec => []TInv
<1>1. TInv /\ [Next]_vars => TInv'
  <2> SUFFICES ASSUME TInv, [Next]_vars PROVE TInv'
    OBVIOUS
  <2>1. CASE UNCHANGED vars
    <3>1. PumpTyped'
      BY <2>1 DEF vars, TInv, PumpTyped, pump, console
    <3>2. PlayersTyped'
      BY <2>1 DEF vars, TInv, PlayersTyped, process
    <3>3. HeartTyped'
      BY <2>1 DEF vars, TInv, HeartTyped, heart, console
    <3>4. InputTyped'
      BY <2>1 DEF vars, TInv, InputTyped, input, player
    <3> QED
      BY <3>1, <3>2, <3>3, <3>4 DEF TInv
  <2> QED
    BY <2>1, PumpKeepsTypes, ManagerKeepsTypes, MachineKeepsTypes,
       PlayerKeepsTypes DEF Next
<1> QED
  BY TInit, <1>1, PTL DEF Spec

\* Every variable of the manager and its players has its type; a line end is
\* never part of a line that BufferedLineReader collects or hands on.
THEOREM TypeCorrect == Spec => []TypeOK
<1>1. TInv => TypeOK
  <2>1. PumpTyped => queue \in Seq(Message) /\ message \in Message
    BY DEF PumpTyped, Proper
  <2> QED
    BY <2>1 DEF TInv, PumpTyped, PlayersTyped, HeartTyped, InputTyped, TypeOK
<1> QED
  BY TAlways, <1>1, PTL

-----------------------------------------------------------------------------
(* The lines. What has been written to a player consists of whole lines;   *)
(* what it has not read is the end of it, what its reader has collected is *)
(* the begin of the first line that has not been taken up.                 *)

OfLines(s) ==
    /\ Len(s) % 3 = 0
    /\ \A i \in 1 .. Len(s) : /\ i % 3 = 1 => s[i] \in Line
                              /\ i % 3 = 2 => s[i] = CR
                              /\ i % 3 = 0 => s[i] = LF

\* Of w, written, r is yet to be read; b is collected, the lines t taken up.
Follows(w, r, b, t) ==
    /\ OfLines(w)
    /\ 3 * Len(t) + Len(b) + Len(r) = Len(w) /\ Len(b) \in 0 .. 2
    /\ \A i \in 1 .. Len(r) : r[i] = w[Len(w) - Len(r) + i]
    /\ \A i \in 1 .. Len(b) : b[i] = w[3 * Len(t) + i]
    /\ \A i \in 1 .. Len(t) : t[i] \in {<<w[3 * i - 2]>>, <<w[3 * i - 2], CR>>}

FollowsUp(p) == Follows(sent[p], pipe[p], builder[p], set[p])

Untouched(p) ==
    /\ sent[p] = << >> /\ pipe[p] = << >>
    /\ builder[p] = << >> /\ set[p] = << >>

Fed ==
    /\ OfLines(unsent)
    /\ \A p \in Pids : p > started => Untouched(p)
    /\ \A p \in alive : FollowsUp(p)

LEMMA NoLines == OfLines(<< >>)
BY DEF OfLines

LEMMA MoreLines ==
    ASSUME NEW s \in Seq(Token), NEW t \in Seq(Token), OfLines(s), OfLines(t)
    PROVE  OfLines(s \o t)
<1>1. Len(s \o t) = Len(s) + Len(t) /\ Len(s) \in Nat /\ Len(t) \in Nat
  OBVIOUS
<1>2. Len(s) % 3 = 0 /\ Len(t) % 3 = 0
  BY DEF OfLines
<1>3. \A k \in Int : (k - Len(s)) % 3 = k % 3
  BY <1>1, <1>2
<1>4. (Len(s) + Len(t)) % 3 = 0
  BY <1>1, <1>2
<1>5. ASSUME NEW i \in 1 .. (Len(s) + Len(t))
      PROVE  /\ i % 3 = 1 => (s \o t)[i] \in Line
             /\ i % 3 = 2 => (s \o t)[i] = CR
             /\ i % 3 = 0 => (s \o t)[i] = LF
  <2>1. CASE i <= Len(s)
    <3>1. (s \o t)[i] = s[i] /\ i \in 1 .. Len(s)
      BY <1>1, <2>1
    <3> QED
      BY <3>1 DEF OfLines
  <2>2. CASE i > Len(s)
    <3>1. (s \o t)[i] = t[i - Len(s)] /\ i - Len(s) \in 1 .. Len(t)
      BY <1>1, <2>2
    <3>2. (i - Len(s)) % 3 = i % 3
      BY <1>1, <1>3
    <3> QED
      BY <3>1, <3>2 DEF OfLines
  <2> QED
    BY <1>1, <2>1, <2>2
<1> QED
  BY <1>1, <1>4, <1>5 DEF OfLines

LEMMA OneLine == ASSUME NEW l \in Line PROVE OfLines(<<l, CR, LF>>)
<1> DEFINE s == <<l, CR, LF>>
<1>1. Len(s) = 3 /\ s[1] = l /\ s[2] = CR /\ s[3] = LF
  OBVIOUS
<1>2. 3 % 3 = 0 /\ 1 % 3 = 1 /\ 2 % 3 = 2
  OBVIOUS
<1>3. \A i \in 1 .. 3 : i = 1 \/ i = 2 \/ i = 3
  OBVIOUS
<1> HIDE DEF s
<1>4. OfLines(s)
  BY <1>1, <1>2, <1>3 DEF OfLines
<1> QED
  BY <1>4 DEF s

LEMMA NothingToFollow == Follows(<< >>, << >>, << >>, << >>)
BY NoLines DEF Follows

\* What is written goes to the end of what there is to read.
LEMMA FollowsWritten ==
    ASSUME NEW w \in Seq(Token), NEW r \in Seq(Token), NEW b \in Seq(Token),
           NEW t \in Seq(Seq(Token)), NEW u \in Seq(Token),
           Follows(w, r, b, t), OfLines(u)
    PROVE  Follows(w \o u, r \o u, b, t)
<1>1. /\ Len(w \o u) = Len(w) + Len(u) /\ Len(r \o u) = Len(r) + Len(u)
      /\ Len(w) \in Nat /\ Len(u) \in Nat /\ Len(r) \in Nat
      /\ Len(b) \in Nat /\ Len(t) \in Nat
  OBVIOUS
<1>2. 3 * Len(t) + Len(b) + Len(r) = Len(w)
  BY DEF Follows
<1>3. \A i \in 1 .. Len(w) : (w \o u)[i] = w[i]
  OBVIOUS
<1>4. OfLines(w \o u)
  BY MoreLines DEF Follows
<1>5. ASSUME NEW i \in 1 .. (Len(r) + Len(u))
      PROVE  (r \o u)[i] = (w \o u)[Len(w) - Len(r) + i]
  <2>1. CASE i <= Len(r)
    <3>1. i \in 1 .. Len(r) /\ Len(w) - Len(r) + i \in 1 .. Len(w)
      BY <1>1, <1>2, <2>1
    <3>2. (r \o u)[i] = r[i]
      BY <1>1, <3>1
    <3> QED
      BY <1>3, <3>1, <3>2 DEF Follows
  <2>2. CASE i > Len(r)
    <3> DEFINE j == i - Len(r)
    <3>1. /\ j \in 1 .. Len(u) /\ i = Len(r) + j
          /\ Len(w) - Len(r) + i = Len(w) + j
      BY <1>1, <2>2
    <3>2. (r \o u)[Len(r) + j] = u[j] /\ (w \o u)[Len(w) + j] = u[j]
      BY <1>1, <3>1
    <3> QED
      BY <3>1, <3>2
  <2>3. i <= Len(r) \/ i > Len(r)
    BY <1>1
  <2> QED
    BY <2>1, <2>2, <2>3, Zenon
<1>6. \A i \in 1 .. Len(b) : b[i] = (w \o u)[3 * Len(t) + i]
  BY <1>1, <1>2, <1>3 DEF Follows
<1>7. ASSUME NEW i \in 1 .. Len(t)
      PROVE  (w \o u)[3 * i - 2] = w[3 * i - 2]
  BY <1>1, <1>2, <1>3
<1>8. Len(w \o u) - Len(r \o u) = Len(w) - Len(r)
  BY <1>1
<1>9. \A i \in 1 .. Len(r \o u) :
        (r \o u)[i] = (w \o u)[Len(w \o u) - Len(r \o u) + i]
  BY <1>1, <1>5, <1>8
<1>10. /\ 3 * Len(t) + Len(b) + Len(r \o u) = Len(w \o u)
       /\ Len(b) \in 0 .. 2
  <2>1. Len(b) \in 0 .. 2
    BY DEF Follows
  <2>2. PICK k, l, m, n, o \in Nat :
            k = Len(t) /\ l = Len(b) /\ m = Len(r) /\ n = Len(w) /\ o = Len(u)
    BY <1>1
  <2>3. 3 * k + l + m = n => 3 * k + l + (m + o) = n + o
    OBVIOUS
  <2>4. 3 * Len(t) + Len(b) + (Len(r) + Len(u)) = Len(w) + Len(u)
    BY <1>2, <2>2, <2>3, Zenon
  <2> QED
    BY <1>1, <2>1, <2>4
<1>11. \A i \in 1 .. Len(t) :
         t[i] \in {<<(w \o u)[3 * i - 2]>>, <<(w \o u)[3 * i - 2], CR>>}
  BY <1>7 DEF Follows
<1> QED
  BY <1>4, <1>6, <1>9, <1>10, <1>11 DEF Follows

LEMMA AtLeastThree == \A d \in Nat : d > 0 /\ d % 3 = 0 => d >= 3
OBVIOUS

LEMMA LeftOfThrees ==
    \A l, m, n \in Nat : m > 0 /\ n % 3 = 0 /\ (n + l + m) % 3 = 0
                            => (l + m) % 3 = 0
OBVIOUS

\* What of the line under way is still to be read.
LEMMA RestOfLine ==
    ASSUME NEW w \in Seq(Token), NEW r \in Seq(Token), NEW b \in Seq(Token),
           NEW t \in Seq(Seq(Token)), Follows(w, r, b, t), r # << >>,
           NEW k \in Nat, k = 3 * Len(t)
    PROVE  /\ k + 3 <= Len(w)
           /\ w[k + 1] \in Line /\ w[k + 2] = CR /\ w[k + 3] = LF
           /\ \A i \in 1 .. (3 - Len(b)) : /\ i <= Len(r)
                                           /\ r[i] = w[k + Len(b) + i]
<1>1. /\ Len(w) \in Nat /\ Len(r) \in Nat /\ Len(r) > 0
      /\ Len(b) \in Nat /\ Len(b) <= 2 /\ Len(t) \in Nat /\ k \in Nat
      /\ k + Len(b) + Len(r) = Len(w)
  <2>1. Len(b) \in 0 .. 2 /\ k + Len(b) + Len(r) = Len(w)
    BY Zenon DEF Follows
  <2>2. Len(w) \in Nat /\ Len(r) \in Nat /\ Len(t) \in Nat /\ Len(r) > 0
    OBVIOUS
  <2>3. \A n \in 0 .. 2 : n \in Nat /\ n <= 2
    OBVIOUS
  <2>4. \A n \in Nat : 3 * n \in Nat
    OBVIOUS
  <2> QED
    BY <2>1, <2>2, <2>3, <2>4, Zenon
<1>2. Len(w) % 3 = 0 /\ k % 3 = 0
  BY <1>1 DEF Follows, OfLines
<1>3. k + 3 <= Len(w)
  <2>1. Len(w) - k \in Nat /\ Len(w) - k > 0 /\ (Len(w) - k) % 3 = 0
    <3>1. PICK l, m, n, o \in Nat :
              l = Len(b) /\ m = Len(r) /\ n = k /\ o = Len(w)
      BY <1>1
    <3>2. n + l + m = o /\ m > 0 /\ o % 3 = 0 /\ n % 3 = 0
      BY <1>1, <1>2, <3>1, Zenon
    <3>3. (l + m) % 3 = 0
      BY <3>2, LeftOfThrees, Zenon
    <3>4. o - n = l + m
      BY <3>2
    <3>5. o - n \in Nat /\ o - n > 0 /\ (o - n) % 3 = 0
      BY <3>2, <3>3, <3>4
    <3> QED
      BY <3>1, <3>5, Zenon
  <2>2. Len(w) - k >= 3
    BY <2>1, AtLeastThree
  <2> QED
    BY <1>1, <2>2
<1>4. (k + 1) % 3 = 1 /\ (k + 2) % 3 = 2 /\ (k + 3) % 3 = 0
  BY <1>1, <1>2
<1>5. w[k + 1] \in Line /\ w[k + 2] = CR /\ w[k + 3] = LF
  <2>1. {k + 1, k + 2, k + 3} \subseteq 1 .. Len(w)
    BY <1>1, <1>3
  <2> QED
    BY <1>4, <2>1 DEF Follows, OfLines
<1>6. ASSUME NEW i \in 1 .. (3 - Len(b))
      PROVE  i <= Len(r) /\ r[i] = w[k + Len(b) + i]
  <2>1. i \in Nat /\ i > 0 /\ i <= 3 - Len(b)
    BY <1>1
  <2>2. i <= Len(r) /\ i \in 1 .. Len(r)
    BY <1>1, <1>3, <2>1
  <2>3. Len(w) - Len(r) = k + Len(b)
    BY <1>1
  <2>4. r[i] = w[Len(w) - Len(r) + i]
    BY <2>2 DEF Follows
  <2> QED
    BY <2>2, <2>3, <2>4
<1> QED
  BY <1>3, <1>5, <1>6

LEMMA LineOrder ==
    /\ CR # LF /\ LF \notin Line /\ CR \notin Line
    /\ \A x : x \in Token <=> x \in Line \/ x = CR \/ x = LF
BY ConstantsOK DEF Token

LEMMA Parts ==
    ASSUME NEW r \in Seq(Token), NEW n \in 1 .. Len(r)
    PROVE  /\ SubSeq(r, n + 1, Len(r)) \in Seq(Token)
           /\ Len(SubSeq(r, n + 1, Len(r))) = Len(r) - n
           /\ \A i \in 1 .. (Len(r) - n) : SubSeq(r, n + 1, Len(r))[i] = r[n + i]
           /\ \A m \in 0 .. n : /\ SubSeq(r, 1, m) \in Seq(Token)
                                /\ Len(SubSeq(r, 1, m)) = m
                                /\ \A i \in 1 .. m : SubSeq(r, 1, m)[i] = r[i]
OBVIOUS

\* The first line end among what there is to read ends the line under way.
LEMMA FirstEnd ==
    ASSUME NEW w \in Seq(Token), NEW r \in Seq(Token), NEW b \in Seq(Token),
           NEW t \in Seq(Seq(Token)), Follows(w, r, b, t),
           NEW n \in 1 .. Len(r), \A i \in 1 .. (n - 1) : r[i] # LF
    PROVE  /\ n <= 3 - Len(b)
           /\ (r[n] = LF) = (n = 3 - Len(b))
           /\ Len(b) \in 0 .. 2
<1>1. r # << >> /\ Len(r) \in Nat /\ n \in Nat
  OBVIOUS
<1>2. Len(b) = 0 \/ Len(b) = 1 \/ Len(b) = 2
  BY DEF Follows
<1>3. PICK k \in Nat : k = 3 * Len(t)
  OBVIOUS
<1>4. /\ w[k + 1] \in Line /\ w[k + 2] = CR /\ w[k + 3] = LF
      /\ \A i \in 1 .. (3 - Len(b)) : i <= Len(r) /\ r[i] = w[k + Len(b) + i]
  BY <1>1, <1>3, RestOfLine, SMTT(30)
<1>5. CASE Len(b) = 0
  <2>1. r[1] = w[k + 1] /\ r[2] = w[k + 2] /\ r[3] = w[k + 3]
    <3>1. \A i \in 1 .. 3 : r[i] = w[k + 0 + i]
      BY <1>4, <1>5, 3 - 0 = 3
    <3>2. 1 \in 1 .. 3 /\ 2 \in 1 .. 3 /\ 3 \in 1 .. 3
      OBVIOUS
    <3>3. k + 0 + 1 = k + 1 /\ k + 0 + 2 = k + 2 /\ k + 0 + 3 = k + 3
      BY <1>3
    <3> QED
      BY <3>1, <3>2, <3>3, Zenon
  <2>2. r[1] # LF /\ r[2] # LF /\ r[3] = LF
    BY <1>4, <2>1, LineOrder
  <2> QED
    BY <1>1, <1>5, <2>2
<1>6. CASE Len(b) = 1
  <2>1. r[1] = w[k + 2] /\ r[2] = w[k + 3]
    BY <1>3, <1>4, <1>6
  <2> QED
    BY <1>1, <1>4, <1>6, <2>1, LineOrder
<1>7. CASE Len(b) = 2
  <2>1. r[1] = w[k + 3]
    BY <1>3, <1>4, <1>7
  <2> QED
    BY <1>1, <1>4, <1>7, <2>1, LineOrder
<1> QED
  BY <1>2, <1>5, <1>6, <1>7

\* What is read without a line end is collected.
LEMMA FollowsCollected ==
    ASSUME NEW w \in Seq(Token), NEW r \in Seq(Token), NEW b \in Seq(Token),
           NEW t \in Seq(Seq(Token)), Follows(w, r, b, t),
           NEW n \in 1 .. Len(r), \A i \in 1 .. n : r[i] # LF
    PROVE  Follows(w, SubSeq(r, n + 1, Len(r)), b \o SubSeq(r, 1, n), t)
<1> DEFINE s == SubSeq(r, n + 1, Len(r))
           c == b \o SubSeq(r, 1, n)
<1>1. /\ Len(w) \in Nat /\ Len(r) \in Nat /\ Len(b) \in Nat /\ n \in Nat
      /\ Len(t) \in Nat /\ n <= Len(r)
  OBVIOUS
<1>2. /\ s \in Seq(Token) /\ Len(s) = Len(r) - n
      /\ \A i \in 1 .. (Len(r) - n) : s[i] = r[n + i]
  BY Parts
<1>3. /\ c \in Seq(Token) /\ Len(c) = Len(b) + n
      /\ \A i \in 1 .. Len(b) : c[i] = b[i]
      /\ \A i \in 1 .. n : c[Len(b) + i] = r[i]
  <2>1. /\ SubSeq(r, 1, n) \in Seq(Token) /\ Len(SubSeq(r, 1, n)) = n
        /\ \A i \in 1 .. n : SubSeq(r, 1, n)[i] = r[i]
    BY <1>1, Parts
  <2> HIDE DEF s
  <2> QED
    BY <1>1, <2>1
<1> HIDE DEF s, c
<1>4. n + Len(b) <= 2
  <2>1. n <= 3 - Len(b) /\ n # 3 - Len(b)
    <3>1. \A i \in 1 .. (n - 1) : r[i] # LF
      BY <1>1
    <3>2. r[n] # LF
      BY <1>1
    <3> QED
      BY <3>1, <3>2, FirstEnd
  <2> QED
    BY <1>1, <2>1
<1>5. PICK k, lw, lr, lb \in Nat : /\ k = 3 * Len(t) /\ lw = Len(w)
                                   /\ lr = Len(r) /\ lb = Len(b)
  BY <1>1
<1>6. k + lb + lr = lw
  BY <1>5, Zenon DEF Follows
<1>7. k + (lb + n) + (lr - n) = lw /\ lw - (lr - n) = lw - lr + n
  BY <1>1, <1>6
<1>8. ASSUME NEW i \in 1 .. Len(s) PROVE s[i] = w[Len(w) - Len(s) + i]
  <2>1. i \in Nat /\ i > 0 /\ i <= lr - n
    BY <1>1, <1>2, <1>5
  <2>2. n + i \in 1 .. lr /\ i \in 1 .. (lr - n)
    BY <1>1, <2>1
  <2>3. lw - (lr - n) + i = lw - lr + (n + i)
    BY <1>1, <2>1
  <2>4. s[i] = r[n + i] /\ r[n + i] = w[lw - lr + (n + i)]
    BY <1>2, <1>5, <2>2, Zenon DEF Follows
  <2> QED
    BY <1>2, <1>5, <2>3, <2>4, Zenon
<1>9. ASSUME NEW i \in 1 .. Len(c) PROVE c[i] = w[3 * Len(t) + i]
  <2>1. i \in Nat /\ i > 0 /\ i <= lb + n
    BY <1>1, <1>3, <1>5
  <2>2. CASE i <= lb
    <3>1. i \in 1 .. Len(b)
      BY <1>5, <2>1, <2>2
    <3> QED
      BY <1>3, <3>1, Zenon DEF Follows
  <2>3. CASE i > lb
    <3>1. PICK j \in Nat : i = lb + j /\ j > 0 /\ j <= n
      <4> i - lb \in Nat /\ i = lb + (i - lb) /\ i - lb > 0 /\ i - lb <= n
        BY <1>1, <2>1, <2>3
      <4> QED
        OBVIOUS
    <3>2. j \in 1 .. n /\ j \in 1 .. lr
      BY <1>1, <1>5, <3>1
    <3>3. lw - lr + j = k + i
      BY <1>6, <3>1
    <3>4. c[lb + j] = r[j] /\ r[j] = w[lw - lr + j]
      BY <1>3, <1>5, <3>2, Zenon DEF Follows
    <3> QED
      BY <1>5, <3>1, <3>3, <3>4, Zenon
  <2> QED
    BY <2>1, <2>2, <2>3
<1>10. 3 * Len(t) + Len(c) + Len(s) = Len(w)
  BY <1>2, <1>3, <1>5, <1>7, Zenon
<1>11. Len(c) \in 0 .. 2
  BY <1>1, <1>3, <1>4
<1>12. Follows(w, s, c, t)
  <2>1. OfLines(w) /\ \A i \in 1 .. Len(t) :
            t[i] \in {<<w[3 * i - 2]>>, <<w[3 * i - 2], CR>>}
    BY Zenon DEF Follows
  <2> QED
    BY <1>8, <1>9, <1>10, <1>11, <2>1, Zenon DEF Follows
<1> QED
  BY <1>12 DEF s, c

LEMMA OneToken ==
    ASSUME NEW s \in Seq(Token), Len(s) = 1
    PROVE  s = <<s[1]>> /\ s[1] \in Token
OBVIOUS

\* What is read up to a line end is, with what was collected, the next line:
\* by itself, or with the CR when that came with an earlier buffer.
LEMMA FollowsTaken ==
    ASSUME NEW w \in Seq(Token), NEW r \in Seq(Token), NEW b \in Seq(Token),
           NEW t \in Seq(Seq(Token)), Follows(w, r, b, t),
           NEW n \in 1 .. Len(r), \A i \in 1 .. (n - 1) : r[i] # LF, r[n] = LF,
           NEW e, e = IF n > 1 /\ r[n - 1] = CR THEN n - 2 ELSE n - 1
    PROVE  Follows(w, SubSeq(r, n + 1, Len(r)), << >>,
                   Append(t, b \o SubSeq(r, 1, e)))
<1> DEFINE s == SubSeq(r, n + 1, Len(r))
           line == b \o SubSeq(r, 1, e)
           u == Append(t, line)
<1>1. /\ Len(w) \in Nat /\ Len(r) \in Nat /\ n \in Nat
      /\ Len(t) \in Nat /\ n <= Len(r) /\ n > 0
  OBVIOUS
<1>2. /\ s \in Seq(Token) /\ Len(s) = Len(r) - n
      /\ \A i \in 1 .. (Len(r) - n) : s[i] = r[n + i]
  BY Parts
<1>3. (Len(b) = 0 \/ Len(b) = 1 \/ Len(b) = 2) /\ n = 3 - Len(b)
  BY FirstEnd
<1>4. PICK k \in Nat : k = 3 * Len(t)
  OBVIOUS
<1>5. /\ k + 3 <= Len(w)
      /\ w[k + 1] \in Line /\ w[k + 2] = CR /\ w[k + 3] = LF
      /\ \A i \in 1 .. (3 - Len(b)) : i <= Len(r) /\ r[i] = w[k + Len(b) + i]
  <2>1. r # << >>
    BY <1>1
  <2> QED
    BY <1>4, <2>1, RestOfLine, SMTT(30)
<1>6. \A i \in 1 .. Len(b) : b[i] = w[k + i]
  BY <1>4, Zenon DEF Follows
<1>7. b \o SubSeq(r, 1, 0) = b
  <2>1. 0 \in 0 .. n
    BY <1>1
  <2>2. SubSeq(r, 1, 0) \in Seq(Token) /\ Len(SubSeq(r, 1, 0)) = 0
    BY <2>1, Parts, Zenon
  <2>3. SubSeq(r, 1, 0) = << >>
    BY <2>2
  <2>4. b \o << >> = b
    OBVIOUS
  <2> QED
    BY <2>3, <2>4
<1>8. /\ line \in Seq(Token)
      /\ line \in {<<w[k + 1]>>, <<w[k + 1], CR>>}
  <2>1. CASE Len(b) = 0
    <3>1. n = 3 /\ r[1] = w[k + 1] /\ r[2] = w[k + 2]
      BY <1>3, <1>4, <1>5, <2>1
    <3>2. e = 1 /\ b = << >>
      BY <1>5, <2>1, <3>1
    <3>3. SubSeq(r, 1, 1) = <<r[1]>> /\ r[1] \in Token
      <4>1. 1 \in 0 .. n /\ 1 \in 1 .. 1
        BY <3>1
      <4>2. /\ SubSeq(r, 1, 1) \in Seq(Token) /\ Len(SubSeq(r, 1, 1)) = 1
            /\ SubSeq(r, 1, 1)[1] = r[1]
        <5>1. \A m \in 0 .. n : /\ SubSeq(r, 1, m) \in Seq(Token)
                                /\ Len(SubSeq(r, 1, m)) = m
                                /\ \A i \in 1 .. m : SubSeq(r, 1, m)[i] = r[i]
          BY Parts
        <5> QED
          BY <4>1, <5>1, Zenon
      <4> QED
        BY <4>2, OneToken
    <3> QED
      BY <3>1, <3>2, <3>3
  <2>2. CASE Len(b) = 1
    <3>1. n = 2 /\ r[1] = w[k + 2] /\ b[1] = w[k + 1]
      BY <1>3, <1>4, <1>5, <1>6, <2>2
    <3>2. e = 0 /\ b = <<b[1]>>
      BY <1>5, <2>2, <3>1
    <3>3. line = b
      BY <1>7, <3>2
    <3> QED
      BY <3>1, <3>2, <3>3
  <2>3. CASE Len(b) = 2
    <3>1. n = 1 /\ b[1] = w[k + 1] /\ b[2] = w[k + 2]
      BY <1>3, <1>4, <1>6, <2>3
    <3>2. e = 0 /\ b = <<b[1], b[2]>>
      BY <2>3, <3>1
    <3>3. line = b
      BY <1>7, <3>2
    <3> QED
      BY <1>5, <3>1, <3>2, <3>3
  <2> QED
    BY <1>3, <2>1, <2>2, <2>3
<1> HIDE DEF s, line
<1>9. /\ u \in Seq(Seq(Token)) /\ Len(u) = Len(t) + 1
      /\ \A i \in 1 .. Len(t) : u[i] = t[i]
      /\ u[Len(t) + 1] = line
  BY <1>8
<1> HIDE DEF u
<1>10. PICK lt, lw, lr, lb \in Nat : /\ lt = Len(t) /\ lw = Len(w)
                                    /\ lr = Len(r) /\ lb = Len(b)
  BY <1>1, <1>3
<1>11. k + lb + lr = lw
  BY <1>4, <1>10, Zenon DEF Follows
<1>12. n = 3 - lb /\ lw - (lr - n) = lw - lr + n
  BY <1>1, <1>3, <1>10
<1>13. 3 * Len(u) + 0 + Len(s) = Len(w)
  <2>1. 3 * (lt + 1) + 0 + (lr - n) = lw
    <3>1. 3 * (lt + 1) = k + 3
      BY <1>4, <1>10
    <3>2. k + 3 + 0 + (lr - (3 - lb)) = lw
      BY <1>11
    <3> QED
      BY <1>12, <3>1, <3>2, Zenon
  <2> QED
    BY <1>2, <1>9, <1>10, <2>1, Zenon
<1>14. ASSUME NEW i \in 1 .. Len(s) PROVE s[i] = w[Len(w) - Len(s) + i]
  <2>1. i \in Nat /\ i > 0 /\ i <= lr - n
    BY <1>1, <1>2, <1>10
  <2>2. n + i \in 1 .. lr /\ i \in 1 .. (lr - n)
    BY <1>1, <2>1
  <2>3. lw - (lr - n) + i = lw - lr + (n + i)
    BY <1>1, <2>1
  <2>4. s[i] = r[n + i] /\ r[n + i] = w[lw - lr + (n + i)]
    BY <1>2, <1>10, <2>2, Zenon DEF Follows
  <2> QED
    BY <1>2, <1>10, <2>3, <2>4, Zenon
<1>15. ASSUME NEW i \in 1 .. Len(u)
       PROVE  u[i] \in {<<w[3 * i - 2]>>, <<w[3 * i - 2], CR>>}
  <2>1. CASE i <= Len(t)
    <3>1. i \in 1 .. Len(t)
      BY <1>1, <2>1
    <3>2. t[i] \in {<<w[3 * i - 2]>>, <<w[3 * i - 2], CR>>}
      BY <3>1, Zenon DEF Follows
    <3> QED
      BY <1>9, <3>1, <3>2
  <2>2. CASE i > Len(t)
    <3>1. i = Len(t) + 1
      BY <1>1, <1>9, <2>2
    <3>2. 3 * (lt + 1) - 2 = k + 1
      BY <1>4, <1>10
    <3>3. 3 * i - 2 = k + 1
      BY <1>10, <3>1, <3>2, Zenon
    <3> QED
      BY <1>8, <1>9, <3>1, <3>3
  <2> QED
    BY <1>1, <1>9, <2>1, <2>2
<1>16. Follows(w, s, << >>, u)
  <2>1. Len(<< >>) = 0 /\ 0 \in 0 .. 2
        /\ \A i \in 1 .. Len(<< >>) : << >>[i] = w[3 * Len(u) + i]
    OBVIOUS
  <2>2. OfLines(w)
    BY DEF Follows
  <2> QED
    BY <1>13, <1>14, <1>15, <2>1, <2>2, Zenon DEF Follows
<1> QED
  BY <1>16 DEF s, line, u

LEMMA FedInit == Init => Fed
<1> SUFFICES ASSUME Init PROVE Fed
  OBVIOUS
<1>1. /\ unsent = << >> /\ alive = {}
      /\ pipe = [p \in Pids |-> << >>] /\ sent = pipe
      /\ builder = [p \in Pids |-> << >>] /\ set = [p \in Pids |-> << >>]
  BY DEF Init
<1> QED
  BY <1>1, NoLines DEF Fed, Untouched

LEMMA InputTypes ==
    ASSUME TInv
    PROVE  /\ pipe \in [Pids -> Seq(Token)] /\ sent \in [Pids -> Seq(Token)]
           /\ builder \in [Pids -> Seq(Token)]
           /\ set \in [Pids -> Seq(Seq(Token))]
           /\ unsent \in Seq(Token)
           /\ alive \subseteq Pids /\ \A p \in alive : ~(p > started)
<1>1. Seq(Line \cup {CR}) \subseteq Seq(Token)
  BY DEF Token
<1>2. Seq(Seq(Line \cup {CR})) \subseteq Seq(Seq(Token))
  BY <1>1
<1>3. /\ pipe \in [Pids -> Seq(Token)] /\ sent \in [Pids -> Seq(Token)]
      /\ builder \in [Pids -> Seq(Line \cup {CR})]
      /\ set \in [Pids -> Seq(Seq(Line \cup {CR}))]
      /\ unsent \in Seq(Token)
  BY DEF TInv, InputTyped, PumpTyped
<1>4. started \in 0 .. MaxStarts /\ alive \subseteq 1 .. started
  BY DEF TInv, PlayersTyped
<1>5. alive \subseteq Pids /\ \A p \in alive : ~(p > started)
  BY <1>4, ConstantsOK DEF Pids
<1> QED
  BY <1>1, <1>2, <1>3, <1>5

\* The input of the players is not touched.
LEMMA FedSame ==
    ASSUME Fed, OfLines(unsent'),
           UNCHANGED <<started, alive, sent, pipe, builder, set>>
    PROVE  Fed'
BY DEF Fed, Untouched, FollowsUp

LEMMA FedDie ==
    ASSUME TInv, Fed, OfLines(unsent'), NEW S, Die(S),
           UNCHANGED <<started, sent>>
    PROVE  Fed'
<1>1. \A p \in Pids : /\ p \notin S => /\ pipe'[p] = pipe[p]
                                       /\ builder'[p] = builder[p]
                                       /\ set'[p] = set[p]
                      /\ p \in S => /\ pipe'[p] = << >>
                                    /\ builder'[p] = << >>
                                    /\ set'[p] = << >>
  BY DEF Die
<1>2. alive' = alive \ S /\ alive \subseteq Pids
  BY InputTypes DEF Die
<1>3. ASSUME NEW p \in alive' PROVE FollowsUp(p)'
  <2>1. /\ p \in Pids /\ p \in alive
        /\ UNCHANGED <<pipe[p], builder[p], set[p], sent[p]>>
    BY <1>1, <1>2, <1>3
  <2>2. FollowsUp(p)
    BY <2>1 DEF Fed
  <2> QED
    BY <2>1, <2>2 DEF FollowsUp
<1>4. ASSUME NEW p \in Pids, p > started' PROVE Untouched(p)'
  BY <1>1, <1>4 DEF Fed, Untouched
<1> QED
  BY <1>3, <1>4 DEF Fed

\* Only the input of q changes, and q is followed again.
LEMMA FedOne ==
    ASSUME TInv, Fed, OfLines(unsent'), NEW q \in alive, FollowsUp(q)',
           UNCHANGED <<started, alive>>,
           \A p \in Pids : p # q => UNCHANGED <<pipe[p], builder[p], set[p], sent[p]>>
    PROVE  Fed'
<1>1. alive \subseteq Pids /\ ~(q > started)
  BY InputTypes
<1>2. ASSUME NEW p \in alive' PROVE FollowsUp(p)'
  <2>1. CASE p # q
    BY <1>1, <1>2, <2>1 DEF Fed, FollowsUp
  <2> QED
    BY <2>1
<1>3. ASSUME NEW p \in Pids, p > started' PROVE Untouched(p)'
  BY <1>1, <1>3 DEF Fed, Untouched
<1> QED
  BY <1>2, <1>3 DEF Fed

LEMMA FedPump == ASSUME TInv, Fed, Pump PROVE Fed'
<1>1. CASE KillPlayers
  <2>1. OfLines(unsent') /\ UNCHANGED <<started, sent>>
    BY <1>1 DEF KillPlayers, Fed
  <2>2. PICK S : Die(S)
    BY <1>1 DEF KillPlayers, KillAllPlayers
  <2> QED
    BY <2>1, <2>2, FedDie
<1>2. CASE StartPlayer
  <2>1. /\ started \in Nat /\ started < MaxStarts /\ MaxStarts \in Nat
        /\ started' = started + 1 /\ alive' = alive \cup {started + 1}
        /\ UNCHANGED <<unsent, sent, pipe, builder, set>>
    BY <1>2, ConstantsOK DEF StartPlayer, TInv, PlayersTyped, input, player
  <2>2. started + 1 \in Pids /\ started + 1 > started
    BY <2>1 DEF Pids
  <2>3. FollowsUp(started + 1)
    BY <2>2, NothingToFollow DEF Fed, Untouched, FollowsUp
  <2>4. \A p \in alive' : FollowsUp(p)
    BY <2>1, <2>3 DEF Fed
  <2>5. \A p \in Pids : p > started' => Untouched(p)
    BY <2>1 DEF Fed, Pids
  <2> QED
    BY <2>1, <2>4, <2>5 DEF Fed, Untouched, FollowsUp
<1>3. CASE PrintLine
  <2>1. PICK l \in rest.lines : unsent' = unsent \o <<l, CR, LF>>
    BY <1>3 DEF PrintLine
  <2>2. l \in Line /\ unsent \in Seq(Token)
    BY <2>1 DEF TInv, PumpTyped
  <2>3. <<l, CR, LF>> \in Seq(Token) /\ OfLines(<<l, CR, LF>>)
    BY <2>2, OneLine DEF Token
  <2>4. OfLines(unsent \o <<l, CR, LF>>)
    BY <2>2, <2>3, MoreLines DEF Fed
  <2>5. OfLines(unsent')
    BY <2>1, <2>4
  <2>6. UNCHANGED <<started, alive, sent, pipe, builder, set>>
    BY <1>3 DEF PrintLine, input, player
  <2> QED
    BY <2>5, <2>6, FedSame
<1>4. CASE CloseInput
  <2>1. OfLines(unsent') /\ UNCHANGED <<started, alive, builder, set>>
    BY <1>4, NoLines DEF CloseInput, player
  <2>2. CASE UNCHANGED <<pipe, sent>>
    BY <2>1, <2>2, FedSame
  <2>3. CASE Reaches(message.process)
    <3>1. PICK q \in alive : q = message.process
      BY <2>3 DEF Reaches
    <3>2. /\ pipe' = [pipe EXCEPT ![q] = @ \o unsent]
          /\ sent' = [sent EXCEPT ![q] = @ \o unsent]
      BY <1>4, <2>3, <3>1 DEF CloseInput
    <3>3. /\ q \in Pids /\ sent[q] \in Seq(Token) /\ pipe[q] \in Seq(Token)
          /\ builder[q] \in Seq(Token) /\ set[q] \in Seq(Seq(Token))
          /\ unsent \in Seq(Token)
          /\ pipe \in [Pids -> Seq(Token)] /\ sent \in [Pids -> Seq(Token)]
      BY InputTypes
    <3>4. /\ pipe'[q] = pipe[q] \o unsent /\ sent'[q] = sent[q] \o unsent
          /\ \A p \in Pids : p # q => pipe'[p] = pipe[p] /\ sent'[p] = sent[p]
      BY <3>2, <3>3
    <3>5. Follows(sent[q], pipe[q], builder[q], set[q]) /\ OfLines(unsent)
      BY DEF Fed, FollowsUp
    <3>6. Follows(sent[q] \o unsent, pipe[q] \o unsent, builder[q], set[q])
      BY <3>3, <3>5, FollowsWritten
    <3>7. FollowsUp(q)'
      BY <2>1, <3>4, <3>6 DEF FollowsUp
    <3> QED
      BY <2>1, <3>4, <3>7, FedOne
  <2> QED
    BY <1>4, <2>2, <2>3 DEF CloseInput
<1>5. CASE TakeMessage \/ StartFails \/ SetPlayerProcess \/ SetManagerField
             \/ PrintLineFails \/ Reboot \/ RebootFails
  <2>1. UNCHANGED <<unsent, started, alive, sent, pipe, builder, set>>
    BY <1>5 DEF TakeMessage, StartFails, SetPlayerProcess, SetManagerField,
       PrintLineFails, Reboot, RebootFails, input, player
  <2> QED
    BY <2>1, FedSame DEF Fed
<1> QED
  BY <1>1, <1>2, <1>3, <1>4, <1>5 DEF Pump

LEMMA FedRead ==
    ASSUME TInv, Reading, Fed, NEW q \in Pids, Read(q)
    PROVE  Fed'
<1>1. PICK n \in 1 .. Len(pipe[q]) :
          /\ ReadPart(q, n) \/ ReadLine(q, n)
          /\ pipe' = [pipe EXCEPT ![q] = SubSeq(@, n + 1, Len(@))]
  BY DEF Read
<1>2. /\ q \in alive /\ q \in deployed
      /\ UNCHANGED <<unsent, sent, alive, started>>
  BY DEF Read, Reading, pump
<1>3. /\ sent[q] \in Seq(Token) /\ pipe[q] \in Seq(Token)
      /\ builder[q] \in Seq(Token) /\ set[q] \in Seq(Seq(Token))
      /\ pipe \in [Pids -> Seq(Token)] /\ builder \in [Pids -> Seq(Token)]
      /\ set \in [Pids -> Seq(Seq(Token))]
  BY InputTypes
<1>4. /\ pipe'[q] = SubSeq(pipe[q], n + 1, Len(pipe[q]))
      /\ \A p \in Pids : p # q => pipe'[p] = pipe[p]
  BY <1>1, <1>3
<1>5. Follows(sent[q], pipe[q], builder[q], set[q]) /\ OfLines(unsent')
  BY <1>2 DEF Fed, FollowsUp
<1>6. CASE ReadPart(q, n)
  <2>1. /\ \A i \in 1 .. n : pipe[q][i] # LF
        /\ builder' = [builder EXCEPT ![q] = @ \o SubSeq(pipe[q], 1, n)]
        /\ set' = set
    BY <1>6 DEF ReadPart
  <2>2. /\ builder'[q] = builder[q] \o SubSeq(pipe[q], 1, n)
        /\ \A p \in Pids : p # q => builder'[p] = builder[p]
    BY <1>3, <2>1
  <2>3. Follows(sent[q], SubSeq(pipe[q], n + 1, Len(pipe[q])),
                builder[q] \o SubSeq(pipe[q], 1, n), set[q])
    BY <1>3, <1>5, <2>1, FollowsCollected
  <2>4. FollowsUp(q)'
    BY <1>2, <1>4, <2>1, <2>2, <2>3 DEF FollowsUp
  <2> QED
    BY <1>2, <1>4, <1>5, <2>1, <2>2, <2>4, FedOne
<1>7. CASE ReadLine(q, n)
  <2> DEFINE line == builder[q] \o SubSeq(pipe[q], 1, LineEnd(q, n))
  <2>1. /\ pipe[q][n] = LF /\ \A i \in 1 .. (n - 1) : pipe[q][i] # LF
        /\ builder' = [builder EXCEPT ![q] = << >>]
        /\ set' = [set EXCEPT ![q] = Append(@, line)]
    BY <1>2, <1>7 DEF ReadLine
  <2>2. Follows(sent[q], SubSeq(pipe[q], n + 1, Len(pipe[q])), << >>,
                Append(set[q], line))
    BY <1>3, <1>5, <2>1, FollowsTaken DEF LineEnd
  <2> HIDE DEF line
  <2>3. /\ builder'[q] = << >> /\ set'[q] = Append(set[q], line)
        /\ \A p \in Pids : p # q => builder'[p] = builder[p] /\ set'[p] = set[p]
    BY <1>3, <2>1
  <2>4. FollowsUp(q)'
    BY <1>2, <1>4, <2>2, <2>3 DEF FollowsUp
  <2> QED
    BY <1>2, <1>4, <1>5, <2>3, <2>4, FedOne
<1> QED
  BY <1>1, <1>6, <1>7

LEMMA FedStep == ASSUME TInv, Reading, Fed, [Next]_vars PROVE Fed'
<1>1. OfLines(unsent)
  BY DEF Fed
<1>2. CASE Manager \/ UNCHANGED vars
  <2>1. UNCHANGED <<unsent, started, alive, sent, pipe, builder, set>>
    BY <1>2 DEF Manager, StartHeartbeat, ManagerDies, PerformRequest, RequestFails,
       pump, input, player, vars
  <2> QED
    BY <1>1, <2>1, FedSame
<1>3. CASE ShutdownHook
  <2>1. OfLines(unsent') /\ UNCHANGED <<started, sent>>
    BY <1>1, <1>3 DEF ShutdownHook, pump
  <2>2. PICK S : Die(S)
    BY <1>3 DEF ShutdownHook, KillAllPlayers
  <2> QED
    BY <2>1, <2>2, FedDie
<1>4. CASE Stop \/ Crash
  <2>1. OfLines(unsent') /\ UNCHANGED <<started, alive, sent, pipe, builder, set>>
    BY <1>4, NoLines DEF Stop, Crash, Halt
  <2> QED
    BY <2>1, FedSame
<1>5. CASE MachineRestarts
  <2>1. OfLines(unsent') /\ Die(alive) /\ UNCHANGED <<started, sent>>
    BY <1>5, NoLines DEF MachineRestarts, Halt
  <2> QED
    BY <2>1, FedDie
<1>6. CASE Boot
  <2>1. UNCHANGED <<unsent, started, alive, sent, pipe, builder, set>>
    BY <1>6 DEF Boot, input, player
  <2> QED
    BY <1>1, <2>1, FedSame
<1>7. ASSUME NEW p \in Pids, Ends(p) PROVE Fed'
  <2>1. OfLines(unsent') /\ Die({p}) /\ UNCHANGED <<started, sent>>
    BY <1>1, <1>7 DEF Ends, pump
  <2> QED
    BY <2>1, FedDie
<1>8. ASSUME NEW p \in Pids, StartDeployment(p) \/ StartConfigurer(p) PROVE Fed'
  <2>1. UNCHANGED <<unsent, started, alive, sent, pipe, builder, set>>
    BY <1>8 DEF StartDeployment, StartConfigurer, pump, input
  <2> QED
    BY <1>1, <2>1, FedSame
<1> QED
  BY <1>2, <1>3, <1>4, <1>5, <1>6, <1>7, <1>8, FedPump, FedRead DEF Next

\* A player takes up the lines that were written to it, each once and in their
\* order, wherever the buffers of BufferedLineReader.read end.
THEOREM LinesCorrect == Spec => []LinesWhole
<1>1. TInv /\ Reading /\ Fed => LinesWhole
  <2> SUFFICES ASSUME TInv, Reading, Fed, NEW p \in alive, NEW i \in DOMAIN set[p]
               PROVE  /\ 3 * i <= Len(sent[p])
                      /\ set[p][i] \in {<<sent[p][3 * i - 2]>>,
                                        <<sent[p][3 * i - 2], CR>>}
    BY Zenon DEF LinesWhole, NoneTooEarly, Reading
  <2>1. /\ sent[p] \in Seq(Token) /\ pipe[p] \in Seq(Token)
        /\ builder[p] \in Seq(Token) /\ set[p] \in Seq(Seq(Token))
    BY InputTypes
  <2>2. i \in 1 .. Len(set[p]) /\ Follows(sent[p], pipe[p], builder[p], set[p])
    BY <2>1 DEF Fed, FollowsUp
  <2>3. PICK lt, lw, lr, lb \in Nat : /\ lt = Len(set[p]) /\ lw = Len(sent[p])
                                      /\ lr = Len(pipe[p]) /\ lb = Len(builder[p])
    <3>1. /\ Len(set[p]) \in Nat /\ Len(sent[p]) \in Nat
          /\ Len(pipe[p]) \in Nat /\ Len(builder[p]) \in Nat
      BY <2>1
    <3> QED
      BY <3>1, Zenon
  <2>4. 3 * lt + lb + lr = lw
    BY <2>2, <2>3, Zenon DEF Follows
  <2>5. 3 * i <= lw
    <3>1. i \in 1 .. lt
      BY <2>2, <2>3, Zenon
    <3>2. \A x, y, z \in Nat : \A j \in 1 .. x : 3 * j <= 3 * x + y + z
      OBVIOUS
    <3>3. 3 * i <= 3 * lt + lb + lr
      BY <3>1, <3>2, Zenon
    <3> QED
      BY <2>4, <3>3
  <2> QED
    BY <2>2, <2>3, <2>5, Zenon DEF Follows
<1>2. Init => Reading
  <2>1. Init => ~ignored
    BY Zenon DEF Init
  <2> QED
    BY <2>1 DEF Init, Reading
<1>3. TInv /\ Reading /\ Fed /\ [Next]_vars => Fed'
  BY FedStep
<1> QED
  BY <1>1, <1>2, <1>3, FedInit, TAlways, ReadingStep, PTL DEF Spec
=============================================================================
