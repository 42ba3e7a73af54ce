----------------------- MODULE SoftwareUpdate_proofs -----------------------
(***************************************************************************)
(* Scripts are applied once and in their turn, a console that runs has all *)
(* it needs, and what is listed is kept: for any designers, versions,      *)
(* scripts and faults.                                                     *)
(***************************************************************************)
EXTENDS SoftwareUpdate, TLAPS

-----------------------------------------------------------------------------
(* Type correctness.                                                       *)

Waiting == {"deploying", "redeploying"}

\* The designers' part, the server's and the database's.
Desks ==
    /\ installed \in [Designers -> Versions]
    /\ file \in [Designers -> SUBSET Versions]
    /\ at \in [Designers -> Places]
    /\ previous \in [Designers -> Versions \cup {NoVersion}]
    /\ first \in [Designers -> Versions \cup {NoVersion}]
    /\ steady \in [Designers -> BOOLEAN]

Calls ==
    /\ served \in Designers \cup {Nobody}
    /\ \A d \in Designers : served = d <=> at[d] \in Waiting
    /\ served # Nobody => updater \in {"query", "scripts"}

Tomcat ==
    /\ deployed \in Versions \cup {NoVersion}
    /\ tagged \subseteq Versions
    /\ running \in BOOLEAN
    /\ updater \in {"off", "query", "scripts", "down"}
    /\ updater \in {"query", "scripts"} => deployed # NoVersion
    /\ updater # "off" => ~running
    /\ faults \in 0..MaxFaults

Tables ==
    /\ next \in 1..(Scripts + 1)
    /\ schema \in 0..Scripts
    /\ applied \in Seq(1..Scripts)

TInv == Desks /\ Calls /\ Tomcat /\ Tables

LEMMA SameTypes == TypeOK <=> TInv
BY DEF TypeOK, TInv, Desks, Calls, Tomcat, Tables, Waiting

LEMMA TInitially == Init => TInv
<1> SUFFICES ASSUME Init PROVE TInv
  OBVIOUS
<1>1. Desks
  BY DEF Init, Desks, Places
<1>2. Calls
  BY ConstantsOK DEF Init, Calls, Waiting
<1>3. Tomcat
  <2>1. running \in BOOLEAN /\ ~running
    BY Zenon DEF Init
  <2> QED
    BY <2>1, ConstantsOK DEF Init, Tomcat
<1>4. Tables
  BY ConstantsOK DEF Init, Tables
<1> QED
  BY <1>1, <1>2, <1>3, <1>4 DEF TInv

\* A step of a designer that neither asks the server for anything nor waits.
LEMMA Moves ==
  ASSUME TInv, NEW d \in Designers, NEW to \in Places \ Waiting,
         at[d] \notin Waiting, Go(d, to), UNCHANGED <<served, updater>>
  PROVE  Calls' /\ at' \in [Designers -> Places]
BY DEF TInv, Desks, Calls, Go

LEMMA FaultCounts == ASSUME Tomcat, Fault \/ UNCHANGED faults
                     PROVE  faults' \in 0..MaxFaults
BY ConstantsOK DEF Tomcat, Fault

LEMMA DesignerTypes ==
  ASSUME TInv, NEW d \in Designers, Open(d) \/ Job(d) \/ Close(d)
  PROVE  TInv'
<1> USE DEF TInv
<1> DEFINE Rest == UNCHANGED <<deployed, tagged, running, updater, served, next,
                               schema, applied>>
<1>1. CASE Open(d)
  <2>1. Go(d, "check") /\ at[d] = "closed" /\ Rest /\ UNCHANGED faults
    BY <1>1 DEF Open, server, database
  <2>2. Calls' /\ at' \in [Designers -> Places]
    BY <2>1, Moves DEF Places, Waiting
  <2>3. Desks'
    BY <1>1, <2>2 DEF Open, Desks
  <2> QED
    BY <2>1, <2>2, <2>3 DEF Tomcat, Tables
<1>2. CASE CreateFile(d)
  <2>1. Go(d, "open") /\ at[d] = "check" /\ Rest /\ (Fault \/ UNCHANGED faults)
    BY <1>2 DEF CreateFile, server, database
  <2>2. Calls' /\ at' \in [Designers -> Places]
    BY <2>1, Moves DEF Places, Waiting
  <2>3. Desks'
    BY <1>2, <2>2 DEF CreateFile, Desks
  <2> QED
    BY <2>1, <2>2, <2>3, FaultCounts DEF Tomcat, Tables
<1>3. CASE CheckVersion(d)
  <2>1. /\ Go(d, IF IsUpdated(d) THEN "prepare" ELSE "open") /\ at[d] = "check"
        /\ Rest /\ UNCHANGED faults
    BY <1>3 DEF CheckVersion, server, database
  <2>2. Calls' /\ at' \in [Designers -> Places]
    BY <2>1, Moves DEF Places, Waiting
  <2>3. \A v \in PreviousVersion(d) : v \in Versions \cup {NoVersion}
    BY DEF PreviousVersion, Older, Desks
  <2>4. Desks'
    BY <1>3, <2>2, <2>3 DEF CheckVersion, Desks
  <2> QED
    BY <2>1, <2>2, <2>4 DEF Tomcat, Tables
<1>4. CASE CheckFails(d)
  <2>1. Go(d, "prepare") /\ at[d] = "check" /\ Rest /\ Fault
    BY <1>4 DEF CheckFails, server, database
  <2>2. Calls' /\ at' \in [Designers -> Places]
    BY <2>1, Moves DEF Places, Waiting
  <2>3. Desks'
    BY <1>4, <2>2 DEF CheckFails, Desks
  <2> QED
    BY <2>1, <2>2, <2>3, FaultCounts DEF Tomcat, Tables
<1>5. CASE Prepare(d)
  <2>1. /\ Go(d, "undeploy") \/ Go(d, "failed")
        /\ at[d] = "prepare" /\ Rest /\ (Fault \/ UNCHANGED faults)
    BY <1>5 DEF Prepare, server, database
  <2>2. Calls' /\ at' \in [Designers -> Places]
    BY <2>1, Moves DEF Places, Waiting
  <2>3. Desks'
    BY <1>5, <2>2 DEF Prepare, Desks, workspace
  <2> QED
    BY <2>1, <2>2, <2>3, FaultCounts DEF Tomcat, Tables
<1>6. CASE Undeploy(d)
  <2>1. /\ Go(d, "deploy") /\ at[d] = "undeploy"
        /\ Fault \/ UNCHANGED faults
        /\ UNCHANGED <<tagged, updater, served, next, schema, applied>>
    BY <1>6 DEF Undeploy, database
  <2>2. Calls' /\ at' \in [Designers -> Places]
    BY <2>1, Moves DEF Places, Waiting
  <2>3. steady' \in [Designers -> BOOLEAN]
    <3>1. Disturbed(d) \in [Designers -> BOOLEAN]
      BY Zenon DEF Disturbed
    <3>2. /\ (deployed = previous[d] /\ deployed \in tagged) \in BOOLEAN
          /\ FALSE \in BOOLEAN
      BY Zenon
    <3> QED
      BY <1>6, <3>1, <3>2 DEF Undeploy, Desks
  <2>4. Desks'
    BY <1>6, <2>2, <2>3 DEF Undeploy, Desks, workspace
  <2>5. faults' \in 0..MaxFaults
    BY <2>1, FaultCounts
  <2>6. Tomcat'
    <3>1. \/ updater = "off" /\ deployed' = NoVersion /\ running' = FALSE
          \/ UNCHANGED <<deployed, running>>
      BY <1>6, Zenon DEF Undeploy, Serving
    <3>2. /\ running' \in BOOLEAN
          /\ updater # "off" => running' = running /\ deployed' = deployed
      BY <3>1, Zenon DEF Tomcat
    <3>3. deployed' \in Versions \cup {NoVersion}
      BY <3>1, Zenon DEF Tomcat
    <3> QED
      BY <2>1, <2>5, <3>2, <3>3 DEF Tomcat
  <2> QED
    BY <2>1, <2>2, <2>4, <2>6 DEF Tables
<1>7. CASE Deploy(d) \/ Redeploy(d)
  <2>1. /\ Go(d, "deploying") \/ Go(d, "redeploying")
        /\ updater = "off" /\ updater' = "query" /\ served' = d
        /\ steady' = Disturbed(d) /\ running' = FALSE
        /\ UNCHANGED <<installed, file, previous, first, next, schema, applied,
                       faults>>
    BY <1>7 DEF Deploy, Redeploy, Start, Serving, workspace, database
  <2>2. deployed' \in Versions /\ tagged' \subseteq Versions
    BY <1>7 DEF Deploy, Redeploy, Start, Desks, Tomcat
  <2>3. at' \in [Designers -> Places] /\ at'[d] \in Waiting
            /\ \A e \in Designers \ {d} : at'[e] = at[e]
    BY <2>1 DEF Go, Desks, Places, Waiting
  <2>4. served = Nobody
    BY <2>1 DEF Calls
  <2>5. Calls'
    BY <2>1, <2>3, <2>4, ConstantsOK DEF Calls
  <2>6. Desks'
    BY <2>1, <2>3 DEF Desks, Disturbed
  <2>7. Tomcat'
    BY <2>1, <2>2, ConstantsOK DEF Tomcat
  <2> QED
    BY <2>1, <2>5, <2>6, <2>7 DEF Tables
<1>8. CASE DeployFails(d) \/ RedeployFails(d)
  <2>1. /\ Go(d, "failed") \/ Go(d, "redeploy")
        /\ at[d] \in {"deploy", "redeploy"} /\ Rest
        /\ Fault \/ UNCHANGED faults
    BY <1>8 DEF DeployFails, RedeployFails, AfterFailure, server, database
  <2>2. Calls' /\ at' \in [Designers -> Places]
    BY <2>1, Moves DEF Places, Waiting
  <2>3. steady' \in [Designers -> BOOLEAN]
    BY <1>8 DEF DeployFails, RedeployFails, Desks
  <2>4. Desks'
    BY <1>8, <2>2, <2>3 DEF DeployFails, RedeployFails, Desks, workspace
  <2> QED
    BY <2>1, <2>2, <2>4, FaultCounts DEF Tomcat, Tables
<1>9. CASE AppendVersion(d)
  <2>1. /\ Go(d, "ok") \/ Go(d, "failed")
        /\ at[d] = "append" /\ Rest /\ (Fault \/ UNCHANGED faults)
    BY <1>9 DEF AppendVersion, server, database
  <2>2. Calls' /\ at' \in [Designers -> Places]
    BY <2>1, Moves DEF Places, Waiting
  <2>3. Desks'
    BY <1>9, <2>2 DEF AppendVersion, Desks
  <2> QED
    BY <2>1, <2>2, <2>3, FaultCounts DEF Tomcat, Tables
<1>10. CASE Close(d)
  <2>1. /\ Go(d, "closed")
        /\ served' = IF served = d THEN Nobody ELSE served
        /\ Fault \/ UNCHANGED faults
        /\ UNCHANGED <<deployed, tagged, running, updater, next, schema, applied>>
    BY <1>10 DEF Close, database
  <2>2. Desks'
    BY <1>10, <2>1 DEF Close, Desks, workspace, Go, Places
  <2>3. Calls'
    BY <2>1, ConstantsOK DEF Calls, Desks, Go, Waiting
  <2> QED
    BY <2>1, <2>2, <2>3, FaultCounts DEF Tomcat, Tables
<1> QED
  BY <1>1, <1>2, <1>3, <1>4, <1>5, <1>6, <1>7, <1>8, <1>9, <1>10 DEF Job

LEMMA ServerTypes ==
  ASSUME TInv, Console \/ Stop \/ Restart
  PROVE  TInv'
<1> USE DEF TInv
<1>1. ASSUME NEW answers, Answer(answers), updater \in {"query", "scripts"},
             answers \subseteq {"OK", "FAIL"}
      PROVE  /\ Calls' /\ at' \in [Designers -> Places]
             /\ updater' = "off"
  <2>1. CASE served = Nobody
    BY <1>1, <2>1, ConstantsOK DEF Answer, Calls, Desks
  <2>2. CASE served # Nobody
    <3>1. served \in Designers /\ at[served] \in Waiting
      BY <2>2 DEF Calls
    <3>2. PICK to \in {"append", "failed", "redeploy"} : Go(served, to)
      BY <1>1, <2>2 DEF Answer, AfterFailure
    <3>3. at' \in [Designers -> Places]
      BY <3>1, <3>2 DEF Go, Desks, Places
    <3>4. \A e \in Designers : at'[e] \notin Waiting
      BY <3>1, <3>2 DEF Go, Desks, Waiting, Calls
    <3> QED
      BY <1>1, <3>3, <3>4, ConstantsOK DEF Answer, Calls
  <2> QED
    BY <2>1, <2>2
<1>2. CASE ReadVersion
  <2>1. next' \in 1..(Scripts + 1)
    BY <1>2, ConstantsOK DEF ReadVersion, NextAfter, Tables
  <2>2. faults' \in 0..MaxFaults
    BY <1>2, FaultCounts DEF ReadVersion
  <2>3. Desks' /\ Calls'
    BY <1>2 DEF ReadVersion, Desks, Calls, workspace
  <2>4. Tomcat'
    BY <1>2, <2>2 DEF ReadVersion, Tomcat
  <2> QED
    BY <1>2, <2>1, <2>3, <2>4 DEF ReadVersion, Tables, database
<1>3. CASE RunScript
  <2>1. /\ next \in 1..Scripts
        /\ Needs[deployed] \in 1..Scripts
    BY <1>3, ConstantsOK DEF RunScript, Tables, Tomcat
  <2>2. Tables'
    BY <1>3, <2>1, ConstantsOK DEF RunScript, Tables
  <2>3. Desks' /\ Calls' /\ Tomcat'
    BY <1>3 DEF RunScript, Desks, Calls, Tomcat, workspace
  <2> QED
    BY <2>2, <2>3
<1>4. CASE Started \/ ScriptFails
  <2>1. /\ Calls' /\ at' \in [Designers -> Places]
        /\ updater' = "off"
    BY <1>1, <1>4 DEF Started, ScriptFails
  <2>2. faults' \in 0..MaxFaults
    BY <1>4, FaultCounts DEF Started, ScriptFails, Fails
  <2>3. running' \in BOOLEAN
    BY <1>4 DEF Started, ScriptFails, Tomcat
  <2>4. Desks' /\ Tomcat'
    BY <1>4, <2>1, <2>2, <2>3 DEF Started, ScriptFails, Desks, Tomcat, workspace
  <2> QED
    BY <1>4, <2>1, <2>4 DEF Started, ScriptFails, Tables, database
<1>5. CASE Stop
  <2>1. at' \in [Designers -> Places] /\ \A e \in Designers : at'[e] \notin Waiting
    BY <1>5 DEF Stop, Desks, Places, Waiting, AfterFailure
  <2>2. faults' \in 0..MaxFaults
    BY <1>5, FaultCounts DEF Stop
  <2>3. Desks' /\ Calls'
    BY <1>5, <2>1, ConstantsOK DEF Stop, Desks, Calls, workspace
  <2>4. Tomcat'
    BY <1>5, <2>2 DEF Stop, Tomcat
  <2> QED
    BY <1>5, <2>3, <2>4 DEF Stop, Tables, database
<1>6. CASE Restart
  BY <1>6 DEF Restart, Desks, Calls, Tomcat, Tables, workspace, database
<1> QED
  BY <1>2, <1>3, <1>4, <1>5, <1>6 DEF Console

\* Every variable has its type, whatever the number of designers, versions and
\* scripts.
THEOREM TypeCorrect == Spec => []TypeOK
<1>1. Init => TInv
  BY TInitially
<1>2. TInv /\ [Next]_vars => TInv'
  <2>1. TInv /\ UNCHANGED vars => TInv'
    BY DEF vars, workspace, server, database, TInv, Desks, Calls, Tomcat, Tables
  <2> QED
    BY <2>1, DesignerTypes, ServerTypes DEF Next
<1> QED
  BY <1>1, <1>2, SameTypes, PTL DEF Spec

-----------------------------------------------------------------------------
(* The scripts.  The next one is that after the schema, or the first one   *)
(* when the version could not be read; the first one is refused the second *)
(* time, which ends the start.                                             *)

InTurn == updater = "scripts" => next \in {1, schema + 1}

SInv == ScriptsInOrder /\ InTurn /\ RunsOnItsSchema

LEMMA SInitially == Init => SInv
<1> SUFFICES ASSUME Init PROVE SInv
  OBVIOUS
<1>1. applied = [i \in 1..schema |-> i]
  BY DEF Init
<1>2. ~running
  BY Zenon DEF Init
<1> QED
  BY <1>1, <1>2 DEF Init, SInv, ScriptsInOrder, InTurn, RunsOnItsSchema

\* What the tables accept as the next script follows the last one.
LEMMA AcceptedInTurn ==
  ASSUME TypeOK, SInv, RunScript
  PROVE  next = schema + 1
<1>1. next \in {1, schema + 1}
  BY DEF RunScript, SInv, InTurn
<1>2. ASSUME next = 1, schema # 0
      PROVE  FALSE
  <2>1. 1 \in DOMAIN applied /\ applied[1] = 1
    BY <1>2 DEF SInv, ScriptsInOrder, TypeOK
  <2>2. 1 \in Applied
    BY <2>1 DEF Applied
  <2> QED
    BY <1>2, <2>2, ConstantsOK DEF RunScript, Accepts
<1> QED
  BY <1>1, <1>2

LEMMA AppendedInTurn ==
  ASSUME NEW n \in Nat, NEW S, NEW seq \in Seq(S), seq = [i \in 1..n |-> i]
  PROVE  Append(seq, n + 1) = [i \in 1..(n + 1) |-> i]
<1>1. Len(seq) = n
  OBVIOUS
<1> QED
  BY <1>1

LEMMA SStep == TypeOK /\ SInv /\ [Next]_vars => SInv'
<1> SUFFICES ASSUME TypeOK, SInv, [Next]_vars
             PROVE  SInv'
  OBVIOUS
<1>1. ASSUME NEW d \in Designers, Open(d) \/ Job(d) \/ Close(d)
      PROVE  SInv'
  <2>1. UNCHANGED database
    BY <1>1 DEF Open, Job, Close, CreateFile, CheckVersion, CheckFails, Prepare,
         Undeploy, Deploy, DeployFails, Redeploy, RedeployFails, AppendVersion
  <2>2. CASE UNCHANGED <<deployed, running, updater, next>>
    BY <2>1, <2>2 DEF SInv, ScriptsInOrder, InTurn, RunsOnItsSchema, database
  <2>3. CASE Undeploy(d)
    <3>1. /\ UNCHANGED <<updater, next, schema, applied>>
          /\ \/ running' = FALSE
             \/ UNCHANGED <<deployed, running>>
      BY <2>3, Zenon DEF Undeploy, database
    <3>2. RunsOnItsSchema'
      BY <3>1 DEF SInv, RunsOnItsSchema
    <3> QED
      BY <3>1, <3>2 DEF SInv, ScriptsInOrder, InTurn
  <2>4. CASE Deploy(d) \/ Redeploy(d)
    <3>1. running' = FALSE /\ updater' = "query"
      BY <2>4 DEF Deploy, Redeploy, Start
    <3> QED
      BY <2>1, <3>1 DEF SInv, ScriptsInOrder, InTurn, RunsOnItsSchema, database
  <2> QED
    BY <1>1, <2>2, <2>3, <2>4 DEF Open, Job, Close, CreateFile, CheckVersion,
       CheckFails, Prepare, DeployFails, RedeployFails, AppendVersion, server
<1>2. CASE ReadVersion
  BY <1>2 DEF ReadVersion, NextAfter, TypeOK, SInv, ScriptsInOrder, InTurn,
       RunsOnItsSchema, database
<1>3. CASE RunScript
  <2>1. next = schema + 1
    BY <1>3, AcceptedInTurn
  <2>2. applied \in Seq(1..Scripts) /\ schema \in Nat
    BY DEF TypeOK
  <2>3. applied' = [i \in 1..schema' |-> i]
    BY <1>3, <2>1, <2>2, AppendedInTurn DEF RunScript, SInv, ScriptsInOrder
  <2>4. ~running /\ running' = running
    BY <1>3 DEF RunScript, TypeOK
  <2> QED
    BY <1>3, <2>1, <2>2, <2>3, <2>4 DEF RunScript, SInv, ScriptsInOrder, InTurn,
                                        RunsOnItsSchema
<1>4. CASE Started
  <2>1. deployed \in Versions /\ Needs[deployed] \in 1..Scripts
    BY <1>4, ConstantsOK DEF Started, TypeOK
  <2>2. schema >= Needs[deployed]
    BY <1>4, <2>1, ConstantsOK DEF Started, SInv, InTurn, TypeOK
  <2>3. /\ UNCHANGED <<deployed, schema, applied>>
        /\ updater' = "off"
    BY <1>4 DEF Started, Answer, database
  <2> QED
    BY <2>1, <2>2, <2>3, ConstantsOK DEF SInv, ScriptsInOrder, InTurn, RunsOnItsSchema
<1>5. CASE ScriptFails
  BY <1>5 DEF ScriptFails, Answer, SInv, ScriptsInOrder, InTurn, RunsOnItsSchema,
       database
<1>6. CASE Stop
  <2>1. running' = FALSE /\ updater' = "down" /\ UNCHANGED <<schema, applied>>
    BY <1>6 DEF Stop, database
  <2> QED
    BY <2>1 DEF SInv, ScriptsInOrder, InTurn, RunsOnItsSchema
<1>7. CASE Restart
  BY <1>7 DEF Restart, SInv, ScriptsInOrder, InTurn, RunsOnItsSchema, database
<1>8. CASE UNCHANGED vars
  BY <1>8 DEF vars, server, database, SInv, ScriptsInOrder, InTurn, RunsOnItsSchema
<1> QED
  BY <1>1, <1>2, <1>3, <1>4, <1>5, <1>6, <1>7, <1>8 DEF Next, Console

\* No script is left out, repeated or run out of its turn, for any consoles that
\* come and go, any starts that break off and any failure to read the version
\* (updateSchema).
THEOREM ScriptsCorrect == Spec => []ScriptsInOrder
<1>1. SInv => ScriptsInOrder
  BY DEF SInv
<1> QED
  BY SInitially, SStep, TypeCorrect, <1>1, PTL DEF Spec

\* A console that runs finds the schema it needs (contextInitialized).
THEOREM SchemaCorrect == Spec => []RunsOnItsSchema
<1>1. SInv => RunsOnItsSchema
  BY DEF SInv
<1> QED
  BY SInitially, SStep, TypeCorrect, <1>1, PTL DEF Spec

-----------------------------------------------------------------------------
(* What versions.txt lists.  A version is appended at the end of an update *)
(* that has deployed it, and a file is created once.                       *)

Kept ==
    /\ ListedIsKept
    /\ \A d \in Designers :
           at[d] \in {"deploying", "append"} => installed[d] \in tagged

LEMMA KeptStep == TypeOK /\ Kept /\ [Next]_vars => Kept'
<1> SUFFICES ASSUME TypeOK, Kept, [Next]_vars
             PROVE  Kept'
  OBVIOUS
<1>1. ASSUME NEW d \in Designers, Open(d) \/ Job(d) \/ Close(d)
      PROVE  Kept'
  <2>1. CASE Open(d)
    BY <2>1 DEF Open, Go, TypeOK, Kept, ListedIsKept, server
  <2>2. CASE CreateFile(d)
    BY <2>2 DEF CreateFile, Go, TypeOK, Kept, ListedIsKept, server
  <2>3. CASE CheckVersion(d) \/ CheckFails(d)
    BY <2>3 DEF CheckVersion, CheckFails, Go, TypeOK, Kept, ListedIsKept, server
  <2>4. CASE Prepare(d) \/ DeployFails(d) \/ RedeployFails(d)
    BY <2>4 DEF Prepare, DeployFails, RedeployFails, AfterFailure, Go, TypeOK, Kept,
                ListedIsKept, server, workspace
  <2>5. CASE Undeploy(d)
    <3>1. UNCHANGED <<file, first, installed, tagged>> /\ Go(d, "deploy")
      BY <2>5 DEF Undeploy, workspace
    <3> QED
      BY <3>1 DEF Go, TypeOK, Kept, ListedIsKept
  <2>6. CASE Deploy(d) \/ Redeploy(d)
    <3>1. /\ UNCHANGED <<file, first, installed>>
          /\ tagged \subseteq tagged'
          /\ \/ Go(d, "deploying") /\ installed[d] \in tagged'
             \/ Go(d, "redeploying")
      BY <2>6 DEF Deploy, Redeploy, workspace
    <3> QED
      BY <3>1 DEF Go, TypeOK, Kept, ListedIsKept
  <2>7. CASE AppendVersion(d)
    BY <2>7 DEF AppendVersion, Go, TypeOK, Kept, ListedIsKept, server
  <2>8. CASE Close(d)
    BY <2>8 DEF Close, Go, TypeOK, Kept, ListedIsKept, workspace
  <2> QED
    BY <1>1, <2>1, <2>2, <2>3, <2>4, <2>5, <2>6, <2>7, <2>8 DEF Job
<1>2. CASE Console \/ Stop \/ Restart
  <2>1. UNCHANGED <<file, first, installed, tagged>>
    BY <1>2 DEF Console, ReadVersion, RunScript, Started, ScriptFails, Stop, Restart,
                workspace
  <2>2. \A d \in Designers : at'[d] \in {"deploying", "append"} =>
                                at[d] \in {"deploying", "append"}
    <3>1. CASE ReadVersion \/ RunScript \/ Restart
      BY <3>1 DEF ReadVersion, RunScript, Restart
    <3>2. CASE Started \/ ScriptFails
      <4>1. CASE served = Nobody
        BY <3>2, <4>1 DEF Started, ScriptFails, Answer
      <4>2. CASE served # Nobody
        <5>1. at[served] \in {"deploying", "redeploying"} /\ served \in Designers
          BY <4>2 DEF TypeOK
        <5>2. CASE at[served] = "redeploying"
          <6>0. Answer({"OK"}) \/ Answer({"FAIL"}) \/ Answer({"OK", "FAIL"})
            BY <3>2 DEF Started, ScriptFails
          <6>1. Go(served, "failed")
            BY <4>2, <5>2, <6>0 DEF Answer, Go
          <6> QED
            BY <5>1, <6>1 DEF Go, TypeOK
        <5>3. CASE at[served] = "deploying"
          <6>1. \E to \in {"append", "failed", "redeploy"} : Go(served, to)
            BY <3>2, <4>2, <5>3 DEF Started, ScriptFails, Answer, AfterFailure
          <6> QED
            BY <5>1, <5>3, <6>1 DEF Go, TypeOK
        <5> QED
          BY <5>1, <5>2, <5>3
      <4> QED
        BY <4>1, <4>2
    <3>3. CASE Stop
      BY <3>3 DEF Stop, AfterFailure
    <3> QED
      BY <1>2, <3>1, <3>2, <3>3 DEF Console
  <2> QED
    BY <2>1, <2>2 DEF Kept, ListedIsKept
<1>3. CASE UNCHANGED vars
  BY <1>3 DEF vars, workspace, server, Kept, ListedIsKept
<1> QED
  BY <1>1, <1>2, <1>3 DEF Next

\* Whatever a versions.txt lists, beyond its first line, can be put back
\* (appendVersion, redeployPreviousTag).
THEOREM KeptCorrect == Spec => []ListedIsKept
<1>1. Init => Kept
  BY DEF Init, Kept, ListedIsKept
<1>2. Kept => ListedIsKept
  BY DEF Kept
<1> QED
  BY <1>1, <1>2, KeptStep, TypeCorrect, PTL DEF Spec

-----------------------------------------------------------------------------
(* An update that fails falls back.  While nothing else disturbs it, what  *)
(* is deployed follows from where the update is.                           *)

AsPlaced(d) ==
    /\ previous[d] \in tagged
    /\ \/ at[d] = "deploy" /\ deployed = NoVersion
       \/ at[d] \in {"deploying", "append", "ok"} /\ deployed = installed[d]
       \/ at[d] = "redeploy" /\ deployed \in {NoVersion, installed[d]}
       \/ at[d] = "redeploying" /\ deployed = previous[d]
       \/ at[d] = "failed" /\ deployed \in {previous[d], installed[d]}

Undisturbed == \A d \in Designers : steady[d] => AsPlaced(d)

\* A step that leaves the server and the versions of an update alone.
LEMMA StillAsPlaced ==
    ASSUME NEW d \in Designers, Undisturbed, steady'[d] => steady[d],
           at'[d] = at[d], tagged \subseteq tagged',
           UNCHANGED <<previous, installed, deployed>>
    PROVE  steady'[d] => AsPlaced(d)'
BY DEF Undisturbed, AsPlaced

LEMMA UndisturbedJob ==
    ASSUME TypeOK, Undisturbed, NEW d \in Designers, Open(d) \/ Job(d) \/ Close(d)
    PROVE  Undisturbed'
<1> USE DEF workspace, server, database
<1>0. SUFFICES ASSUME NEW e \in Designers, steady'[e] PROVE AsPlaced(e)'
  BY DEF Undisturbed
<1>1. tagged \subseteq Versions /\ NoVersion \notin tagged
  BY ConstantsOK DEF TypeOK
<1>2. CASE Open(d) \/ CreateFile(d) \/ CheckVersion(d) \/ CheckFails(d) \/ Prepare(d)
  <2>1. steady' = steady /\ at[d] \in {"closed", "check", "prepare"}
    BY <1>2 DEF Open, CreateFile, CheckVersion, CheckFails, Prepare
  <2>2. e # d
    BY <1>0, <2>1 DEF Undisturbed, AsPlaced
  <2>3. /\ at'[e] = at[e] /\ previous'[e] = previous[e] /\ installed'[e] = installed[e]
        /\ UNCHANGED <<deployed, tagged>>
    BY <1>2, <2>2 DEF Open, CreateFile, CheckVersion, CheckFails, Prepare, Go, TypeOK
  <2> QED
    BY <1>0, <2>1, <2>3 DEF Undisturbed, AsPlaced
<1>3. CASE Undeploy(d)
  <2>1. /\ at' = [at EXCEPT ![d] = "deploy"] /\ at[d] = "undeploy"
        /\ UNCHANGED <<installed, previous, tagged>>
    BY <1>3 DEF Undeploy, Go
  <2>2. ~steady[d]
    BY <2>1 DEF Undisturbed, AsPlaced
  <2>3. CASE /\ deployed' = NoVersion
             /\ steady' = [Disturbed(d) EXCEPT ![d] = /\ deployed = previous[d]
                                                      /\ deployed \in tagged]
    <3>1. e = d /\ deployed = previous[d] /\ deployed \in tagged
      BY <1>0, <2>3 DEF Disturbed
    <3> QED
      BY <2>1, <2>3, <3>1 DEF AsPlaced, TypeOK
  <2>4. CASE steady' = [steady EXCEPT ![d] = FALSE] /\ deployed' = deployed
    <3>1. e # d /\ steady[e]
      BY <1>0, <2>4 DEF TypeOK
    <3> QED
      BY <1>0, <2>1, <2>4, <3>1, StillAsPlaced DEF TypeOK
  <2> QED
    BY <1>3, <2>3, <2>4 DEF Undeploy
<1>4. CASE Deploy(d) \/ Redeploy(d)
  <2>1. /\ steady' = Disturbed(d) /\ UNCHANGED <<installed, previous>>
        /\ tagged \subseteq tagged'
        /\ \/ at' = [at EXCEPT ![d] = "deploying"] /\ deployed' = installed[d]
           \/ at' = [at EXCEPT ![d] = "redeploying"] /\ deployed' = previous[d]
    BY <1>4 DEF Deploy, Redeploy, Start, Go
  <2>2. e = d /\ steady[d]
    BY <1>0, <2>1 DEF Disturbed
  <2>3. previous[d] \in tagged'
    BY <2>1, <2>2 DEF Undisturbed, AsPlaced
  <2> QED
    BY <2>1, <2>2, <2>3 DEF AsPlaced, TypeOK
<1>5. CASE DeployFails(d)
  <2>1. /\ at' = [at EXCEPT ![d] = AfterFailure(d)] /\ at[d] = "deploy"
        /\ UNCHANGED <<installed, previous, tagged, deployed, steady>>
    BY <1>5 DEF DeployFails, Go
  <2>2. CASE e = d
    <3>1. previous[d] \in tagged /\ deployed = NoVersion
      BY <1>0, <2>1, <2>2 DEF Undisturbed, AsPlaced
    <3>2. at'[d] = "redeploy"
      BY <1>1, <2>1, <3>1 DEF AfterFailure, TypeOK
    <3> QED
      BY <2>1, <2>2, <3>1, <3>2 DEF AsPlaced
  <2>3. CASE e # d
    BY <1>0, <2>1, <2>3, StillAsPlaced DEF TypeOK
  <2> QED
    BY <2>2, <2>3
<1>6. CASE RedeployFails(d)
  <2>1. /\ at' = [at EXCEPT ![d] = "failed"] /\ at[d] = "redeploy"
        /\ UNCHANGED <<installed, previous, tagged, deployed>>
        /\ \/ (deployed # NoVersion \/ previous[d] \notin tagged) /\ steady' = steady
           \/ steady' = [steady EXCEPT ![d] = FALSE]
    BY <1>6 DEF RedeployFails, Go
  <2>2. steady[e] /\ (e = d => steady' = steady)
    BY <1>0, <2>1 DEF TypeOK
  <2>3. CASE e = d
    <3>1. previous[d] \in tagged /\ deployed \in {NoVersion, installed[d]}
      BY <2>1, <2>2, <2>3 DEF Undisturbed, AsPlaced
    <3>2. deployed # NoVersion
      BY <1>0, <2>1, <2>3, <3>1 DEF TypeOK
    <3> QED
      BY <2>1, <2>3, <3>1, <3>2 DEF AsPlaced, TypeOK
  <2>4. CASE e # d
    BY <1>0, <2>1, <2>2, <2>4, StillAsPlaced DEF TypeOK
  <2> QED
    BY <2>3, <2>4
<1>7. CASE AppendVersion(d)
  <2>1. /\ at[d] = "append"
        /\ at' = [at EXCEPT ![d] = "ok"] \/ at' = [at EXCEPT ![d] = "failed"]
        /\ UNCHANGED <<installed, previous, tagged, deployed, steady>>
    BY <1>7 DEF AppendVersion, Go
  <2>2. CASE e = d
    BY <1>0, <2>1, <2>2 DEF Undisturbed, AsPlaced, TypeOK
  <2>3. CASE e # d
    BY <1>0, <2>1, <2>3, StillAsPlaced DEF TypeOK
  <2> QED
    BY <2>2, <2>3
<1>8. CASE Close(d)
  <2>1. /\ at' = [at EXCEPT ![d] = "closed"] /\ steady' = [steady EXCEPT ![d] = FALSE]
        /\ UNCHANGED <<installed, previous, tagged, deployed>>
    BY <1>8 DEF Close, Go
  <2>2. e # d /\ steady[e]
    BY <1>0, <2>1 DEF TypeOK
  <2> QED
    BY <1>0, <2>1, <2>2, StillAsPlaced DEF TypeOK
<1> QED
  BY <1>2, <1>3, <1>4, <1>5, <1>6, <1>7, <1>8 DEF Job

LEMMA UndisturbedStep == TypeOK /\ Undisturbed /\ [Next]_vars => Undisturbed'
<1> SUFFICES ASSUME TypeOK, Undisturbed, [Next]_vars PROVE Undisturbed'
  OBVIOUS
<1> USE DEF workspace, server, database
<1>1. ASSUME NEW d \in Designers, Open(d) \/ Job(d) \/ Close(d) PROVE Undisturbed'
  BY <1>1, UndisturbedJob
<1>2. CASE ReadVersion \/ RunScript \/ Restart \/ UNCHANGED vars
  BY <1>2 DEF ReadVersion, RunScript, Restart, vars, Undisturbed, AsPlaced
<1>3. CASE Started \/ ScriptFails
  <2>1. UNCHANGED <<installed, previous, tagged, deployed, steady>>
    BY <1>3 DEF Started, ScriptFails
  <2>2. Answer({"OK"}) \/ Answer({"FAIL"}) \/ Answer({"OK", "FAIL"})
    BY <1>3 DEF Started, ScriptFails
  <2> SUFFICES ASSUME NEW e \in Designers, steady[e] PROVE AsPlaced(e)'
    BY <2>1 DEF Undisturbed
  <2>3. CASE e # served
    <3>1. at'[e] = at[e]
      BY <2>2, <2>3 DEF Answer, Go, TypeOK
    <3> QED
      BY <2>1, <3>1, StillAsPlaced
  <2>4. CASE e = served /\ at[e] = "redeploying"
    <3>1. Go(e, "failed")
      BY <2>2, <2>4, ConstantsOK DEF Answer, Go
    <3> QED
      BY <2>1, <2>4, <3>1 DEF Go, Undisturbed, AsPlaced, TypeOK
  <2>5. CASE e = served /\ at[e] = "deploying"
    <3>1. Go(e, "append") \/ Go(e, AfterFailure(e))
      BY <2>2, <2>5, ConstantsOK DEF Answer, Go
    <3>2. previous[e] \in tagged /\ deployed = installed[e]
      BY <2>5 DEF Undisturbed, AsPlaced
    <3>3. AfterFailure(e) = "redeploy"
      BY <3>2, ConstantsOK DEF AfterFailure, TypeOK
    <3> QED
      BY <2>1, <3>1, <3>2, <3>3 DEF Go, AsPlaced, TypeOK
  <2> QED
    BY <2>3, <2>4, <2>5 DEF TypeOK
<1>4. CASE Stop
  BY <1>4 DEF Stop, Undisturbed
<1> QED
  BY <1>1, <1>2, <1>3, <1>4 DEF Next, Console

\* An update that fails leaves the previous console deployed, or the new one,
\* if the previous one was there and kept and nothing came between, for any
\* designers, versions and faults (deployAdminConsole).
THEOREM FallsBackCorrect == Spec => []FallsBack
<1>1. Init => Undisturbed
  BY DEF Init, Undisturbed
<1>2. Undisturbed => FallsBack
  BY DEF Undisturbed, AsPlaced, FallsBack
<1> QED
  BY <1>1, <1>2, UndisturbedStep, TypeCorrect, PTL DEF Spec
=============================================================================
