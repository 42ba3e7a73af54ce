---------------------------- MODULE SoftwareUpdate ----------------------------
(***************************************************************************)
(* How a new version of the console gets from a designer to the server,    *)
(* and its database to the schema that version needs.                      *)
(*                                                                         *)
(*   - a designer looks in versions.txt of its workspace whether it is     *)
(*     newer than what it has deployed, and if so undeploys the console    *)
(*     and deploys the one it carries, through the manager of Tomcat;      *)
(*   - Tomcat keeps what is deployed with a tag, and starts the console;   *)
(*   - the console, as it starts, runs the scripts its database has not    *)
(*     seen, one transaction each.                                         *)
(*                                                                         *)
(* Several designers share a server, and none knows of the others.  Calls  *)
(* get lost, scripts fail, the server stops and designers are killed.      *)
(* The versions of a schema are compared as texts too; there are few and   *)
(* their order is that of the list.                                        *)
(***************************************************************************)
EXTENDS Naturals, Sequences

CONSTANTS Designers,  \* designers, each with a workspace
          Versions,   \* versions of the designer, and of the console in it
          Text,       \* the order of their names as texts
          Scripts,    \* how many scripts there are: 1.0, 1.1, ...
          Needs,      \* the last script each version of the console knows
          Again,      \* scripts that would succeed a second time
          NoVersion, Nobody,
          MaxFaults   \* a bound on what goes wrong

ASSUME ConstantsOK ==
    /\ Versions \subseteq Nat
    /\ Text \in [Versions -> Nat]
    /\ Scripts \in Nat
    /\ Needs \in [Versions -> 1..Scripts]
    /\ Again \subseteq 2..Scripts
    /\ NoVersion \notin Versions /\ Nobody \notin Designers
    /\ MaxFaults \in Nat

VARIABLES
    installed,  \* Bundle-Version of each designer
    file,       \* the lines of versions.txt in its workspace, {} without it
    at,         \* where it is
    previous,   \* VersionUpdateChecker.previousVersion
    deployed,   \* the version deployed as /admin-console
    tagged,     \* the versions Tomcat keeps
    running,    \* the console has started
    updater,    \* "off", "query", "scripts"; or "down", the whole server
    served,     \* the designer whose call started it
    next,       \* the next script
    schema,     \* the number of SCHEMA_VERSION.VERSION_NUM, 0 without table
    applied,    \* the scripts committed so far
    faults,     \* how many things have gone wrong
    first,      \* the line each versions.txt was created with
    steady      \* nothing else has disturbed the update of this designer

workspace == <<installed, file, previous, first>>
server    == <<deployed, tagged, running, updater, served, next>>
database  == <<schema, applied>>
vars == <<workspace, at, server, database, faults, steady>>

-----------------------------------------------------------------------------
Go(d, to) == at' = [at EXCEPT ![d] = to]

Fault == faults < MaxFaults /\ faults' = faults + 1

\* containsOlderVersions: versions are compared as texts.
IsUpdated(d) == \A v \in file[d] : Text[installed[d]] > Text[v]

\* The latest of those that are older, if any.
Older(d) == {v \in file[d] : Text[v] < Text[installed[d]]}
PreviousVersion(d) ==
    IF Older(d) = {} THEN {NoVersion}
    ELSE {v \in Older(d) : \A w \in Older(d) : Text[w] <= Text[v]}

\* Mutant: the previous version is not put back.
GiveUp(d) == "failed"

\* The job is over, or goes on to put the previous version back.
AfterFailure(d) == IF previous[d] = NoVersion THEN "failed" ELSE "redeploy"

\* What one designer does to the server disturbs all the others.
Disturbed(d) == [e \in Designers |-> e = d /\ steady[e]]

\* Init is a server on its first start, with the console that was shipped.
Init ==
    /\ installed \in [Designers -> Versions]
    /\ file = [d \in Designers |-> {}]
    /\ at = [d \in Designers |-> "closed"]
    /\ previous = [d \in Designers |-> NoVersion]
    /\ deployed \in Versions /\ tagged = {}
    /\ running = FALSE /\ updater = "query" /\ served = Nobody /\ next = 1
    /\ schema = 0 /\ applied = <<>>
    /\ faults = 0
    /\ first = [d \in Designers |-> NoVersion]
    /\ steady = [d \in Designers |-> FALSE]

-----------------------------------------------------------------------------
(* The designer.                                                           *)

\* It is opened, perhaps after an update of its plug-ins.
Open(d) ==
    /\ at[d] = "closed"
    /\ \E v \in {v \in Versions : v >= installed[d]} :
           installed' = [installed EXCEPT ![d] = v]
    /\ Go(d, "check")
    /\ UNCHANGED <<file, previous, first, server, database, faults, steady>>

\* isVersionUpdated, without a file: one is created, and nothing is updated.
CreateFile(d) ==
    /\ at[d] = "check" /\ file[d] = {}
    /\ \/ /\ file' = [file EXCEPT ![d] = {installed[d]}]
          /\ first' = [first EXCEPT ![d] = installed[d]]
          /\ UNCHANGED faults
       \/ Fault /\ UNCHANGED <<file, first>>
    /\ Go(d, "open")
    /\ UNCHANGED <<installed, previous, server, database, steady>>

\* ... and with one.
CheckVersion(d) ==
    /\ at[d] = "check" /\ file[d] # {}
    /\ \E v \in PreviousVersion(d) : previous' = [previous EXCEPT ![d] = v]
    /\ Go(d, IF IsUpdated(d) THEN "prepare" ELSE "open")
    /\ UNCHANGED <<installed, file, first, server, database, faults, steady>>

\* ... A file that cannot be read counts as one without lines.
CheckFails(d) ==
    /\ at[d] = "check" /\ file[d] # {}
    /\ Fault
    /\ previous' = [previous EXCEPT ![d] = NoVersion]
    /\ Go(d, "prepare")
    /\ UNCHANGED <<installed, file, first, server, database, steady>>

\* Mutant: the version is noted before anything is done.
PrepareNoted(d) ==
    /\ at[d] = "prepare"
    /\ \/ /\ Go(d, "undeploy") /\ UNCHANGED faults
          /\ file' = [file EXCEPT ![d] = @ \cup {installed[d]}]
       \/ Go(d, "failed") /\ Fault /\ UNCHANGED file
    /\ UNCHANGED <<installed, previous, first, server, database, steady>>

\* Server location, proxy and WAR are looked for before anything is done.
Prepare(d) ==
    /\ at[d] = "prepare"
    /\ \/ Go(d, "undeploy") /\ UNCHANGED faults
       \/ Go(d, "failed") /\ Fault
    /\ UNCHANGED <<workspace, server, database, steady>>

\* The manager of Tomcat does one thing after the other.
Serving == updater = "off"

\* Mutant: the console is left where it is.
LeaveDeployed(d) ==
    /\ at[d] = "undeploy"
    /\ Go(d, "deploy")
    /\ UNCHANGED <<workspace, server, database, faults, steady>>

\* undeployAdminConsole: whatever comes of it, deploying comes next.
Undeploy(d) ==
    /\ at[d] = "undeploy"
    /\ \/ /\ Serving
          /\ deployed' = NoVersion /\ running' = FALSE
          /\ steady' = [Disturbed(d) EXCEPT ![d] = /\ deployed = previous[d]
                                                   /\ deployed \in tagged]
          /\ UNCHANGED faults
       \/ /\ Fault \/ (updater = "down" /\ UNCHANGED faults)
          /\ steady' = [steady EXCEPT ![d] = FALSE]
          /\ UNCHANGED <<deployed, running>>
    /\ Go(d, "deploy")
    /\ UNCHANGED <<workspace, tagged, updater, served, next, database>>

\* The console of a version is put in place and starts.
Start(d, v) ==
    /\ deployed' = v
    /\ running' = FALSE /\ updater' = "query" /\ served' = d
    /\ steady' = Disturbed(d)

\* deployAdminConsole: the WAR is sent ...
Deploy(d) ==
    /\ at[d] = "deploy"
    /\ Serving /\ deployed = NoVersion
    /\ tagged' = tagged \cup {installed[d]}
    /\ Start(d, installed[d])
    /\ Go(d, "deploying")
    /\ UNCHANGED <<workspace, next, database, faults>>

\* ... or refused, there being a console, or does not get there.
DeployFails(d) ==
    /\ at[d] = "deploy"
    /\ \/ Serving /\ deployed # NoVersion /\ UNCHANGED faults
       \/ updater = "down" /\ UNCHANGED faults
       \/ Fault
    /\ Go(d, AfterFailure(d))
    /\ UNCHANGED <<workspace, server, database, steady>>

\* redeployPreviousTag: the WAR that Tomcat has kept for the previous version.
Redeploy(d) ==
    /\ at[d] = "redeploy"
    /\ Serving /\ deployed = NoVersion /\ previous[d] \in tagged
    /\ Start(d, previous[d])
    /\ Go(d, "redeploying")
    /\ UNCHANGED <<workspace, tagged, next, database, faults>>

\* ... It has none, or there is a console already, or the call is lost.
RedeployFails(d) ==
    /\ at[d] = "redeploy"
    /\ \/ /\ Serving /\ (deployed # NoVersion \/ previous[d] \notin tagged)
          /\ UNCHANGED <<faults, steady>>
       \/ /\ Fault \/ (updater = "down" /\ UNCHANGED faults)
          /\ steady' = [steady EXCEPT ![d] = FALSE]
    /\ Go(d, "failed")
    /\ UNCHANGED <<workspace, server, database>>

\* appendVersion, when the console was deployed.
AppendVersion(d) ==
    /\ at[d] = "append"
    /\ \/ /\ file' = [file EXCEPT ![d] = @ \cup {installed[d]}]
          /\ Go(d, "ok")
          /\ UNCHANGED faults
       \/ Fault /\ Go(d, "failed") /\ UNCHANGED file
    /\ UNCHANGED <<installed, previous, first, server, database, steady>>

\* The designer is closed; its job, if there is one, ends with it.
Close(d) ==
    /\ at[d] # "closed"
    /\ IF at[d] \in {"open", "ok", "failed"} THEN UNCHANGED faults ELSE Fault
    /\ Go(d, "closed")
    /\ served' = IF served = d THEN Nobody ELSE served
    /\ steady' = [steady EXCEPT ![d] = FALSE]
    /\ UNCHANGED <<workspace, deployed, tagged, running, updater, next, database>>

-----------------------------------------------------------------------------
(* The server: the console starts, SchemaUpdater.updateSchema.             *)

\* Mutant: >= in place of >.
NextAfterSame(version) == IF version = 0 THEN 1 ELSE version

\* The first script of a version greater than the one that was found.
NextAfter(version) == version + 1

\* VERSION_NUM is read; any exception means there is none.
ReadVersion ==
    /\ updater = "query"
    /\ \/ next' = NextAfter(schema) /\ UNCHANGED faults
       \/ next' = NextAfter(0) /\ Fault
    /\ updater' = "scripts"
    /\ UNCHANGED <<workspace, at, deployed, tagged, running, served, database,
                   steady>>

Applied == {applied[i] : i \in DOMAIN applied}

\* Tables and columns can neither be altered before they are there nor be
\* created again.
Accepts(k) == (k > 1 => 1 \in Applied) /\ (k \in Applied => k \in Again)

\* One script and its VERSION_NUM, in a transaction.
RunScript ==
    /\ updater = "scripts" /\ next <= Needs[deployed]
    /\ Accepts(next)
    /\ schema' = next
    /\ applied' = Append(applied, next)
    /\ next' = next + 1
    /\ UNCHANGED <<workspace, at, deployed, tagged, running, updater, served,
                   faults, steady>>

\* The manager answers whoever is there for it.  The job of a designer does not
\* look at the answer to a redeployment.
Answer(answers) ==
    /\ updater' = "off" /\ served' = Nobody
    /\ IF served = Nobody THEN UNCHANGED at
       ELSE \E answer \in answers :
           Go(served, IF at[served] = "redeploying" THEN "failed"
                      ELSE IF answer = "OK" THEN "append"
                      ELSE AfterFailure(served))

\* All scripts are there: the console is open to its users.  The answer may get
\* lost.
Started ==
    /\ updater = "scripts" /\ next > Needs[deployed]
    /\ running' = TRUE
    /\ \/ Answer({"OK"}) /\ UNCHANGED faults
       \/ Answer({"FAIL"}) /\ Fault
    /\ UNCHANGED <<workspace, deployed, tagged, next, database, steady>>

Fails == IF Accepts(next) THEN Fault ELSE UNCHANGED faults

\* Mutant: the exception is only logged.
FailQuietly ==
    /\ updater = "scripts" /\ next <= Needs[deployed]
    /\ Fails
    /\ running' = TRUE
    /\ Answer({"OK"})
    /\ UNCHANGED <<workspace, deployed, tagged, next, database, steady>>

\* A script that cannot be read or run is rolled back, and the exception keeps
\* the console from starting.  It stays deployed; what the manager answers to
\* that depends on the Tomcat.
ScriptFails ==
    /\ updater = "scripts" /\ next <= Needs[deployed]
    /\ Fails
    /\ Answer({"OK", "FAIL"})
    /\ UNCHANGED <<workspace, deployed, tagged, running, next, database, steady>>

\* The server stops, in the middle of a script perhaps, and starts again.
Stop ==
    /\ updater # "down"
    /\ Fault
    /\ running' = FALSE /\ updater' = "down" /\ served' = Nobody
    /\ at' = [d \in Designers |->
                 CASE at[d] = "deploying" -> AfterFailure(d)
                   [] at[d] = "redeploying" -> "failed"
                   [] OTHER -> at[d]]
    /\ steady' = [d \in Designers |-> FALSE]
    /\ UNCHANGED <<workspace, deployed, tagged, next, database>>

Restart ==
    /\ updater = "down"
    /\ updater' = IF deployed = NoVersion THEN "off" ELSE "query"
    /\ UNCHANGED <<workspace, at, deployed, tagged, running, served, next,
                   database, faults, steady>>

-----------------------------------------------------------------------------
Job(d) == \/ CreateFile(d) \/ CheckVersion(d) \/ CheckFails(d)
          \/ Prepare(d) \/ Undeploy(d)
          \/ Deploy(d) \/ DeployFails(d) \/ Redeploy(d) \/ RedeployFails(d)
          \/ AppendVersion(d)

Console == ReadVersion \/ RunScript \/ Started \/ ScriptFails

Next == \/ \E d \in Designers : Open(d) \/ Job(d) \/ Close(d)
        \/ Console
        \/ Stop \/ Restart

Spec == Init /\ [][Next]_vars

\* Jobs and starting consoles go on, a server is started again, and a designer
\* that its user has closed is opened another day.
FairSpec ==
    /\ Spec
    /\ WF_vars(Console) /\ WF_vars(Restart)
    /\ \A d \in Designers :
           WF_vars(Job(d)) /\ WF_vars(Open(d)) /\ WF_vars(Close(d))

-----------------------------------------------------------------------------
(* Properties.                                                             *)

Places == {"closed", "check", "open", "prepare", "undeploy", "deploy",
           "deploying", "redeploy", "redeploying", "append", "ok", "failed"}

\* Every variable has its type; a console that starts is deployed, and the
\* designer that is served waits for the answer.
TypeOK ==
    /\ installed \in [Designers -> Versions]
    /\ file \in [Designers -> SUBSET Versions]
    /\ at \in [Designers -> Places]
    /\ previous \in [Designers -> Versions \cup {NoVersion}]
    /\ deployed \in Versions \cup {NoVersion}
    /\ tagged \subseteq Versions
    /\ running \in BOOLEAN
    /\ updater \in {"off", "query", "scripts", "down"}
    /\ updater \in {"query", "scripts"} => deployed # NoVersion
    /\ updater # "off" => ~running
    /\ served \in Designers \cup {Nobody}
    /\ \A d \in Designers : served = d <=> at[d] \in {"deploying", "redeploying"}
    /\ served # Nobody => updater \in {"query", "scripts"}
    /\ next \in 1..(Scripts + 1)
    /\ schema \in 0..Scripts
    /\ applied \in Seq(1..Scripts)
    /\ faults \in 0..MaxFaults
    /\ first \in [Designers -> Versions \cup {NoVersion}]
    /\ steady \in [Designers -> BOOLEAN]

\* Every script up to the version of the schema is applied once and in its
\* turn, whatever consoles come and go, whichever starts break off, and also
\* when the version could not be read (updateSchema).
ScriptsInOrder == applied = [i \in 1..schema |-> i]

\* A console that runs has all that it needs in its database: an update that
\* failed keeps it from starting (updateSchema, contextInitialized).
RunsOnItsSchema == running => deployed # NoVersion /\ schema >= Needs[deployed]

\* What versions.txt lists, beyond the line it was created with, Tomcat has
\* kept, so that it can be put back (appendVersion, redeployPreviousTag).
ListedIsKept == \A d \in Designers : file[d] \subseteq tagged \cup {first[d]}

\* An update that fails leaves a console deployed, the previous or the new one,
\* if the previous one was there and kept, and nothing but the update came
\* between (deployAdminConsole).
FallsBack ==
    \A d \in Designers :
        at[d] = "failed" /\ steady[d] => deployed \in {previous[d], installed[d]}

\* An update of the console is under way.
Working == {"undeploy", "deploy", "deploying", "redeploy", "redeploying", "append"}

\* A designer whose versions.txt only lists older versions is listed in the end,
\* its console deployed, whatever has failed; only others that are for ever at
\* it too can keep it from that (isVersionUpdated, AdminConsoleUpdateJob.run).
UpdatedInTheEnd ==
    \A d \in Designers :
        <>[](file[d] # {} /\ IsUpdated(d)) =>
            []<>(\E e \in Designers \ {d} : at[e] \in Working)
=============================================================================
