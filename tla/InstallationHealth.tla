------------------------- MODULE InstallationHealth -------------------------
(***************************************************************************)
(* What the console shows of an installation: INSTALLATION.STATUS and its  *)
(* STATUS_ENTRY rows, written by                                           *)
(*                                                                         *)
(*   - the heartbeats of the installation, in requests of the server;      *)
(*   - the InstallationHealthJob, which every minute marks as down what    *)
(*     has not been heard of for a while;                                  *)
(*   - the StatusEntryCleanupJob, which deletes rows that are days old.    *)
(*                                                                         *)
(* Each of the first two reads the latest row in one step and writes in    *)
(* another, when its session is flushed.  No row but the latest is ever    *)
(* looked at again, so a row that is written replaces the latest one when  *)
(* its date is not older.  Dates are kept as ages, in ticks of the job.    *)
(***************************************************************************)
EXTENDS Naturals

CONSTANTS Installations,
          Inactive,    \* minutesInactive, in ticks
          Keep,        \* daysInThePast, in ticks
          NoRow,       \* no STATUS_ENTRY row
          NoRequest,   \* no request of the installation in the server
          MaxGap,      \* a bound on the ticks between two rounds of the job
          MaxDelay,    \* a bound on the ticks from a read to its flush
          MaxChanges,  \* a bound on the changes of the installations
          MaxFailures  \* a bound on the requests whose flush fails

ASSUME ConstantsOK ==
    /\ Inactive \in Nat /\ Keep \in Nat
    /\ MaxGap \in Nat
    /\ MaxDelay \in 0..Keep
    /\ MaxChanges \in Nat /\ MaxFailures \in Nat

Status == {"OK", "PLAYER_DOWN", "MACHINE_DOWN"}
Ages == 0..(Keep + 1)
Row == [age : Ages, status : Status]
ASSUME NoRowOK == NoRow \notin Row

\* What a session will write: a status, and a row of that date.
Request == [age : 0..MaxDelay, status : Status, update : BOOLEAN]
ASSUME NoRequestOK == NoRequest \notin Request

VARIABLES
    machine,   \* what the installation is: what it reports, or MACHINE_DOWN
    status,    \* INSTALLATION.STATUS
    latest,    \* its latest STATUS_ENTRY row
    request,   \* its heartbeat in the server
    found,     \* InstallationHealthJob: installations still to be marked
    marking,   \* ... the one whose row it has read
    mark,      \* ... and what it will write
    reported,  \* installations heard of since the job selected them
    gap,       \* ticks since the job last selected
    changes,   \* how often installations have changed
    failures   \* how many requests have failed

server == <<status, latest>>
job == <<found, marking, mark>>
bounds == <<changes, failures>>
vars == <<machine, server, request, job, reported, gap, bounds>>

Older(age) == IF age > Keep THEN age ELSE age + 1

\* updateInstallationStatusInternal, up to the flush: a row of that status is
\* given the date of now, otherwise there will be a new one.
Prepared(i, st) ==
    [age |-> 0, status |-> st,
     update |-> latest[i] # NoRow /\ latest[i].status = st]

\* Mutant: the status is only set along with a new row.
WriteNew(i, w) ==
    /\ status' = IF w.update THEN status ELSE [status EXCEPT ![i] = w.status]
    /\ latest' = [latest EXCEPT ![i] = [age |-> w.age, status |-> w.status]]

\* ... the flush.  Of two rows of one date either may come first.
Write(i, w) ==
    /\ status' = [status EXCEPT ![i] = w.status]
    /\ \/ /\ latest[i] # NoRow => latest[i].age >= w.age
          /\ latest' = [latest EXCEPT ![i] = [age |-> w.age, status |-> w.status]]
       \/ /\ latest[i] # NoRow /\ latest[i].age <= w.age
          /\ latest' = latest

-----------------------------------------------------------------------------
\* An installation is created as OK, before any machine reports for it.
Init ==
    /\ machine \in [Installations -> Status]
    /\ status = [i \in Installations |-> "OK"]
    /\ latest = [i \in Installations |-> [age |-> 0, status |-> "OK"]]
    /\ request = [i \in Installations |-> NoRequest]
    /\ found = {} /\ marking = {} /\ mark = NoRequest
    /\ reported = {}
    /\ gap = 0
    /\ changes = 0 /\ failures = 0

\* The machine or its player goes down or comes back.
Change(i) ==
    /\ changes < MaxChanges
    /\ \E st \in Status \ {machine[i]} : machine' = [machine EXCEPT ![i] = st]
    /\ changes' = changes + 1
    /\ UNCHANGED <<server, request, job, reported, gap, failures>>

\* handleRequest: the heartbeat is read, and the latest row.
Receive(i) ==
    /\ machine[i] # "MACHINE_DOWN"
    /\ request[i] = NoRequest
    /\ request' = [request EXCEPT ![i] = Prepared(i, machine[i])]
    /\ UNCHANGED <<machine, server, job, reported, gap, bounds>>

\* ... its session is flushed.  The row it was to update may have been
\* deleted; then the flush fails.
Flush(i) ==
    /\ request[i] # NoRequest
    /\ ~(request[i].update /\ latest[i] = NoRow)
    /\ Write(i, request[i])
    /\ request' = [request EXCEPT ![i] = NoRequest]
    /\ reported' = reported \cup {i}
    /\ UNCHANGED <<machine, job, gap, bounds>>

\* ... or not, after an exception.
RequestFails(i) ==
    /\ request[i] # NoRequest
    /\ \/ /\ failures < MaxFailures
          /\ failures' = failures + 1
       \/ /\ request[i].update /\ latest[i] = NoRow
          /\ failures' = failures
    /\ request' = [request EXCEPT ![i] = NoRequest]
    /\ UNCHANGED <<machine, server, job, reported, gap, changes>>

-----------------------------------------------------------------------------
\* Mutant: the date of the latest row is not looked at.
SilentAlways(i) == status[i] # "MACHINE_DOWN" /\ latest[i] # NoRow

\* A row of the job's query.
Silent(i) ==
    /\ status[i] # "MACHINE_DOWN"
    /\ latest[i] # NoRow
    /\ latest[i].age > Inactive

\* InstallationHealthJob.execute: the query.  The job is not run twice at once.
Select ==
    /\ found = {} /\ marking = {}
    /\ found' = {i \in Installations : Silent(i)}
    /\ reported' = {}
    /\ gap' = 0
    /\ UNCHANGED <<machine, server, request, marking, mark, bounds>>

Rest(i) == found \ {i}

\* updateInstallationStatuses, one installation after the other: the read ...
ReadLatest(i) ==
    /\ i \in found /\ marking = {}
    /\ found' = Rest(i)
    /\ marking' = {i}
    /\ mark' = Prepared(i, "MACHINE_DOWN")
    /\ UNCHANGED <<machine, server, request, reported, gap, bounds>>

\* ... and the flush.
MarkDown(i) ==
    /\ marking = {i}
    /\ Write(i, mark)
    /\ marking' = {} /\ mark' = NoRequest
    /\ UNCHANGED <<machine, request, found, reported, gap, bounds>>

\* Mutant: rows are deleted as soon as they count as silent.
CleanUpEarly ==
    /\ \E i \in Installations : latest[i] # NoRow /\ latest[i].age > Inactive
    /\ latest' = [i \in Installations |->
                     IF latest[i] # NoRow /\ latest[i].age > Inactive
                     THEN NoRow ELSE latest[i]]
    /\ UNCHANGED <<machine, status, request, job, reported, gap, bounds>>

\* StatusEntryCleanupJob.execute.
CleanUp ==
    /\ \E i \in Installations : latest[i] # NoRow /\ latest[i].age > Keep
    /\ latest' = [i \in Installations |->
                     IF latest[i] # NoRow /\ latest[i].age > Keep
                     THEN NoRow ELSE latest[i]]
    /\ UNCHANGED <<machine, status, request, job, reported, gap, bounds>>

\* Time passes.
Tick ==
    /\ gap < MaxGap
    /\ \A i \in Installations :
           request[i] # NoRequest => request[i].age < MaxDelay
    /\ marking # {} => mark.age < MaxDelay
    /\ gap' = gap + 1
    /\ latest' = [i \in Installations |->
                     IF latest[i] = NoRow THEN NoRow
                     ELSE [latest[i] EXCEPT !.age = Older(@)]]
    /\ request' = [i \in Installations |->
                     IF request[i] = NoRequest THEN NoRequest
                     ELSE [request[i] EXCEPT !.age = @ + 1]]
    /\ mark' = IF marking = {} THEN mark ELSE [mark EXCEPT !.age = @ + 1]
    /\ UNCHANGED <<machine, status, found, marking, reported, bounds>>

-----------------------------------------------------------------------------
Job == Select \/ \E i \in Installations : ReadLatest(i) \/ MarkDown(i)

Next == \/ \E i \in Installations :
              Change(i) \/ Receive(i) \/ Flush(i) \/ RequestFails(i)
        \/ Job
        \/ CleanUp
        \/ Tick

Spec == Init /\ [][Next]_vars

\* Quartz runs the health job every minute, a machine that is up sends its
\* heartbeats, and the server answers them.  The cleanup job owes nothing.
FairSpec ==
    /\ Spec
    /\ WF_vars(Tick) /\ WF_vars(Job)
    /\ \A i \in Installations : /\ WF_vars(Receive(i))
                                /\ WF_vars(Flush(i) \/ RequestFails(i))

-----------------------------------------------------------------------------
(* Properties.                                                             *)

\* Every variable has its type; the job marks at most one at a time.
TypeOK ==
    /\ machine \in [Installations -> Status]
    /\ status \in [Installations -> Status]
    /\ latest \in [Installations -> Row \cup {NoRow}]
    /\ request \in [Installations -> Request \cup {NoRequest}]
    /\ found \subseteq Installations
    /\ marking = {} \/ \E i \in Installations : marking = {i} /\ i \notin found
    /\ IF marking = {} THEN mark = NoRequest ELSE mark \in Request
    /\ reported \subseteq Installations
    /\ gap \in 0..MaxGap
    /\ changes \in 0..MaxChanges /\ failures \in 0..MaxFailures

\* The job marks nothing as down that was heard of in the last minutes, unless
\* its heartbeat was written after the job had selected it
\* (updateInstallationStatuses).
MarkedForSilence ==
    [][\A i \in Installations :
          marking = {i} /\ marking' = {} /\ i \notin reported =>
              latest[i] = NoRow \/ latest[i].age > Inactive]_vars

\* A machine that stays down is shown as down for good, although its rows are
\* deleted and its last heartbeat may be written late (execute of both jobs).
DeadIsMarked ==
    \A i \in Installations :
        <>[](machine[i] = "MACHINE_DOWN") => <>[](status[i] = "MACHINE_DOWN")

\* A machine that keeps reporting is shown for what it is again and again:
\* the job may mark it wrongly, never for good (updateInstallationStatusInternal).
AliveIsShown ==
    \A i \in Installations : \A st \in Status \ {"MACHINE_DOWN"} :
        <>[](machine[i] = st) => []<>(status[i] = st)
=============================================================================
