-------------------------- MODULE ContentRetrieval --------------------------
(***************************************************************************)
(* The content retriever of the bootstrap manager: the DEPLOYMENT,         *)
(* RESOURCE and PENDING tables it shares with the player, the files it     *)
(* writes, and the handlers a thread pool runs next to each other:         *)
(*                                                                         *)
(*   - a DescriptorHandler downloads the descriptor of a deployment and    *)
(*     enters a RESOURCE and a PENDING row for each resource not there yet;*)
(*   - a ResourceHandler downloads one resource, resuming a partial file,  *)
(*     and removes the PENDING row when the checksum of the file is right; *)
(*   - the TimingHandler wakes up again and again, retries what is neither *)
(*     downloaded nor being downloaded, and gives up after RetryLimit.     *)
(*                                                                         *)
(* A RESOURCE row is entered together with its one PENDING row, so a row   *)
(* is named <<d, k>>: resource k as deployment d entered it.  A resource   *)
(* k stands for a URL and its CRC; a file is a sequence of blocks of as    *)
(* many buffers as ResourceHandler copies between two of its reports.      *)
(***************************************************************************)
EXTENDS Naturals, Sequences, FiniteSets

CONSTANTS Deployments,  \* deployments, named by the URL of their descriptor
          Resources,    \* resources, named by their URL
          ResourcesOf,  \* the resources each deployment gathers
          Sized,        \* resources whose checksum carries their size
          Blocks,       \* the length of a resource, in blocks
          RetryLimit,   \* Config.getResourceRetryLimit()
          NoUrl,        \* no URL at all
          Handlers,     \* a bound on the handlers in the pool at one time
          MaxFiles,     \* a bound on the files created for one row
          MaxDeploys,   \* a bound on the deploy messages
          Faults,       \* the kinds of failure that may happen
          MaxFaults     \* a bound on their number

FaultKinds == {"crash", "truncated", "rollback"}

ASSUME ConstantsOK ==
    /\ ResourcesOf \in [Deployments -> SUBSET Resources]
    /\ Deployments \cap Resources = {}
    /\ NoUrl \notin Deployments \cup Resources
    /\ Sized \subseteq Resources
    /\ Blocks \in Nat \ {0}
    /\ RetryLimit \in Nat
    /\ MaxFiles \in Nat
    /\ MaxDeploys \in Nat
    /\ Faults \subseteq FaultKinds
    /\ MaxFaults \in Nat

Rows == Deployments \X Resources
Urls == Deployments \cup Resources
Jobs == [d : Deployments \cup {NoUrl}, k : Urls \cup {NoUrl}, start : 0..Blocks]

NoJob == [d |-> NoUrl, k |-> NoUrl, start |-> 0]

\* A job with k = d downloads the descriptor of d, any other one resource k.
DescriptorJob(d) == [d |-> d, k |-> d, start |-> 0]
ResourceJob(r, start) == [d |-> r[1], k |-> r[2], start |-> start]

VARIABLES
    dep,         \* DEPLOYMENT: "absent", "empty" (FILENAME = '') or "loaded"
    depFailed,   \* DEPLOYMENT.FAILED_RESOURCE
    depRetries,  \* DEPLOYMENT.RETRIES
    res,         \* the rows of RESOURCE
    pending,     \* the rows of PENDING
    filename,    \* RESOURCE.FILENAME, 0 for ''
    bytes,       \* RESOURCE.DOWNLOADED_BYTES
    retries,     \* RESOURCE.RETRIES
    recent,      \* rows with a LAST_UPDATE of the last two minutes
    disk,        \* the files created for each row, with their blocks
    action,      \* ACTION.STATUS of the deploy action of each deployment
    pc,          \* where each handler of the pool is
    job,         \* what it downloads
    file,        \* ResourceHandler: the file it writes
    pos,         \* ... how much of it lies before its next write
    src,         \* ... and the blocks of the resource before its next read
    active,      \* ContentRetriever.handlers
    round,       \* TimingHandler: "asleep", "scanned" or "planned"
    verdicts,    \* ... the action statuses its transaction has set
    tDeps,       \* ... the deployments and
    tRows,       \* ... the rows it works on
    tBytes,      \* ... with the bytes it read in them
    deploys,     \* how many deploy messages were processed
    faults,      \* how many failures happened
    late,        \* history: a round acted on what was no longer so, or
                 \*   overlooked a handler
    trusted      \* history: a deployment counted on a file that no checksum
                 \*   had confirmed

depVars == <<dep, depFailed, depRetries>>
resVars == <<res, pending, filename, bytes, retries, recent>>
poolVars == <<pc, job, file, pos, src, active>>
timingVars == <<round, verdicts, tDeps, tRows, tBytes>>
vars == <<dep, depFailed, depRetries, res, pending, filename, bytes, retries,
          recent, disk, action, pc, job, file, pos, src, active, round,
          verdicts, tDeps, tRows, tBytes, deploys, faults, late, trusted>>

Init ==
    /\ dep = [d \in Deployments |-> "absent"]
    /\ depFailed = [d \in Deployments |-> FALSE]
    /\ depRetries = [d \in Deployments |-> 0]
    /\ res = {}
    /\ pending = {}
    /\ filename = [r \in Rows |-> 0]
    /\ bytes = [r \in Rows |-> 0]
    /\ retries = [r \in Rows |-> 0]
    /\ recent = {}
    /\ disk = [r \in Rows |-> << >>]
    /\ action = [d \in Deployments |-> "NONE"]
    /\ pc = [h \in Handlers |-> "free"]
    /\ job = [h \in Handlers |-> NoJob]
    /\ file = [h \in Handlers |-> 0]
    /\ pos = [h \in Handlers |-> 0]
    /\ src = [h \in Handlers |-> 0]
    /\ active = {}
    /\ round = "asleep"
    /\ verdicts = [d \in Deployments |-> "NONE"]
    /\ tDeps = {}
    /\ tRows = {}
    /\ tBytes = [r \in Rows |-> 0]
    /\ deploys = 0
    /\ faults = 0
    /\ late = FALSE
    /\ trusted = FALSE

Fault(kind) ==
    /\ kind \in Faults
    /\ faults < MaxFaults
    /\ faults' = faults + 1

Free == {h \in Handlers : pc[h] = "free"}

\* ContentRetriever.addTask for each job of S: the pool is handed the handlers;
\* none of them is active before its thread runs.  The handler "done" ends.
AddTasks(S, done) ==
    \E f \in [S -> Free] :
        /\ \A i, j \in S : f[i] = f[j] => i = j
        /\ pc' = [h \in Handlers |->
                     IF \E j \in S : f[j] = h THEN "queued"
                     ELSE IF h \in done THEN "free" ELSE pc[h]]
        /\ job' = [h \in Handlers |->
                     IF \E j \in S : f[j] = h THEN CHOOSE j \in S : f[j] = h
                     ELSE IF h \in done THEN NoJob ELSE job[h]]

-----------------------------------------------------------------------------
(* The pump thread *)

\* DeployMessage.process.  For a URL that is known already the UPDATE binds
\* its two last parameters the wrong way round: it touches no row.
DeployMessage(d) ==
    /\ deploys < MaxDeploys
    /\ deploys' = deploys + 1
    /\ dep' = [dep EXCEPT ![d] = IF @ = "absent" THEN "empty" ELSE @]
    /\ action' = [action EXCEPT ![d] = "IN_PROGRESS"]
    /\ AddTasks({DescriptorJob(d)}, {})
    /\ UNCHANGED <<depFailed, depRetries, resVars, disk, file, pos, src, active,
                   timingVars, faults, late, trusted>>

-----------------------------------------------------------------------------
(* The handlers of the pool *)

IsDescriptor(h) == job[h].k = job[h].d
RowOf(h) == <<job[h].d, job[h].k>>

\* ContentHandler.run: from here on the URL counts as active.
Start(h) ==
    /\ pc[h] = "queued"
    /\ pc' = [pc EXCEPT ![h] = IF IsDescriptor(h) THEN "fetch" ELSE "lookup"]
    /\ active' = active \cup {job[h].k}
    /\ UNCHANGED <<depVars, resVars, disk, action, job, file, pos, src,
                   timingVars, deploys, faults, late, trusted>>

\* The URL is removed even when another handler for it is still running.
NoLongerActive(h) == active' = active \ {job[h].k}

End(h) ==
    /\ NoLongerActive(h)
    /\ pc' = [pc EXCEPT ![h] = "free"]
    /\ job' = [job EXCEPT ![h] = NoJob]
    /\ file' = [file EXCEPT ![h] = 0]
    /\ pos' = [pos EXCEPT ![h] = 0]
    /\ src' = [src EXCEPT ![h] = 0]

\* The length RESOURCE.SIZE has in every row of resource k.
Size(k) == IF k \in Sized THEN Blocks ELSE 0

\* Mutant: a row of the resource is enough, however much of it is there.
ExistsInPart(k) == \E r \in res : r[2] = k

\* "already exists": some deployment has entered the resource, and its row
\* counts as many bytes as the resource has.
Exists(k) == \E r \in res : r[2] = k /\ bytes[r] = Size(k)

\* The file that the resource of a row was downloaded to is right.
Good(f) == f = [i \in 1..Blocks |-> i]

Confirmed(r) ==
    /\ r \notin pending
    /\ filename[r] # 0
    /\ Good(disk[r][filename[r]])

\* "already exists" is taken from a row whose checksum has yet to be looked at
\* or was wrong.
Trusts(d) ==
    /\ dep[d] = "empty"
    /\ \E r \in res : /\ r[2] \in ResourcesOf[d]
                     /\ bytes[r] = Size(r[2])
                     /\ ~Confirmed(r)

\* DescriptorHandler: the descriptor is downloaded, its checksum is right, and
\* one transaction enters what is missing.
DescriptorLoads(h) ==
    /\ pc[h] = "fetch"
    /\ LET d == job[h].d
           new == IF dep[d] = "empty"
                  THEN {<<d, k>> : k \in {x \in ResourcesOf[d] : ~Exists(x)}}
                  ELSE {}
       IN /\ dep' = [dep EXCEPT ![d] = "loaded"]
          /\ res' = res \cup new
          /\ pending' = pending \cup new
          /\ AddTasks({ResourceJob(r, 0) : r \in new}, {h})
          /\ trusted' = (trusted \/ Trusts(d))
    /\ NoLongerActive(h)
    /\ UNCHANGED <<depFailed, depRetries, filename, bytes, retries, recent, disk,
                   action, file, pos, src, timingVars, deploys, faults, late>>

\* The download fails or the checksum is wrong: the exception is logged.
DescriptorFails(h) ==
    /\ pc[h] = "fetch"
    /\ End(h)
    /\ UNCHANGED <<depVars, resVars, disk, action, timingVars,
                   deploys, faults, late, trusted>>

\* The request has a Range header when part of the resource is there; the
\* servlet falls back to the whole resource when the range starts at its end.
Open(h, n) ==
    /\ pc' = [pc EXCEPT ![h] = "copy"]
    /\ file' = [file EXCEPT ![h] = n]
    /\ pos' = [pos EXCEPT ![h] = job[h].start]
    /\ src' = [src EXCEPT ![h] =
                  IF job[h].start < Blocks THEN job[h].start ELSE 0]

\* getResourceFileName, first transaction: the file of a resumed download.
Lookup(h) ==
    /\ pc[h] = "lookup"
    /\ IF RowOf(h) \in pending /\ filename[RowOf(h)] # 0
       THEN Open(h, filename[RowOf(h)])
       ELSE pc' = [pc EXCEPT ![h] = "create"] /\ UNCHANGED <<file, pos, src>>
    /\ UNCHANGED <<depVars, resVars, disk, action, job, active, timingVars,
                   deploys, faults, late, trusted>>

\* ... second transaction: a new file, entered in the row, pending or not.
Create(h) ==
    /\ pc[h] = "create"
    /\ Len(disk[RowOf(h)]) < MaxFiles
    /\ disk' = [disk EXCEPT ![RowOf(h)] = Append(@, << >>)]
    /\ filename' = [filename EXCEPT ![RowOf(h)] = Len(disk'[RowOf(h)])]
    /\ Open(h, Len(disk'[RowOf(h)]))
    /\ UNCHANGED <<depVars, res, pending, bytes, retries, recent, action, job,
                   active, timingVars, deploys, faults, late, trusted>>

\* Writing block b after the first p blocks of file f leaves a hole (0) when
\* the file is shorter than that.
Write(f, p, b) ==
    [i \in 1..(IF Len(f) > p THEN Len(f) ELSE p + 1) |->
        IF i = p + 1 THEN b ELSE IF i <= Len(f) THEN f[i] ELSE 0]

\* copyStream copies one block.  Unless it is the last, short one, bufferCopied
\* enters how much this handler has copied, while the row is pending.
CopyBlock(h) ==
    /\ pc[h] = "copy"
    /\ src[h] < Blocks
    /\ disk' = [disk EXCEPT ![RowOf(h)][file[h]] = Write(@, pos[h], src[h] + 1)]
    /\ pos' = [pos EXCEPT ![h] = @ + 1]
    /\ src' = [src EXCEPT ![h] = @ + 1]
    /\ IF RowOf(h) \in pending /\ src[h] + 1 < Blocks
       THEN /\ bytes' = [bytes EXCEPT ![RowOf(h)] = pos'[h] - job[h].start]
            /\ recent' = recent \cup {RowOf(h)}
       ELSE UNCHANGED <<bytes, recent>>
    /\ UNCHANGED <<depVars, res, pending, filename, retries, action, pc, job,
                   file, active, timingVars, deploys, faults, late, trusted>>

\* The stream ends, at the end of the resource or because the connection was
\* closed early.  copyCompleted enters the whole size, if the row knows it,
\* before the checksum is looked at and whether or not the row is pending.
CopyCompleted(h) ==
    /\ pc[h] = "copy"
    /\ \/ src[h] = Blocks /\ UNCHANGED faults
       \/ src[h] < Blocks /\ Fault("truncated")
    /\ pc' = [pc EXCEPT ![h] = "check"]
    /\ IF job[h].k \in Sized /\ RowOf(h) \in res
       THEN /\ bytes' = [bytes EXCEPT ![RowOf(h)] = Size(job[h].k)]
            /\ recent' = recent \cup {RowOf(h)}
       ELSE UNCHANGED <<bytes, recent>>
    /\ UNCHANGED <<depVars, res, pending, filename, retries, disk, action, job,
                   file, pos, src, active, timingVars, deploys, late, trusted>>

\* The connection breaks with an exception.
CopyFails(h) ==
    /\ pc[h] = "copy"
    /\ End(h)
    /\ UNCHANGED <<depVars, resVars, disk, action, timingVars,
                   deploys, faults, late, trusted>>

\* Mutant: the checksum is not looked at.
FinishUnchecked(h) ==
    /\ pc[h] = "check"
    /\ pending' = pending \ {RowOf(h)}
    /\ End(h)
    /\ UNCHANGED <<depVars, res, filename, bytes, retries, recent, disk, action,
                   timingVars, deploys, faults, late, trusted>>

\* The checksum of the whole file is computed; when it is right, the row is no
\* longer pending.
Finish(h) ==
    /\ pc[h] = "check"
    /\ pending' = IF Good(disk[RowOf(h)][file[h]]) THEN pending \ {RowOf(h)}
                                                   ELSE pending
    /\ End(h)
    /\ UNCHANGED <<depVars, res, filename, bytes, retries, recent, disk, action,
                   timingVars, deploys, faults, late, trusted>>

-----------------------------------------------------------------------------
(* The timing handler, one transaction per round *)

\* Mutant: only rows of which something was downloaded are looked for.
ScanStarted ==
    /\ round = "asleep"
    /\ round' = "scanned"
    /\ verdicts' = [d \in Deployments |->
                       IF action[d] = "IN_PROGRESS" /\ dep[d] = "loaded"
                       THEN IF depFailed[d] THEN "FAILED" ELSE "OK"
                       ELSE "NONE"]
    /\ tDeps' = {d \in Deployments : dep[d] = "empty" /\ ~depFailed[d]}
    /\ tRows' = {r \in pending \ recent : bytes[r] > 0}
    /\ tBytes' = bytes
    /\ UNCHANGED <<depVars, resVars, disk, action, poolVars, deploys, faults,
                   late, trusted>>

\* deployActionsUpdate, and the two queries for what is not downloaded: rows
\* updated in the last two minutes are left out.
Scan ==
    /\ round = "asleep"
    /\ round' = "scanned"
    /\ verdicts' = [d \in Deployments |->
                       IF action[d] = "IN_PROGRESS" /\ dep[d] = "loaded"
                       THEN IF depFailed[d] THEN "FAILED" ELSE "OK"
                       ELSE "NONE"]
    /\ tDeps' = {d \in Deployments : dep[d] = "empty" /\ ~depFailed[d]}
    /\ tRows' = pending \ recent
    /\ tBytes' = bytes
    /\ UNCHANGED <<depVars, resVars, disk, action, poolVars, deploys, faults,
                   late, trusted>>

\* A handler is there for the row, but its URL is not active: the pool has yet
\* to start it, or a handler for the same URL has ended.
Overlooked ==
    \E h \in Handlers :
        pc[h] # "free" /\ RowOf(h) \in tRows /\ job[h].k \notin active

\* Mutant: what is being downloaded is retried as well.
PlanEverything ==
    /\ round = "scanned"
    /\ round' = "planned"
    /\ late' = (late \/ Overlooked)
    /\ UNCHANGED <<depVars, resVars, disk, action, poolVars, verdicts, tDeps,
                   tRows, tBytes, deploys, faults, trusted>>

\* isHandlerActive, row by row: what is being downloaded is left alone; only a
\* deployment out of retries is given up without being asked about.
Plan ==
    /\ round = "scanned"
    /\ round' = "planned"
    /\ late' = (late \/ Overlooked)
    /\ tDeps' = {d \in tDeps : depRetries[d] >= RetryLimit \/ d \notin active}
    /\ tRows' = {r \in tRows : r[2] \notin active}
    /\ UNCHANGED <<depVars, resVars, disk, action, poolVars, verdicts, tBytes,
                   deploys, faults, trusted>>

\* Mutant: a row is given up when its URL is no longer retried by anyone.
LostPendingRows == {r \in Rows : r \in res /\ retries[r] >= RetryLimit}

LostDeps == {d \in tDeps : depRetries[d] >= RetryLimit}
LostRows == {r \in tRows : retries[r] >= RetryLimit}

RetryJobs ==
    {DescriptorJob(d) : d \in tDeps \ LostDeps}
        \cup {ResourceJob(r, tBytes[r]) : r \in tRows \ LostRows}

\* Since the round read the rows and asked what is active, a deployment it works
\* on has been loaded, or a row has been completed.
Overtaken == \/ \E d \in tDeps : dep[d] # "empty"
             \/ \E r \in tRows : r \notin pending

Asleep ==
    /\ round' = "asleep"
    /\ tDeps' = {}
    /\ tRows' = {}
    /\ verdicts' = [d \in Deployments |-> "NONE"]
    /\ tBytes' = [r \in Rows |-> 0]

\* Mutant: the statuses of the actions are lost when the round commits.
ApplyWithoutVerdicts ==
    /\ round = "planned"
    /\ depFailed' = [d \in Deployments |->
                        \/ depFailed[d] \/ d \in LostDeps
                        \/ \E r \in LostRows : r[1] = d]
    /\ depRetries' = [d \in Deployments |->
                         IF d \in tDeps \ LostDeps THEN depRetries[d] + 1
                                                   ELSE depRetries[d]]
    /\ retries' = [r \in Rows |-> IF r \in tRows \ LostRows THEN retries[r] + 1
                                                           ELSE retries[r]]
    /\ pending' = pending \ LostRows
    /\ AddTasks(RetryJobs, {})
    /\ late' = (late \/ Overtaken)
    /\ Asleep
    /\ UNCHANGED <<dep, res, filename, bytes, recent, disk, action, file, pos,
                   src, active, deploys, faults, trusted>>

\* Give up, count and start the retries, commit, and sleep again.
Apply ==
    /\ round = "planned"
    /\ action' = [d \in Deployments |->
                     IF verdicts[d] # "NONE" THEN verdicts[d] ELSE action[d]]
    /\ depFailed' = [d \in Deployments |->
                        \/ depFailed[d] \/ d \in LostDeps
                        \/ \E r \in LostRows : r[1] = d]
    /\ depRetries' = [d \in Deployments |->
                         IF d \in tDeps \ LostDeps THEN depRetries[d] + 1
                                                   ELSE depRetries[d]]
    /\ retries' = [r \in Rows |-> IF r \in tRows \ LostRows THEN retries[r] + 1
                                                           ELSE retries[r]]
    /\ pending' = pending \ LostRows
    /\ AddTasks(RetryJobs, {})
    /\ late' = (late \/ Overtaken)
    /\ Asleep
    /\ UNCHANGED <<dep, res, filename, bytes, recent, disk, file, pos, src,
                   active, deploys, faults, trusted>>

\* The transaction fails and is rolled back; handlers it has already handed to
\* the pool run all the same.
RollBack ==
    /\ round = "planned"
    /\ Fault("rollback")
    /\ \E S \in SUBSET RetryJobs : AddTasks(S, {})
    /\ late' = (late \/ Overtaken)
    /\ Asleep
    /\ UNCHANGED <<depVars, resVars, disk, action, file, pos, src, active,
                   deploys, trusted>>

-----------------------------------------------------------------------------
\* Two minutes pass without an update of the row.
Age(r) ==
    /\ r \in recent
    /\ recent' = recent \ {r}
    /\ UNCHANGED <<depVars, res, pending, filename, bytes, retries, disk, action,
                   poolVars, timingVars, deploys, faults, late, trusted>>

\* The bootstrap process stops and is started again: tables and files are as
\* they were at the last commit, threads and the set of handlers are gone, and
\* the ContinuationMessage adds a new timing handler.
Crash ==
    /\ Fault("crash")
    /\ pc' = [h \in Handlers |-> "free"]
    /\ job' = [h \in Handlers |-> NoJob]
    /\ file' = [h \in Handlers |-> 0]
    /\ pos' = [h \in Handlers |-> 0]
    /\ src' = [h \in Handlers |-> 0]
    /\ active' = {}
    /\ Asleep
    /\ UNCHANGED <<depVars, resVars, disk, action, deploys, late, trusted>>

HandlerStep(h) ==
    \/ Start(h)
    \/ DescriptorLoads(h) \/ DescriptorFails(h)
    \/ Lookup(h) \/ Create(h)
    \/ CopyBlock(h) \/ CopyCompleted(h) \/ CopyFails(h)
    \/ Finish(h)

TimingStep == Scan \/ Plan \/ Apply \/ RollBack

Next ==
    \/ \E d \in Deployments : DeployMessage(d)
    \/ \E h \in Handlers : HandlerStep(h)
    \/ TimingStep
    \/ \E r \in Rows : Age(r)
    \/ Crash

Spec == Init /\ [][Next]_vars

(***************************************************************************)
(* Fairness: every thread of the pool keeps running, so a handler ends,    *)
(* one way or the other; the timing handler adds itself to the pool again  *)
(* after each round; time passes.                                          *)
(***************************************************************************)
Fairness ==
    /\ \A h \in Handlers : WF_vars(HandlerStep(h))
    /\ WF_vars(TimingStep)
    /\ \A r \in Rows : WF_vars(Age(r))

FairSpec == Spec /\ Fairness

-----------------------------------------------------------------------------
(* Properties *)

\* Every variable has its type.
TypeOK ==
    /\ dep \in [Deployments -> {"absent", "empty", "loaded"}]
    /\ depFailed \in [Deployments -> BOOLEAN]
    /\ depRetries \in [Deployments -> 0..RetryLimit]
    /\ res \subseteq Rows
    /\ pending \subseteq res
    /\ filename \in [Rows -> 0..MaxFiles]
    /\ bytes \in [Rows -> 0..Blocks]
    /\ retries \in [Rows -> 0..RetryLimit]
    /\ recent \subseteq res
    /\ disk \in [Rows -> Seq(Seq(0..Blocks))]
    /\ action \in [Deployments -> {"NONE", "IN_PROGRESS", "OK", "FAILED"}]
    /\ pc \in [Handlers -> {"free", "queued", "fetch", "lookup", "create",
                            "copy", "check"}]
    /\ job \in [Handlers -> Jobs]
    /\ file \in [Handlers -> 0..MaxFiles]
    /\ pos \in [Handlers -> Nat]
    /\ src \in [Handlers -> 0..Blocks]
    /\ active \subseteq Urls
    /\ round \in {"asleep", "scanned", "planned"}
    /\ verdicts \in [Deployments -> {"NONE", "OK", "FAILED"}]
    /\ tDeps \subseteq Deployments
    /\ tRows \subseteq res
    /\ tBytes \in [Rows -> 0..Blocks]
    /\ deploys \in 0..MaxDeploys
    /\ faults \in 0..MaxFaults
    /\ {late, trusted} \subseteq BOOLEAN

\* TimingMonitor starts a deployment when its descriptor is there, it has not
\* failed and nothing of it is pending.
Ready(d) ==
    /\ dep[d] = "loaded"
    /\ ~depFailed[d]
    /\ \A r \in pending : r[1] # d

\* The rows ContentRegistryImpl.getResourcePath may take the file from.
Candidates(k) == {r \in res : r[2] = k /\ filename[r] # 0 /\ bytes[r] = Size(k)}

Right(r) == Good(disk[r][filename[r]])

\* There is a file to play, and a wrong one can only be that of a row that some
\* other deployment has not completed.
Playable(k) ==
    /\ \E r \in Candidates(k) : Right(r)
    /\ \A r \in Candidates(k) : Right(r) \/ r \in pending \/ depFailed[r[1]]

\* The player never starts a deployment and finds one of its resources missing,
\* truncated or damaged: what the content retriever calls downloaded is there.
\* That is so as long as no round of the timing handler acts on a row or a
\* deployment that was completed since the round looked at it, or on a row
\* whose handler it took for gone, and no deployment counts on a file of
\* another one that is not confirmed.
PlayableUnlessRaced ==
    ~late /\ ~trusted =>
        \A d \in Deployments : Ready(d) => \A k \in ResourcesOf[d] : Playable(k)

\* A deployment the player may have started stays one it may play, up to such
\* a round: it is the only one to give up what has been downloaded.
ReadyStays ==
    [][~late' => \A d \in Deployments : Ready(d) => Ready(d)']_vars

\* What the player asks of the tables.
DepsLoaded == {d \in Deployments : dep[d] = "loaded"}
DepsPending == {r[1] : r \in pending}
DepsFailed == {d \in DepsLoaded : depFailed[d]}

Delivery == INSTANCE ContentDelivery
                WITH loaded <- DepsLoaded, pending <- DepsPending,
                     failed <- DepsFailed, raced <- late

\* What the player sees of the tables changes as ContentDelivery says: nothing
\* is loaded twice or gets rows again, only a round gives up, and only a raced
\* one gives up what was ready.
DeliverySpec == Delivery!Spec

\* At no time do two handlers write the same file (Bug#140): up to such a
\* round, each row has one handler, though several rows may share their URL.
OneHandlerPerRow ==
    ~late => \A g, h \in Handlers :
        RowOf(g) = RowOf(h) /\ job[g].k \in Resources => g = h

\* Every deployment message ends with all the content there or the deployment
\* marked as failed, whatever fails in between a bounded number of times: a
\* pending row never waits for ever on a handler that is gone.
Settled(d) == depFailed[d] \/ (dep[d] = "loaded" /\ \A r \in pending : r[1] # d)
EveryDeploymentSettles ==
    \A d \in Deployments : dep[d] # "absent" ~> Settled(d)

\* A deploy action the console waits for gets a result once the descriptor has
\* been loaded.
LoadedIsReported ==
    \A d \in Deployments :
        dep[d] = "loaded" /\ action[d] = "IN_PROGRESS"
            ~> action[d] \in {"OK", "FAILED"}

=============================================================================
