--------------------------- MODULE ActionProtocol ---------------------------
(***************************************************************************)
(* The action protocol between the admin console and one installation:     *)
(*                                                                         *)
(*   - the console's ACTION table and ServerProtocolHandler, which answers *)
(*     the heartbeat of the installation;                                  *)
(*   - the bootstrap manager's heartbeat thread (ProtocolHandler), its     *)
(*     ACTION table, and the message pump thread that executes the actions *)
(*     one after the other;                                                *)
(*   - what can go wrong between them: connections that break, requests    *)
(*     that fail on the server, a server that stops between the response   *)
(*     and the flush of its session, a client that stops anywhere.         *)
(*                                                                         *)
(* Both sides run Hibernate under a DataSourceTransactionManager: a        *)
(* session queues its statements and issues them, auto-committed, when it  *)
(* is flushed.  On the server that is after handleRequest has closed the   *)
(* response; on the client after each received action (an explicit flush)  *)
(* and at the end of performRequest.  An exception skips the last flush.   *)
(*                                                                         *)
(* A connection that cannot be opened changes nothing on either side, so   *)
(* it is a stuttering step.                                                *)
(***************************************************************************)
EXTENDS Naturals, Sequences, FiniteSets

CONSTANTS Actions,       \* the actions the console creates for the installation
          Deploys,       \* those of type DEPLOY
          Crcs,          \* the checksums of the deployment descriptors
          CrcOf,         \* the DEPLOYMENT_CRC parameter of each deploy action
          Continuation,  \* the first message of a new pump
          StartPlayer,   \* the second one: RestartPlayerMessage(null)
          Slots,         \* requests the server may be handling at one time
          Overlap,       \* TRUE: a heartbeat may start before the server has
                         \*   finished with the one before it
          Faults,        \* the kinds of failure that may happen
          MaxFaults      \* a bound on their number

FaultKinds == {"connection", "server", "flush", "crash", "clientDb"}

ASSUME ConstantsOK ==
    /\ IsFiniteSet(Actions)
    /\ Deploys \subseteq Actions
    /\ CrcOf \in [Deploys -> Crcs]
    /\ Continuation \notin Actions
    /\ StartPlayer \notin Actions
    /\ Overlap \in BOOLEAN
    /\ Faults \subseteq FaultKinds
    /\ MaxFaults \in Nat

ClientStatus == {"SCHEDULED", "IN_PROGRESS", "OK", "FAILED"}
ServerStatus == {"NONE", "SENT"} \cup ClientStatus
Verdict == {"OK", "FAILED"}
NoReport == "NONE"

VARIABLES
    srv,       \* the console's ACTION table: status of each action
    sessPc,    \* server side of a request: "free", "open", "responded"
    upd,       \* the statuses it received, then those its session will write
    rows,      \* the client's ACTION table
    nextId,    \* the key of the next row inserted there
    hbPc,      \* the heartbeat thread
    hbSlot,    \* the request it waits for
    acks,      \* keys of the rows it will delete: those it reported as OK
    todo,      \* received actions not yet handed to the pump
    queue,     \* MessagePump.messageQueue
    pumpPc,    \* the pump thread
    pumpMsg,   \* the message it handles
    fetching,  \* checksums with a descriptor still to be downloaded
    deployed,  \* checksums with a downloaded descriptor, and how they stand
    succeeded, \* history: how often each action was processed to its end
    failed,    \* history: how often its processing threw an exception
    faults,    \* how many failures happened so far
    seen       \* ... and of which kinds

serverVars == <<srv, sessPc, upd>>
heartbeatVars == <<hbPc, hbSlot, acks, todo>>
pumpVars == <<queue, pumpPc, pumpMsg>>
deployVars == <<fetching, deployed>>
history == <<succeeded, failed>>
faultVars == <<faults, seen>>
vars == <<srv, sessPc, upd, rows, nextId, hbPc, hbSlot, acks, todo,
          queue, pumpPc, pumpMsg, fetching, deployed, succeeded, failed, faults, seen>>

Messages == Actions \cup {Continuation, StartPlayer}
Row == [id : Nat, act : Actions, st : ClientStatus]

NoUpdate == [a \in Actions |-> NoReport]

Init ==
    /\ srv = [a \in Actions |-> "NONE"]
    /\ sessPc = [s \in Slots |-> "free"]
    /\ upd = [s \in Slots |-> NoUpdate]
    /\ rows = {}
    /\ nextId = 0
    /\ hbPc = "idle"
    /\ hbSlot \in Slots
    /\ acks = {}
    /\ todo = << >>
    /\ queue = <<Continuation, StartPlayer>>
    /\ pumpPc = "idle"
    /\ pumpMsg = Continuation
    /\ fetching = {}
    /\ deployed = [c \in Crcs |-> "NONE"]
    /\ succeeded = [a \in Actions |-> 0]
    /\ failed = [a \in Actions |-> 0]
    /\ faults = 0
    /\ seen = {}

Fault(kind) ==
    /\ kind \in Faults
    /\ faults < MaxFaults
    /\ faults' = faults + 1
    /\ seen' = seen \cup {kind}

-----------------------------------------------------------------------------
(* The server *)

\* ActionLogic creates the action with status SCHEDULED.
ScheduleAction(a) ==
    /\ srv[a] = "NONE"
    /\ srv' = [srv EXCEPT ![a] = "SCHEDULED"]
    /\ UNCHANGED <<sessPc, upd, rows, nextId, heartbeatVars, pumpVars,
                   deployVars, history, faultVars>>

Selected == {a \in Actions : srv[a] = "SCHEDULED"}

\* Mutant: the sent actions stay SCHEDULED.
UpdatesWithoutSent(s) ==
    [a \in Actions |-> IF upd[s][a] # srv[a] THEN upd[s][a] ELSE NoReport]

\* What the session writes when it is flushed: the reported status of every
\* action the client knows and SENT for the ones being sent.  The query of
\* sendResponse reads the database, where the reported statuses are not yet,
\* and SENT is set last.  Hibernate writes only what differs from what it read.
Updates(s) ==
    [a \in Actions |->
        IF a \in Selected THEN "SENT"
        ELSE IF upd[s][a] # srv[a] THEN upd[s][a] ELSE NoReport]

\* handleRequest up to the closing of the response.  A client that is still
\* there receives the selected actions, in the order the query returned them.
Respond(s) ==
    /\ sessPc[s] = "open"
    /\ sessPc' = [sessPc EXCEPT ![s] = "responded"]
    /\ upd' = [upd EXCEPT ![s] = Updates(s)]
    /\ \/ /\ hbPc = "wait" /\ hbSlot = s
          /\ hbPc' = "answered"
          /\ todo' \in {q \in [1..Cardinality(Selected) -> Selected] :
                            \A a \in Selected : \E i \in DOMAIN q : q[i] = a}
          /\ UNCHANGED <<hbSlot, acks>>
       \/ /\ ~(hbPc = "wait" /\ hbSlot = s)
          /\ UNCHANGED heartbeatVars
    /\ UNCHANGED <<srv, rows, nextId, pumpVars, deployVars, history, faultVars>>

Written(s, S) ==
    [a \in Actions |-> IF a \in S THEN upd[s][a] ELSE srv[a]]

Pending(s) == {a \in Actions : upd[s][a] # NoReport}

\* The session is flushed when the transaction of handleRequest completes.
Flush(s) ==
    /\ sessPc[s] = "responded"
    /\ srv' = Written(s, Pending(s))
    /\ sessPc' = [sessPc EXCEPT ![s] = "free"]
    /\ upd' = [upd EXCEPT ![s] = NoUpdate]
    /\ UNCHANGED <<rows, nextId, heartbeatVars, pumpVars, deployVars, history,
                   faultVars>>

\* The server stops, or a statement fails, before the flush is complete: the
\* statements already issued stay, the others are lost.
FlushFails(s) ==
    /\ sessPc[s] = "responded"
    /\ Fault("flush")
    /\ \E S \in SUBSET Pending(s) :
          /\ S # Pending(s)
          /\ srv' = Written(s, S)
    /\ sessPc' = [sessPc EXCEPT ![s] = "free"]
    /\ upd' = [upd EXCEPT ![s] = NoUpdate]
    /\ UNCHANGED <<rows, nextId, heartbeatVars, pumpVars, deployVars, history>>

\* handleRequest throws, or answers 403, before sendResponse.  CommandServlet
\* swallows the exception and the client does not look at the HTTP status:
\* what it reads holds no action.
RequestFails(s) ==
    /\ sessPc[s] = "open"
    /\ Fault("server")
    /\ sessPc' = [sessPc EXCEPT ![s] = "free"]
    /\ upd' = [upd EXCEPT ![s] = NoUpdate]
    /\ IF hbPc = "wait" /\ hbSlot = s
       THEN hbPc' = "answered" /\ todo' = << >> /\ UNCHANGED <<hbSlot, acks>>
       ELSE UNCHANGED heartbeatVars
    /\ UNCHANGED <<srv, rows, nextId, pumpVars, deployVars, history>>

-----------------------------------------------------------------------------
(* The heartbeat thread of the client *)

RowsOf(a) == {r \in rows : r.act = a}

\* Mutant: failures are not taken over.
ReportedWithoutFailures(a) == {r.st : r \in RowsOf(a)} \ {"SCHEDULED", "FAILED"}

\* The status handleRequest takes for an action: rows still SCHEDULED are
\* skipped and, of several rows of one action, the last one read wins.
Reported(a) == {r.st : r \in RowsOf(a)} \ {"SCHEDULED"}

Reports ==
    {f \in [Actions -> ServerStatus] :
        \A a \in Actions : IF Reported(a) = {} THEN f[a] = NoReport
                                               ELSE f[a] \in Reported(a)}

\* performRequest up to executeMethod: load every action and post them.  The
\* request of an earlier heartbeat may still be open when Overlap holds.
Heartbeat(s) ==
    /\ hbPc = "idle"
    /\ sessPc[s] = "free"
    /\ Overlap \/ \A t \in Slots : sessPc[t] = "free"
    /\ hbPc' = "wait"
    /\ hbSlot' = s
    /\ acks' = {r.id : r \in {x \in rows : x.st = "OK"}}
    /\ sessPc' = [sessPc EXCEPT ![s] = "open"]
    /\ \E f \in Reports : upd' = [upd EXCEPT ![s] = f]
    /\ UNCHANGED <<srv, rows, nextId, todo, pumpVars, deployVars, history,
                   faultVars>>

\* The response, or a part of it, never arrives: performRequest throws and
\* its deletions are not flushed.
ConnectionLost ==
    /\ hbPc \in {"wait", "answered"}
    /\ Fault("connection")
    /\ hbPc' = "idle"
    /\ todo' = << >>
    /\ acks' = {}
    /\ UNCHANGED <<serverVars, rows, nextId, hbSlot, pumpVars, deployVars,
                   history>>

\* Mutant: the status is looked at again after the request.
KeptByCurrentStatus == {r \in rows : r.st # "OK"}

Kept == {r \in rows : r.id \notin acks}

\* handleResponse, for the next received action: save it as SCHEDULED and
\* flush, which also issues the deletions that are still queued.
SaveAction ==
    /\ hbPc \in {"answered", "apply"}
    /\ todo # << >>
    /\ rows' = Kept \cup {[id |-> nextId, act |-> Head(todo), st |-> "SCHEDULED"]}
    /\ nextId' = nextId + 1
    /\ acks' = {}
    /\ hbPc' = "saved"
    /\ UNCHANGED <<serverVars, hbSlot, todo, pumpVars, deployVars, history,
                   faultVars>>

\* ... and hand its message to the pump.
AddMessage ==
    /\ hbPc = "saved"
    /\ queue' = Append(queue, Head(todo))
    /\ todo' = Tail(todo)
    /\ hbPc' = "apply"
    /\ UNCHANGED <<serverVars, rows, nextId, hbSlot, acks, pumpPc, pumpMsg,
                   deployVars, history, faultVars>>

\* performRequest returns: its session is flushed.
EndRequest ==
    /\ hbPc \in {"answered", "apply"}
    /\ todo = << >>
    /\ rows' = Kept
    /\ acks' = {}
    /\ hbPc' = "idle"
    /\ UNCHANGED <<serverVars, nextId, hbSlot, todo, pumpVars, deployVars,
                   history, faultVars>>

\* The database fails while the response is handled: Manager.run logs the
\* exception, what is left of the response is dropped.
ResponseFails ==
    /\ hbPc \in {"answered", "apply"}
    /\ Fault("clientDb")
    /\ hbPc' = "idle"
    /\ todo' = << >>
    /\ acks' = {}
    /\ UNCHANGED <<serverVars, rows, nextId, hbSlot, pumpVars, deployVars,
                   history>>

-----------------------------------------------------------------------------
(* The message pump thread of the client *)

WithStatus(S, st) ==
    {IF r.act \in S THEN [r EXCEPT !.st = st] ELSE r : r \in rows}

\* Mutant: the action is not reported as IN_PROGRESS.
TakeMessageSilently ==
    /\ pumpPc = "idle"
    /\ queue # << >>
    /\ pumpMsg' = Head(queue)
    /\ queue' = Tail(queue)
    /\ pumpPc' = "begun"
    /\ UNCHANGED <<serverVars, rows, nextId, heartbeatVars, deployVars, history,
                   faultVars>>

\* MessagePump.run takes the next message; handle() first reports the action
\* as IN_PROGRESS, in every row of it.  The two start-up messages have none.
TakeMessage ==
    /\ pumpPc = "idle"
    /\ queue # << >>
    /\ pumpMsg' = Head(queue)
    /\ queue' = Tail(queue)
    /\ pumpPc' = "begun"
    /\ rows' = WithStatus({Head(queue)}, "IN_PROGRESS")
    /\ UNCHANGED <<serverVars, nextId, heartbeatVars, deployVars, history,
                   faultVars>>

\* That report fails: the message is logged and dropped without processing.
TakeFails ==
    /\ pumpPc = "idle"
    /\ queue # << >>
    /\ Fault("clientDb")
    /\ queue' = Tail(queue)
    /\ UNCHANGED <<serverVars, rows, nextId, heartbeatVars, pumpPc, pumpMsg,
                   deployVars, history>>

Increment(f, m) == IF m \in Actions THEN [f EXCEPT ![m] = @ + 1] ELSE f

\* process() returns.  DeployMessage leaves a deployment whose descriptor the
\* content retriever is to download.
ProcessSucceeds ==
    /\ pumpPc = "begun"
    /\ pumpPc' = "succeeded"
    /\ succeeded' = Increment(succeeded, pumpMsg)
    /\ fetching' = IF pumpMsg \in Deploys THEN fetching \cup {CrcOf[pumpMsg]}
                                           ELSE fetching
    /\ UNCHANGED <<serverVars, rows, nextId, heartbeatVars, queue, pumpMsg,
                   deployed, failed, faultVars>>

\* process() throws.
ProcessFails ==
    /\ pumpPc = "begun"
    /\ pumpPc' = "failed"
    /\ failed' = Increment(failed, pumpMsg)
    /\ UNCHANGED <<serverVars, rows, nextId, heartbeatVars, queue, pumpMsg,
                   deployVars, succeeded, faultVars>>

\* handle() reports the result.  isOKHandledInPumpThread() is false for
\* deployments: TimingHandler reports their success.
ReportResult ==
    /\ pumpPc \in {"succeeded", "failed"}
    /\ rows' = IF pumpPc = "failed" THEN WithStatus({pumpMsg}, "FAILED")
               ELSE IF pumpMsg \in Deploys THEN rows
               ELSE WithStatus({pumpMsg}, "OK")
    /\ pumpPc' = "idle"
    /\ UNCHANGED <<serverVars, nextId, heartbeatVars, queue, pumpMsg,
                   deployVars, history, faultVars>>

\* That report fails: the action stays IN_PROGRESS.
ReportFails ==
    /\ pumpPc \in {"succeeded", "failed"}
    /\ Fault("clientDb")
    /\ pumpPc' = "idle"
    /\ UNCHANGED <<serverVars, rows, nextId, heartbeatVars, queue, pumpMsg,
                   deployVars, history>>

-----------------------------------------------------------------------------
(* The content retriever, as far as the actions see it *)

\* DescriptorHandler has downloaded a descriptor, or has given up on it.
DescriptorDone(c) ==
    /\ c \in fetching
    /\ fetching' = fetching \ {c}
    /\ deployed' \in {deployed, [deployed EXCEPT ![c] = "OK"]}
    /\ UNCHANGED <<serverVars, rows, nextId, heartbeatVars, pumpVars, history,
                   faultVars>>

\* TimingHandler has given up on one of its resources.
ResourceFailed(c) ==
    /\ deployed[c] = "OK"
    /\ deployed' = [deployed EXCEPT ![c] = "FAILED"]
    /\ UNCHANGED <<serverVars, rows, nextId, heartbeatVars, pumpVars, fetching,
                   history, faultVars>>

DeploysOf(c) == {a \in Deploys : CrcOf[a] = c}

\* Mutant: deployments without a descriptor are not left out of the query.
DeployActionsUpdateEarly(c) ==
    /\ \E r \in rows : r.act \in DeploysOf(c) /\ r.st = "IN_PROGRESS"
    /\ rows' = WithStatus(DeploysOf(c),
                         IF deployed[c] = "FAILED" THEN "FAILED" ELSE "OK")
    /\ UNCHANGED <<serverVars, nextId, heartbeatVars, pumpVars, deployVars,
                   history, faultVars>>

\* TimingHandler.deployActionsUpdate: when an action that deploys checksum c
\* is IN_PROGRESS and a deployment of c has its descriptor, every action with
\* this checksum gets its result, whatever status it has.
DeployActionsUpdate(c) ==
    /\ deployed[c] # "NONE"
    /\ \E r \in rows : r.act \in DeploysOf(c) /\ r.st = "IN_PROGRESS"
    /\ rows' = WithStatus(DeploysOf(c), deployed[c])
    /\ UNCHANGED <<serverVars, nextId, heartbeatVars, pumpVars, deployVars,
                   history, faultVars>>

-----------------------------------------------------------------------------
\* The bootstrap process stops anywhere and is started again: what was in
\* memory is gone, a new pump gets its two start-up messages.
Crash ==
    /\ Fault("crash")
    /\ hbPc' = "idle"
    /\ acks' = {}
    /\ todo' = << >>
    /\ queue' = <<Continuation, StartPlayer>>
    /\ pumpPc' = "idle"
    /\ UNCHANGED <<serverVars, rows, nextId, hbSlot, pumpMsg, deployVars,
                   history>>

Server == \E s \in Slots : Respond(s) \/ Flush(s) \/ FlushFails(s) \/ RequestFails(s)

HeartbeatThread ==
    \/ \E s \in Slots : Heartbeat(s)
    \/ ConnectionLost \/ SaveAction \/ AddMessage \/ EndRequest \/ ResponseFails

PumpThread ==
    \/ TakeMessage \/ TakeFails
    \/ ProcessSucceeds \/ ProcessFails
    \/ ReportResult \/ ReportFails

ContentRetriever ==
    \E c \in Crcs : DescriptorDone(c) \/ ResourceFailed(c) \/ DeployActionsUpdate(c)

Next ==
    \/ \E a \in Actions : ScheduleAction(a)
    \/ Server \/ HeartbeatThread \/ PumpThread \/ ContentRetriever \/ Crash

Spec == Init /\ [][Next]_vars

(***************************************************************************)
(* Fairness: the servlet container runs a request to its end, the          *)
(* heartbeat thread wakes up once per interval, the pump thread loops over *)
(* its queue, and TimingHandler schedules itself again.  Nothing is        *)
(* assumed of the user, of failures, or of the outcome of a download.      *)
(***************************************************************************)
Fairness ==
    /\ \A s \in Slots : WF_vars(Respond(s)) /\ WF_vars(Flush(s))
    /\ WF_vars(\E s \in Slots : Heartbeat(s))
    /\ WF_vars(SaveAction) /\ WF_vars(AddMessage) /\ WF_vars(EndRequest)
    /\ WF_vars(TakeMessage) /\ WF_vars(ProcessSucceeds \/ ProcessFails)
    /\ WF_vars(ReportResult)
    /\ \A c \in Crcs : WF_vars(DeployActionsUpdate(c))

FairSpec == Spec /\ Fairness

-----------------------------------------------------------------------------
(* Properties *)

\* Every variable has its type: the statuses of both ACTION tables, the
\* states of the request, of the heartbeat and of the pump thread.
TypeOK ==
    /\ srv \in [Actions -> ServerStatus]
    /\ sessPc \in [Slots -> {"free", "open", "responded"}]
    /\ upd \in [Slots -> [Actions -> ServerStatus]]
    /\ rows \subseteq Row
    /\ nextId \in Nat
    /\ hbPc \in {"idle", "wait", "answered", "saved", "apply"}
    /\ hbSlot \in Slots
    /\ acks \subseteq Nat
    /\ todo \in Seq(Actions)
    /\ queue \in Seq(Messages)
    /\ pumpPc \in {"idle", "begun", "succeeded", "failed"}
    /\ pumpMsg \in Messages
    /\ fetching \subseteq Crcs
    /\ deployed \in [Crcs -> {"NONE", "OK", "FAILED"}]
    /\ succeeded \in [Actions -> Nat]
    /\ failed \in [Actions -> Nat]
    /\ faults \in 0..MaxFaults
    /\ seen \subseteq Faults

\* What has to have happened on the client for action a to be called OK or
\* FAILED: its processing ended that way or, for a deployment, the content
\* retriever got the descriptor.
HasSucceeded(a) == IF a \in Deploys THEN deployed[CrcOf[a]] # "NONE"
                                    ELSE succeeded[a] > 0
HasFailed(a) == failed[a] > 0 \/ (a \in Deploys /\ deployed[CrcOf[a]] # "NONE")

Justified(a, st) ==
    /\ st = "OK" => HasSucceeded(a)
    /\ st = "FAILED" => HasFailed(a)

\* The console shows a result only for an action the installation really
\* brought to that result, whatever is lost, repeated or restarted on the way:
\* the statuses of the client reach the console through ProtocolHandler and
\* ServerProtocolHandler without being invented or mixed up.
VerdictJustified == \A a \in Actions : Justified(a, srv[a])

HasRow(a) == \E r \in rows : r.act = a
Carried(a, st) == \E s \in Slots : upd[s][a] = st

\* ProtocolHandler deletes a row only when the console has its result: an
\* action that was processed and that the client no longer knows has a verdict
\* at the console, or one that is about to be written there.  That is so as
\* long as no request fails on the server, which the client cannot tell.
NoForgottenResult ==
    seen \cap {"server", "flush"} = {} =>
        \A a \in Actions :
            succeeded[a] + failed[a] > 0 /\ ~HasRow(a)
                => \E v \in Verdict : srv[a] = v \/ Carried(a, v)

InQueue(m) == \E i \in DOMAIN queue : queue[i] = m
Handling(m) == pumpPc # "idle" /\ pumpMsg = m
BeingQueued(a) == hbPc = "saved" /\ Head(todo) = a

\* The pump will still handle the action, is handling it or, when it is a
\* deployment in progress, has left it to the content retriever.
InHand(r) ==
    \/ InQueue(r.act)
    \/ BeingQueued(r.act)
    \/ r.st = "IN_PROGRESS" /\ (Handling(r.act) \/ r.act \in Deploys)

AllInHand ==
    \A r \in rows : r.st \in {"SCHEDULED", "IN_PROGRESS"} => InHand(r)

\* While the client runs and its database works, every action of its table
\* that is not finished is in hand: the table, the response being handled and
\* the queue of the pump, which three threads change, never drift apart.
NoOrphanTask == seen \cap {"crash", "clientDb"} = {} => AllInHand

\* The same across a restart, once the pump has handled the message that
\* checks "whatever tasks need to be performed" (ContinuationMessage).
TasksSurviveRestart ==
    ~InQueue(Continuation) /\ ~Handling(Continuation) => AllInHand

\* Every scheduled action gets a verdict at the console, a deployment once its
\* descriptor has been downloaded, unless something fails.
Settles ==
    \A a \in Actions :
        (/\ srv[a] # "NONE"
         /\ seen = {}
         /\ a \in Deploys => deployed[CrcOf[a]] # "NONE")
            ~> srv[a] \in Verdict \/ seen # {}

\* The protocol implements the life cycle: what the console shows of an action
\* is its status, and the processing counted by the history variables its run.
ShownStatus(a) ==
    CASE srv[a] = "NONE" -> "new"
      [] srv[a] \in Verdict -> srv[a]
      [] OTHER -> "requested"

Lifecycle ==
    INSTANCE ActionLifecycle
        WITH status <- [a \in Actions |-> ShownStatus(a)],
             runs <- [a \in Actions |-> succeeded[a] + failed[a]]

\* However connections, requests, the client and its database fail, an action
\* is processed at most once and shown with at most one verdict, after it was
\* processed.  It needs a server that completes the requests it answers and
\* deployments with different checksums.
LifecycleSpec == Lifecycle!Spec

=============================================================================
