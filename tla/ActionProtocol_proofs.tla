------------------------ MODULE ActionProtocol_proofs ------------------------
(***************************************************************************)
(* Proofs about ActionProtocol, for any set of actions, any number of      *)
(* requests in the server, overlapping or not, and any failures.           *)
(***************************************************************************)
EXTENDS ActionProtocol, FiniteSetTheorems, TLAPS

\* The response lists the selected actions, in some order.
LEMMA ResponseType ==
    ASSUME NEW q \in [1..Cardinality(Selected) -> Selected]
    PROVE  q \in Seq(Actions)
<1>1. Selected \subseteq Actions
  BY DEF Selected
<1>2. IsFiniteSet(Selected)
  BY <1>1, FS_Subset, ConstantsOK
<1>3. Cardinality(Selected) \in Nat
  BY <1>2, FS_CardinalityType
<1>4. q \in [1..Cardinality(Selected) -> Actions]
  BY <1>1
<1> QED
  BY <1>3, <1>4

\* Changing the status of some rows leaves rows.
LEMMA WithStatusType ==
    ASSUME rows \subseteq Row, NEW S, NEW st \in ClientStatus
    PROVE  WithStatus(S, st) \subseteq Row
BY DEF WithStatus, Row

\* What the session writes is a status for each action.
LEMMA UpdatesType ==
    ASSUME TypeOK, NEW s \in Slots
    PROVE  Updates(s) \in [Actions -> ServerStatus]
BY DEF Updates, TypeOK, ServerStatus, ClientStatus, NoReport

LEMMA WrittenType ==
    ASSUME TypeOK, NEW s \in Slots, NEW S
    PROVE  Written(s, S) \in [Actions -> ServerStatus]
BY DEF Written, TypeOK

LEMMA IncrementType ==
    ASSUME NEW f \in [Actions -> Nat], NEW msg
    PROVE  Increment(f, msg) \in [Actions -> Nat]
BY DEF Increment

LEMMA NoUpdateType == NoUpdate \in [Actions -> ServerStatus]
BY DEF NoUpdate, NoReport, ServerStatus

LEMMA ReportsType == Reports \subseteq [Actions -> ServerStatus]
BY DEF Reports

LEMMA FaultType ==
    ASSUME TypeOK, NEW kind, Fault(kind)
    PROVE  /\ faults' \in 0..MaxFaults
           /\ seen' \subseteq Faults
BY ConstantsOK DEF TypeOK, Fault

LEMMA TypeInit == Init => TypeOK
<1> SUFFICES ASSUME Init PROVE TypeOK
  OBVIOUS
<1>1. queue \in Seq(Messages)
  BY DEF Init, Messages
<1>2. upd \in [Slots -> [Actions -> ServerStatus]]
  BY NoUpdateType DEF Init
<1>3. srv \in [Actions -> ServerStatus]
  BY DEF Init, ServerStatus
<1>4. faults \in 0..MaxFaults
  BY ConstantsOK DEF Init
<1> QED
  BY <1>1, <1>2, <1>3, <1>4 DEF Init, TypeOK, Messages

LEMMA TypeServer ==
    ASSUME TypeOK, Server PROVE TypeOK'
<1> USE DEF serverVars, heartbeatVars, pumpVars, deployVars, history, faultVars
<1>1. ASSUME NEW s \in Slots, Respond(s) PROVE TypeOK'
  <2>1. upd' \in [Slots -> [Actions -> ServerStatus]]
    BY <1>1, UpdatesType DEF Respond, TypeOK
  <2>2. hbPc' \in {"idle", "wait", "answered", "saved", "apply"}
    BY <1>1 DEF Respond, TypeOK
  <2>3. todo' \in Seq(Actions)
    BY <1>1, ResponseType DEF Respond, TypeOK
  <2> QED
    BY <1>1, <2>1, <2>2, <2>3 DEF Respond, TypeOK
<1>2. ASSUME NEW s \in Slots, Flush(s) PROVE TypeOK'
  <2>1. srv' \in [Actions -> ServerStatus]
    BY <1>2, WrittenType DEF Flush
  <2>2. upd' \in [Slots -> [Actions -> ServerStatus]]
    BY <1>2, NoUpdateType DEF Flush, TypeOK
  <2> QED
    BY <1>2, <2>1, <2>2 DEF Flush, TypeOK
<1>3. ASSUME NEW s \in Slots, FlushFails(s) PROVE TypeOK'
  <2>1. srv' \in [Actions -> ServerStatus]
    BY <1>3, WrittenType DEF FlushFails
  <2>2. upd' \in [Slots -> [Actions -> ServerStatus]]
    BY <1>3, NoUpdateType DEF FlushFails, TypeOK
  <2>3. faults' \in 0..MaxFaults /\ seen' \subseteq Faults
    BY <1>3, FaultType DEF FlushFails
  <2> QED
    BY <1>3, <2>1, <2>2, <2>3 DEF FlushFails, TypeOK
<1>4. ASSUME NEW s \in Slots, RequestFails(s) PROVE TypeOK'
  <2>1. upd' \in [Slots -> [Actions -> ServerStatus]]
    BY <1>4, NoUpdateType DEF RequestFails, TypeOK
  <2>2. hbPc' \in {"idle", "wait", "answered", "saved", "apply"}
    BY <1>4 DEF RequestFails, TypeOK
  <2>3. /\ todo' \in Seq(Actions)
        /\ hbSlot' = hbSlot
        /\ acks' = acks
    <3>1. CASE hbPc = "wait" /\ hbSlot = s
      BY <1>4, <3>1 DEF RequestFails
    <3>2. CASE ~(hbPc = "wait" /\ hbSlot = s)
      BY <1>4, <3>2 DEF RequestFails, TypeOK
    <3> QED
      BY <3>1, <3>2
  <2>4. faults' \in 0..MaxFaults /\ seen' \subseteq Faults
    BY <1>4, FaultType DEF RequestFails
  <2> QED
    BY <1>4, <2>1, <2>2, <2>3, <2>4 DEF RequestFails, TypeOK
<1> QED
  BY <1>1, <1>2, <1>3, <1>4 DEF Server

\* The heartbeat thread hands over an action it has in hand: TypeOK is
\* inductive together with this.
Saving == hbPc = "saved" => todo # << >>

LEMMA TypeHeartbeat ==
    ASSUME TypeOK, Saving, HeartbeatThread PROVE TypeOK'
<1> USE DEF serverVars, heartbeatVars, pumpVars, deployVars, history, faultVars
<1>1. ASSUME NEW s \in Slots, Heartbeat(s) PROVE TypeOK'
  <2>1. upd' \in [Slots -> [Actions -> ServerStatus]]
    BY <1>1, ReportsType DEF Heartbeat, TypeOK
  <2>2. acks' \subseteq Nat
    BY <1>1 DEF Heartbeat, TypeOK, Row
  <2> QED
    BY <1>1, <2>1, <2>2 DEF Heartbeat, TypeOK
<1>2. CASE ConnectionLost
  BY <1>2, FaultType DEF ConnectionLost, TypeOK
<1>3. CASE SaveAction
  <2>1. [id |-> nextId, act |-> Head(todo), st |-> "SCHEDULED"] \in Row
    BY <1>3 DEF SaveAction, TypeOK, Row, ClientStatus
  <2>2. rows' \subseteq Row
    BY <1>3, <2>1 DEF SaveAction, TypeOK, Kept
  <2> QED
    BY <1>3, <2>2 DEF SaveAction, TypeOK
<1>4. CASE AddMessage
  <2>1. todo # << >> => Head(todo) \in Actions /\ Tail(todo) \in Seq(Actions)
    BY DEF TypeOK
  <2>2. todo # << >>
    BY <1>4 DEF AddMessage, Saving
  <2>3. queue' \in Seq(Messages)
    BY <1>4, <2>1, <2>2 DEF AddMessage, TypeOK, Messages
  <2> QED
    BY <1>4, <2>1, <2>2, <2>3 DEF AddMessage, TypeOK
<1>5. CASE EndRequest
  BY <1>5 DEF EndRequest, TypeOK, Kept
<1>6. CASE ResponseFails
  BY <1>6, FaultType DEF ResponseFails, TypeOK
<1> QED
  BY <1>1, <1>2, <1>3, <1>4, <1>5, <1>6 DEF HeartbeatThread

LEMMA TypePump ==
    ASSUME TypeOK, PumpThread PROVE TypeOK'
<1> USE DEF serverVars, heartbeatVars, pumpVars, deployVars, history, faultVars
<1>0. queue # << >> => Head(queue) \in Messages /\ Tail(queue) \in Seq(Messages)
  BY DEF TypeOK
<1>1. CASE TakeMessage
  <2>1. rows' \subseteq Row
    BY <1>1, WithStatusType DEF TakeMessage, TypeOK, ClientStatus
  <2> QED
    BY <1>0, <1>1, <2>1 DEF TakeMessage, TypeOK
<1>2. CASE TakeFails
  BY <1>0, <1>2, FaultType DEF TakeFails, TypeOK
<1>3. CASE ProcessSucceeds
  <2>1. succeeded' \in [Actions -> Nat]
    BY <1>3, IncrementType DEF ProcessSucceeds, TypeOK
  <2>2. fetching' \subseteq Crcs
    BY <1>3, ConstantsOK DEF ProcessSucceeds, TypeOK
  <2> QED
    BY <1>3, <2>1, <2>2 DEF ProcessSucceeds, TypeOK
<1>4. CASE ProcessFails
  <2>1. failed' \in [Actions -> Nat]
    BY <1>4, IncrementType DEF ProcessFails, TypeOK
  <2> QED
    BY <1>4, <2>1 DEF ProcessFails, TypeOK
<1>5. CASE ReportResult
  <2>1. rows' \subseteq Row
    BY <1>5, WithStatusType DEF ReportResult, TypeOK, ClientStatus
  <2> QED
    BY <1>5, <2>1 DEF ReportResult, TypeOK
<1>6. CASE ReportFails
  BY <1>6, FaultType DEF ReportFails, TypeOK
<1> QED
  BY <1>1, <1>2, <1>3, <1>4, <1>5, <1>6 DEF PumpThread

LEMMA TypeContent ==
    ASSUME TypeOK, ContentRetriever PROVE TypeOK'
<1> USE DEF serverVars, heartbeatVars, pumpVars, deployVars, history, faultVars
<1>1. ASSUME NEW c \in Crcs, DescriptorDone(c) PROVE TypeOK'
  BY <1>1 DEF DescriptorDone, TypeOK
<1>2. ASSUME NEW c \in Crcs, ResourceFailed(c) PROVE TypeOK'
  BY <1>2 DEF ResourceFailed, TypeOK
<1>3. ASSUME NEW c \in Crcs, DeployActionsUpdate(c) PROVE TypeOK'
  <2>1. deployed[c] \in ClientStatus
    BY <1>3 DEF DeployActionsUpdate, TypeOK, ClientStatus
  <2>2. rows' \subseteq Row
    BY <1>3, <2>1, WithStatusType DEF DeployActionsUpdate, TypeOK
  <2> QED
    BY <1>3, <2>2 DEF DeployActionsUpdate, TypeOK
<1> QED
  BY <1>1, <1>2, <1>3 DEF ContentRetriever

LEMMA TypeStep == TypeOK /\ Saving /\ [Next]_vars => TypeOK'
<1> SUFFICES ASSUME TypeOK, Saving, [Next]_vars PROVE TypeOK'
  OBVIOUS
<1> USE DEF serverVars, heartbeatVars, pumpVars, deployVars, history, faultVars
<1>1. ASSUME NEW a \in Actions, ScheduleAction(a) PROVE TypeOK'
  BY <1>1 DEF ScheduleAction, TypeOK, ServerStatus, ClientStatus
<1>2. CASE Crash
  <2>1. queue' \in Seq(Messages)
    BY <1>2 DEF Crash, Messages
  <2> QED
    BY <1>2, <2>1, FaultType DEF Crash, TypeOK
<1>3. CASE UNCHANGED vars
  BY <1>3 DEF vars, TypeOK
<1> QED
  BY <1>1, <1>2, <1>3, TypeServer, TypeHeartbeat, TypePump, TypeContent DEF Next

LEMMA SavingStep == Saving /\ [Next]_vars => Saving'
<1> SUFFICES ASSUME Saving, [Next]_vars PROVE Saving'
  OBVIOUS
<1> USE DEF Saving, serverVars, heartbeatVars, pumpVars, deployVars, history,
            faultVars
<1>1. CASE \E a \in Actions : ScheduleAction(a)
  BY <1>1 DEF ScheduleAction
<1>2. CASE Server
  BY <1>2 DEF Server, Respond, Flush, FlushFails, RequestFails
<1>3. CASE HeartbeatThread
  BY <1>3 DEF HeartbeatThread, Heartbeat, ConnectionLost, SaveAction,
              AddMessage, EndRequest, ResponseFails
<1>4. CASE PumpThread
  BY <1>4 DEF PumpThread, TakeMessage, TakeFails, ProcessSucceeds, ProcessFails,
              ReportResult, ReportFails
<1>5. CASE ContentRetriever
  BY <1>5 DEF ContentRetriever, DescriptorDone, ResourceFailed,
              DeployActionsUpdate
<1>6. CASE Crash
  BY <1>6 DEF Crash
<1>7. CASE UNCHANGED vars
  BY <1>7 DEF vars
<1> QED
  BY <1>1, <1>2, <1>3, <1>4, <1>5, <1>6, <1>7 DEF Next

\* Every variable keeps its type: no status of one table leaks into a place
\* of the protocol that does not know it.
THEOREM TypeCorrect == Spec => []TypeOK
<1>1. Init => TypeOK /\ Saving
  BY TypeInit DEF Init, Saving
<1>2. (TypeOK /\ Saving) /\ [Next]_vars => (TypeOK /\ Saving)'
  BY TypeStep, SavingStep
<1> QED
  BY <1>1, <1>2, PTL DEF Spec

-----------------------------------------------------------------------------
(* Every verdict has its evidence.  The statement about the console's table  *)
(* is not inductive: the verdict comes there from a session of the server,   *)
(* to which a heartbeat brought it from a row of the client, where the pump  *)
(* thread or the timing handler put it.  The invariant follows it back.      *)

Evidence ==
    /\ \A a \in Actions : Justified(a, srv[a])
    /\ \A s \in Slots, a \in Actions : Justified(a, upd[s][a])
    /\ \A r \in rows : Justified(r.act, r.st)
    /\ pumpMsg \in Actions =>
          /\ pumpPc = "succeeded" => succeeded[pumpMsg] > 0
          /\ pumpPc = "failed" => failed[pumpMsg] > 0

\* Statuses that need no evidence.
LEMMA Unjudged ==
    ASSUME NEW a, NEW st, st \notin Verdict
    PROVE  Justified(a, st)
BY DEF Justified, Verdict

\* What has happened on the client is never taken back.
LEMMA Monotone ==
    ASSUME TypeOK, [Next]_vars
    PROVE  /\ \A a \in Actions : succeeded[a] > 0 => succeeded'[a] > 0
           /\ \A a \in Actions : failed[a] > 0 => failed'[a] > 0
           /\ \A c \in Crcs : deployed[c] # "NONE" => deployed'[c] # "NONE"
<1> USE DEF serverVars, heartbeatVars, pumpVars, deployVars, history, faultVars
<1>1. CASE \E a \in Actions : ScheduleAction(a)
  BY <1>1 DEF ScheduleAction
<1>2. CASE Server
  BY <1>2 DEF Server, Respond, Flush, FlushFails, RequestFails
<1>3. CASE HeartbeatThread
  BY <1>3 DEF HeartbeatThread, Heartbeat, ConnectionLost, SaveAction,
              AddMessage, EndRequest, ResponseFails
<1>4. CASE PumpThread
  <2>1. CASE ProcessSucceeds
    BY <2>1 DEF ProcessSucceeds, Increment, TypeOK
  <2>2. CASE ProcessFails
    BY <2>2 DEF ProcessFails, Increment, TypeOK
  <2> QED
    BY <1>4, <2>1, <2>2 DEF PumpThread, TakeMessage, TakeFails, ReportResult,
                            ReportFails
<1>5. CASE ContentRetriever
  BY <1>5 DEF ContentRetriever, DescriptorDone, ResourceFailed,
              DeployActionsUpdate, TypeOK
<1>6. CASE Crash
  BY <1>6 DEF Crash
<1>7. CASE UNCHANGED vars
  BY <1>7 DEF vars
<1> QED
  BY <1>1, <1>2, <1>3, <1>4, <1>5, <1>6, <1>7 DEF Next

LEMMA StaysJustified ==
    ASSUME TypeOK, [Next]_vars, NEW a \in Actions
    PROVE  /\ HasSucceeded(a) => HasSucceeded(a)'
           /\ HasFailed(a) => HasFailed(a)'
<1>1. a \in Deploys => CrcOf[a] \in Crcs
  BY ConstantsOK
<1> QED
  BY <1>1, Monotone DEF HasSucceeded, HasFailed

\* A step that changes none of the places where a status is kept.
LEMMA EvidenceKept ==
    ASSUME TypeOK, Evidence, [Next]_vars
    PROVE  /\ srv' = srv => \A a \in Actions : Justified(a, srv[a])'
           /\ upd' = upd =>
                 \A s \in Slots, a \in Actions : Justified(a, upd[s][a])'
           /\ rows' \subseteq rows =>
                 \A r \in rows' : Justified(r.act, r.st)'
<1>1. \A r \in rows : r.act \in Actions
  BY DEF TypeOK, Row
<1>2. ASSUME srv' = srv, NEW a \in Actions PROVE Justified(a, srv[a])'
  BY <1>2, StaysJustified DEF Evidence, Justified
<1>3. ASSUME upd' = upd, NEW s \in Slots, NEW a \in Actions
      PROVE  Justified(a, upd[s][a])'
  BY <1>3, StaysJustified DEF Evidence, Justified
<1>4. ASSUME rows' \subseteq rows, NEW r \in rows' PROVE Justified(r.act, r.st)'
  BY <1>1, <1>4, StaysJustified DEF Evidence, Justified
<1> QED
  BY <1>2, <1>3, <1>4

LEMMA RowsWithStatus ==
    ASSUME TypeOK, NEW S, NEW st, NEW r \in WithStatus(S, st)
    PROVE  r \in rows \/ (r.act \in S \cap Actions /\ r.st = st)
BY DEF WithStatus, TypeOK, Row

LEMMA PumpEvidenceKept ==
    ASSUME TypeOK, Evidence, [Next]_vars, pumpMsg' = pumpMsg,
           pumpPc' = pumpPc \/ pumpPc' = "idle"
    PROVE  pumpMsg' \in Actions =>
              /\ pumpPc' = "succeeded" => succeeded'[pumpMsg'] > 0
              /\ pumpPc' = "failed" => failed'[pumpMsg'] > 0
BY Monotone DEF Evidence

LEMMA EvidenceServer ==
    ASSUME TypeOK, Evidence, [Next]_vars, Server PROVE Evidence'
<1> USE DEF serverVars, heartbeatVars, pumpVars, deployVars, history, faultVars
<1>1. pumpMsg' = pumpMsg /\ pumpPc' = pumpPc /\ rows' = rows
  BY DEF Server, Respond, Flush, FlushFails, RequestFails
<1>2. ASSUME NEW s \in Slots, NEW S, srv' = Written(s, S), NEW a \in Actions
      PROVE  Justified(a, srv[a])'
  <2>1. srv'[a] = upd[s][a] \/ srv'[a] = srv[a]
    BY <1>2 DEF Written
  <2> QED
    BY <2>1, StaysJustified DEF Evidence, Justified
<1>3. ASSUME NEW s \in Slots, upd' = [upd EXCEPT ![s] = NoUpdate],
             NEW t \in Slots, NEW a \in Actions
      PROVE  Justified(a, upd[t][a])'
  <2>1. upd'[t][a] = upd[t][a] \/ upd'[t][a] = NoReport
    BY <1>3 DEF TypeOK, NoUpdate
  <2> QED
    BY <2>1, StaysJustified DEF Evidence, Justified, NoReport
<1>4. ASSUME NEW s \in Slots, Respond(s) PROVE Evidence'
  <2>1. ASSUME NEW t \in Slots, NEW a \in Actions
        PROVE  Justified(a, upd[t][a])'
    <3>1. upd'[t][a] \in {upd[t][a], "SENT", NoReport}
      BY <1>4 DEF Respond, Updates, TypeOK
    <3> QED
      BY <3>1, StaysJustified DEF Evidence, Justified, NoReport
  <2> QED
    BY <1>1, <1>4, <2>1, EvidenceKept, PumpEvidenceKept DEF Evidence, Respond
<1>5. ASSUME NEW s \in Slots, Flush(s) PROVE Evidence'
  BY <1>1, <1>2, <1>3, <1>5, EvidenceKept, PumpEvidenceKept DEF Evidence, Flush
<1>6. ASSUME NEW s \in Slots, FlushFails(s) PROVE Evidence'
  BY <1>1, <1>2, <1>3, <1>6, EvidenceKept, PumpEvidenceKept
     DEF Evidence, FlushFails
<1>7. ASSUME NEW s \in Slots, RequestFails(s) PROVE Evidence'
  BY <1>1, <1>3, <1>7, EvidenceKept, PumpEvidenceKept
     DEF Evidence, RequestFails
<1> QED
  BY <1>4, <1>5, <1>6, <1>7 DEF Server

LEMMA EvidenceHeartbeat ==
    ASSUME TypeOK, Evidence, [Next]_vars, HeartbeatThread PROVE Evidence'
<1> USE DEF serverVars, heartbeatVars, pumpVars, deployVars, history, faultVars
<1>1. srv' = srv /\ pumpMsg' = pumpMsg /\ pumpPc' = pumpPc
  BY DEF HeartbeatThread, Heartbeat, ConnectionLost, SaveAction, AddMessage,
         EndRequest, ResponseFails
<1>2. ASSUME NEW s \in Slots, Heartbeat(s) PROVE Evidence'
  <2>1. PICK f \in Reports : upd' = [upd EXCEPT ![s] = f]
    BY <1>2 DEF Heartbeat
  <2>2. ASSUME NEW a \in Actions PROVE Justified(a, f[a])
    <3>1. f[a] = NoReport \/ f[a] \in Reported(a)
      BY <2>1 DEF Reports
    <3>2. f[a] \in Reported(a) => \E r \in rows : r.act = a /\ r.st = f[a]
      BY DEF Reported, RowsOf
    <3> QED
      BY <3>1, <3>2, Unjudged DEF Evidence, NoReport, Verdict
  <2>3. ASSUME NEW t \in Slots, NEW a \in Actions
        PROVE  Justified(a, upd[t][a])'
    <3>1. upd'[t][a] = f[a] \/ upd'[t][a] = upd[t][a]
      BY <2>1 DEF TypeOK
    <3> QED
      BY <2>2, <3>1, StaysJustified DEF Evidence, Justified
  <2> QED
    BY <1>1, <1>2, <2>3, EvidenceKept, PumpEvidenceKept DEF Evidence, Heartbeat
<1>3. CASE SaveAction
  <2>1. ASSUME NEW r \in rows' PROVE Justified(r.act, r.st)'
    <3>1. r \in rows \/ r = [id |-> nextId, act |-> Head(todo), st |-> "SCHEDULED"]
      BY <1>3, <2>1 DEF SaveAction, Kept
    <3>2. CASE r \in rows
      <4>1. r.act \in Actions
        BY <3>2 DEF TypeOK, Row
      <4> QED
        BY <3>2, <4>1, StaysJustified DEF Evidence, Justified
    <3>3. CASE r.st = "SCHEDULED"
      BY <3>3 DEF Justified
    <3> QED
      BY <3>1, <3>2, <3>3
  <2> QED
    BY <1>1, <1>3, <2>1, EvidenceKept, PumpEvidenceKept DEF Evidence, SaveAction
<1>4. CASE EndRequest
  <2>1. rows' \subseteq rows
    BY <1>4 DEF EndRequest, Kept
  <2> QED
    BY <1>1, <1>4, <2>1, EvidenceKept, PumpEvidenceKept DEF Evidence, EndRequest
<1>5. CASE ConnectionLost \/ AddMessage \/ ResponseFails
  BY <1>1, <1>5, EvidenceKept, PumpEvidenceKept
     DEF Evidence, ConnectionLost, AddMessage, ResponseFails
<1> QED
  BY <1>2, <1>3, <1>4, <1>5 DEF HeartbeatThread

\* The pump thread and the timing handler set the status of rows.
LEMMA EvidenceRows ==
    ASSUME TypeOK, Evidence, [Next]_vars, NEW S, NEW st,
           rows' = WithStatus(S, st),
           \A a \in S \cap Actions : Justified(a, st)'
    PROVE  \A r \in rows' : Justified(r.act, r.st)'
<1> SUFFICES ASSUME NEW r \in rows' PROVE Justified(r.act, r.st)'
  OBVIOUS
<1>1. CASE r \in rows
  <2>1. r.act \in Actions
    BY <1>1 DEF TypeOK, Row
  <2> QED
    BY <1>1, <2>1, StaysJustified DEF Evidence, Justified
<1>2. CASE r.act \in S \cap Actions /\ r.st = st
  BY <1>2
<1> QED
  BY <1>1, <1>2, RowsWithStatus

LEMMA EvidencePump ==
    ASSUME TypeOK, Evidence, [Next]_vars, PumpThread PROVE Evidence'
<1> USE DEF serverVars, heartbeatVars, pumpVars, deployVars, history, faultVars
<1>1. srv' = srv /\ upd' = upd
  BY DEF PumpThread, TakeMessage, TakeFails, ProcessSucceeds, ProcessFails,
         ReportResult, ReportFails
<1>2. CASE TakeMessage
  <2>1. \A a \in Actions : Justified(a, "IN_PROGRESS")'
    BY DEF Justified
  <2>2. rows' = WithStatus({Head(queue)}, "IN_PROGRESS")
    BY <1>2 DEF TakeMessage
  <2>3. \A r \in rows' : Justified(r.act, r.st)'
    BY <2>1, <2>2, EvidenceRows
  <2> QED
    BY <1>1, <1>2, <2>3, EvidenceKept DEF Evidence, TakeMessage
<1>3. CASE ProcessSucceeds
  <2>1. pumpMsg \in Actions => succeeded'[pumpMsg] > 0
    BY <1>3 DEF ProcessSucceeds, Increment, TypeOK
  <2> QED
    BY <1>1, <1>3, <2>1, EvidenceKept DEF Evidence, ProcessSucceeds
<1>4. CASE ProcessFails
  <2>1. pumpMsg \in Actions => failed'[pumpMsg] > 0
    BY <1>4 DEF ProcessFails, Increment, TypeOK
  <2> QED
    BY <1>1, <1>4, <2>1, EvidenceKept DEF Evidence, ProcessFails
<1>5. CASE ReportResult
  <2>1. \A r \in rows' : Justified(r.act, r.st)'
    <3>1. CASE pumpPc = "failed"
      <4>1. \A a \in {pumpMsg} \cap Actions : Justified(a, "FAILED")'
        BY <1>5, <3>1 DEF ReportResult, Evidence, Justified, HasFailed
      <4>2. rows' = WithStatus({pumpMsg}, "FAILED")
        BY <1>5, <3>1 DEF ReportResult
      <4> QED
        BY <4>1, <4>2, EvidenceRows
    <3>2. CASE pumpPc # "failed" /\ pumpMsg \notin Deploys
      <4>1. \A a \in {pumpMsg} \cap Actions : Justified(a, "OK")'
        BY <1>5, <3>2 DEF ReportResult, Evidence, Justified, HasSucceeded
      <4>2. rows' = WithStatus({pumpMsg}, "OK")
        BY <1>5, <3>2 DEF ReportResult
      <4> QED
        BY <4>1, <4>2, EvidenceRows
    <3>3. CASE pumpPc # "failed" /\ pumpMsg \in Deploys
      <4>1. rows' = rows
        BY <1>5, <3>3 DEF ReportResult
      <4> QED
        BY <4>1, EvidenceKept
    <3> QED
      BY <3>1, <3>2, <3>3
  <2> QED
    BY <1>1, <1>5, <2>1, EvidenceKept DEF Evidence, ReportResult
<1>6. CASE TakeFails \/ ReportFails
  BY <1>1, <1>6, EvidenceKept, PumpEvidenceKept
     DEF Evidence, TakeFails, ReportFails
<1> QED
  BY <1>2, <1>3, <1>4, <1>5, <1>6 DEF PumpThread

LEMMA EvidenceContent ==
    ASSUME TypeOK, Evidence, [Next]_vars, ContentRetriever PROVE Evidence'
<1> USE DEF serverVars, heartbeatVars, pumpVars, deployVars, history, faultVars
<1>1. srv' = srv /\ upd' = upd /\ pumpMsg' = pumpMsg /\ pumpPc' = pumpPc
  BY DEF ContentRetriever, DescriptorDone, ResourceFailed, DeployActionsUpdate
<1>2. ASSUME NEW c \in Crcs, DescriptorDone(c) \/ ResourceFailed(c)
      PROVE  Evidence'
  BY <1>1, <1>2, EvidenceKept, PumpEvidenceKept
     DEF Evidence, DescriptorDone, ResourceFailed
<1>3. ASSUME NEW c \in Crcs, DeployActionsUpdate(c) PROVE Evidence'
  <2>1. deployed[c] # "NONE" /\ deployed' = deployed
    BY <1>3 DEF DeployActionsUpdate
  <2>2. \A a \in DeploysOf(c) \cap Actions : Justified(a, deployed[c])'
    BY <2>1 DEF DeploysOf, Justified, HasSucceeded, HasFailed
  <2>3. rows' = WithStatus(DeploysOf(c), deployed[c])
    BY <1>3 DEF DeployActionsUpdate
  <2> DEFINE st == deployed[c]
  <2>4. \A r \in rows' : Justified(r.act, r.st)'
    <3> SUFFICES ASSUME NEW r \in rows' PROVE Justified(r.act, r.st)'
      OBVIOUS
    <3>1. r \in rows \/ (r.act \in DeploysOf(c) \cap Actions /\ r.st = deployed[c])
      BY <2>3, RowsWithStatus
    <3>2. CASE r \in rows
      <4>1. r.act \in Actions
        BY <3>2 DEF TypeOK, Row
      <4> QED
        BY <3>2, <4>1, StaysJustified DEF Evidence, Justified
    <3> QED
      BY <2>1, <2>2, <3>1, <3>2
  <2> QED
    BY <1>1, <2>4, EvidenceKept, PumpEvidenceKept DEF Evidence
<1> QED
  BY <1>2, <1>3 DEF ContentRetriever

LEMMA EvidenceInit == Init => Evidence
<1> SUFFICES ASSUME Init PROVE Evidence
  OBVIOUS
<1>1. ASSUME NEW s \in Slots, NEW a \in Actions PROVE upd[s][a] = NoReport
  BY DEF Init, NoUpdate
<1> QED
  BY <1>1 DEF Init, Evidence, Justified, NoReport

LEMMA EvidenceStep == TypeOK /\ Evidence /\ [Next]_vars => Evidence'
<1> SUFFICES ASSUME TypeOK, Evidence, [Next]_vars PROVE Evidence'
  OBVIOUS
<1> USE DEF serverVars, heartbeatVars, pumpVars, deployVars, history, faultVars
<1>1. ASSUME NEW b \in Actions, ScheduleAction(b) PROVE Evidence'
  <2>1. ASSUME NEW a \in Actions PROVE Justified(a, srv[a])'
    <3>1. srv'[a] = "SCHEDULED" \/ srv'[a] = srv[a]
      BY <1>1 DEF ScheduleAction, TypeOK
    <3> QED
      BY <3>1, StaysJustified DEF Evidence, Justified
  <2> QED
    BY <1>1, <2>1, EvidenceKept, PumpEvidenceKept DEF Evidence, ScheduleAction
<1>2. CASE Crash
  BY <1>2, EvidenceKept, PumpEvidenceKept DEF Evidence, Crash
<1>3. CASE UNCHANGED vars
  BY <1>3, EvidenceKept, PumpEvidenceKept DEF Evidence, vars
<1> QED
  BY <1>1, <1>2, <1>3, EvidenceServer, EvidenceHeartbeat, EvidencePump,
     EvidenceContent DEF Next

\* The console never shows a result the installation did not bring about,
\* however many actions there are, however requests overlap, and whatever
\* fails, however often: the statuses that ProtocolHandler, Message,
\* TimingHandler and ServerProtocolHandler pass on are never made up.
THEOREM VerdictCorrect == Spec => []VerdictJustified
<1>1. Init => TypeOK /\ Saving /\ Evidence
  BY TypeInit, EvidenceInit DEF Init, Saving
<1>2. TypeOK /\ Saving /\ Evidence /\ [Next]_vars => (TypeOK /\ Saving /\ Evidence)'
  BY TypeStep, SavingStep, EvidenceStep
<1>3. Evidence => VerdictJustified
  BY DEF Evidence, VerdictJustified
<1> QED
  BY <1>1, <1>2, <1>3, PTL DEF Spec


-----------------------------------------------------------------------------
(* No orphaned task *)

LEMMA SeenGrows == [Next]_vars => seen \subseteq seen'
BY DEF Next, vars, faultVars, Server, HeartbeatThread, PumpThread, ContentRetriever,
       ScheduleAction, Respond, Flush, FlushFails, RequestFails, Heartbeat,
       ConnectionLost, SaveAction, AddMessage, EndRequest, ResponseFails, TakeMessage,
       TakeFails, ProcessSucceeds, ProcessFails, ReportResult, ReportFails,
       DescriptorDone, ResourceFailed, DeployActionsUpdate, Crash, Fault

\* A row that is not of the actions whose status is set was there before.
LEMMA OpenRow ==
    ASSUME rows \subseteq Row, NEW S, NEW st \in {"OK", "FAILED"},
           NEW r \in WithStatus(S, st), r.st \in {"SCHEDULED", "IN_PROGRESS"}
    PROVE  r \in rows /\ r.act \notin S
<1>1. PICK q \in rows : r = IF q.act \in S THEN [q EXCEPT !.st = st] ELSE q
  BY DEF WithStatus
<1>2. CASE q.act \in S
  BY <1>1, <1>2 DEF Row
<1>3. CASE q.act \notin S
  BY <1>1, <1>3
<1> QED
  BY <1>2, <1>3

LEMMA HandHeartbeat ==
    ASSUME TypeOK, Saving, AllInHand, HeartbeatThread,
           seen' \cap {"crash", "clientDb"} = {}
    PROVE  AllInHand'
<1> USE DEF serverVars, heartbeatVars, pumpVars, deployVars, history, faultVars
<1>1. CASE (\E s \in Slots : Heartbeat(s)) \/ ConnectionLost
  <2>1. rows' = rows /\ queue' = queue /\ pumpPc' = pumpPc /\ pumpMsg' = pumpMsg
        /\ hbPc # "saved"
    BY <1>1 DEF Heartbeat, ConnectionLost
  <2> QED
    BY <2>1 DEF AllInHand, InHand, InQueue, BeingQueued, Handling
<1>2. CASE SaveAction
  <2>1. /\ rows' = Kept \cup {[id |-> nextId, act |-> Head(todo), st |-> "SCHEDULED"]}
        /\ hbPc' = "saved" /\ todo' = todo /\ hbPc # "saved"
        /\ queue' = queue /\ pumpPc' = pumpPc /\ pumpMsg' = pumpMsg
    BY <1>2 DEF SaveAction
  <2> SUFFICES ASSUME NEW r \in rows', r.st \in {"SCHEDULED", "IN_PROGRESS"}
               PROVE  InHand(r)'
    BY DEF AllInHand
  <2>2. CASE r \in rows
    BY <2>1, <2>2 DEF AllInHand, InHand, InQueue, BeingQueued, Handling
  <2>3. CASE r = [id |-> nextId, act |-> Head(todo), st |-> "SCHEDULED"]
    BY <2>1, <2>3 DEF InHand, BeingQueued
  <2> QED
    BY <2>1, <2>2, <2>3 DEF Kept
<1>3. CASE AddMessage
  <2>1. /\ rows' = rows /\ hbPc = "saved" /\ queue' = Append(queue, Head(todo))
        /\ pumpPc' = pumpPc /\ pumpMsg' = pumpMsg
    BY <1>3 DEF AddMessage
  <2>2. Head(todo) \in Messages /\ queue \in Seq(Messages)
    BY <2>1 DEF Saving, TypeOK, Messages
  <2>3. \A m \in Actions : InQueue(m) \/ BeingQueued(m) => InQueue(m)'
    BY <2>1, <2>2 DEF InQueue, BeingQueued
  <2>4. \A r \in rows : r.act \in Actions
    BY DEF TypeOK, Row
  <2> QED
    BY <2>1, <2>3, <2>4 DEF AllInHand, InHand, Handling
<1>4. CASE EndRequest
  <2>1. /\ rows' \subseteq rows /\ hbPc # "saved"
        /\ queue' = queue /\ pumpPc' = pumpPc /\ pumpMsg' = pumpMsg
    BY <1>4 DEF EndRequest, Kept
  <2> QED
    BY <2>1 DEF AllInHand, InHand, InQueue, BeingQueued, Handling
<1>5. ~ResponseFails
  BY DEF ResponseFails, Fault
<1> QED
  BY <1>1, <1>2, <1>3, <1>4, <1>5 DEF HeartbeatThread

LEMMA HandPump ==
    ASSUME TypeOK, AllInHand, PumpThread, seen' \cap {"crash", "clientDb"} = {}
    PROVE  AllInHand'
<1> USE DEF serverVars, heartbeatVars, pumpVars, deployVars, history, faultVars
<1>1. hbPc' = hbPc /\ todo' = todo
  BY DEF PumpThread, TakeMessage, TakeFails, ProcessSucceeds, ProcessFails,
     ReportResult, ReportFails
<1>2. CASE TakeMessage
  <2>1. /\ queue # << >> /\ pumpPc = "idle" /\ pumpPc' = "begun" /\ pumpMsg' = Head(queue)
        /\ queue' = Tail(queue) /\ rows' = WithStatus({Head(queue)}, "IN_PROGRESS")
    BY <1>2 DEF TakeMessage
  <2> SUFFICES ASSUME NEW r \in rows', r.st \in {"SCHEDULED", "IN_PROGRESS"}
               PROVE  InHand(r)'
    BY DEF AllInHand
  <2>2. PICK q \in rows :
            r = IF q.act \in {Head(queue)} THEN [q EXCEPT !.st = "IN_PROGRESS"] ELSE q
    BY <2>1 DEF WithStatus
  <2>3. CASE q.act = Head(queue)
    <3>1. r.act = Head(queue) /\ r.st = "IN_PROGRESS"
      BY <2>2, <2>3 DEF TypeOK, Row
    <3> QED
      BY <2>1, <3>1 DEF InHand, Handling
  <2>4. CASE q.act # Head(queue)
    <3>1. r = q
      BY <2>2, <2>4
    <3>2. InHand(q)
      BY <3>1 DEF AllInHand
    <3>3. ASSUME InQueue(q.act) PROVE InQueue(q.act)'
      <4>1. PICK i \in DOMAIN queue : queue[i] = q.act
        BY <3>3 DEF InQueue
      <4>2. queue \in Seq(Messages) /\ Head(queue) = queue[1] /\ i \in 1..Len(queue)
        BY <4>1 DEF TypeOK
      <4>3. i - 1 \in DOMAIN Tail(queue) /\ Tail(queue)[i - 1] = queue[i]
        BY <2>1, <2>4, <4>1, <4>2
      <4> QED
        BY <2>1, <4>1, <4>3 DEF InQueue
    <3> QED
      BY <1>1, <2>1, <3>1, <3>2, <3>3 DEF InHand, BeingQueued, Handling
  <2> QED
    BY <2>3, <2>4
<1>3. CASE ProcessSucceeds \/ ProcessFails
  <2>1. rows' = rows /\ queue' = queue /\ pumpMsg' = pumpMsg /\ pumpPc' # "idle"
    BY <1>3 DEF ProcessSucceeds, ProcessFails
  <2> QED
    BY <1>1, <2>1 DEF AllInHand, InHand, InQueue, BeingQueued, Handling
<1>4. CASE ReportResult
  <2>1. queue' = queue /\ pumpMsg' = pumpMsg
    BY <1>4 DEF ReportResult
  <2> SUFFICES ASSUME NEW r \in rows', r.st \in {"SCHEDULED", "IN_PROGRESS"}
               PROVE  InHand(r)'
    BY DEF AllInHand
  <2>2. CASE pumpPc = "succeeded" /\ pumpMsg \in Deploys
    <3>1. r \in rows
      BY <1>4, <2>2 DEF ReportResult
    <3> QED
      BY <1>1, <2>1, <2>2, <3>1 DEF AllInHand, InHand, InQueue, BeingQueued, Handling
  <2>3. CASE ~(pumpPc = "succeeded" /\ pumpMsg \in Deploys)
    <3>1. \E st \in {"OK", "FAILED"} : rows' = WithStatus({pumpMsg}, st)
      BY <1>4, <2>3 DEF ReportResult
    <3>2. r \in rows /\ r.act \notin {pumpMsg}
      BY <3>1, OpenRow DEF TypeOK
    <3> QED
      BY <1>1, <2>1, <3>2 DEF AllInHand, InHand, InQueue, BeingQueued, Handling
  <2> QED
    BY <2>2, <2>3
<1>5. ~TakeFails /\ ~ReportFails
  BY DEF TakeFails, ReportFails, Fault
<1> QED
  BY <1>2, <1>3, <1>4, <1>5 DEF PumpThread

LEMMA HandStep ==
    ASSUME TypeOK, Saving, NoOrphanTask, [Next]_vars
    PROVE  NoOrphanTask'
<1> USE DEF serverVars, heartbeatVars, pumpVars, deployVars, history, faultVars
<1> SUFFICES ASSUME seen' \cap {"crash", "clientDb"} = {} PROVE AllInHand'
  BY DEF NoOrphanTask
<1>1. AllInHand
  BY SeenGrows DEF NoOrphanTask
<1>2. CASE Server
  <2>1. rows' = rows /\ queue' = queue /\ pumpPc' = pumpPc /\ pumpMsg' = pumpMsg
    BY <1>2 DEF Server, Respond, Flush, FlushFails, RequestFails
  <2>2. hbPc = "saved" => hbPc' = "saved" /\ todo' = todo
    BY <1>2 DEF Server, Respond, Flush, FlushFails, RequestFails
  <2> QED
    BY <1>1, <2>1, <2>2 DEF AllInHand, InHand, InQueue, BeingQueued, Handling
<1>3. CASE HeartbeatThread
  BY <1>1, <1>3, HandHeartbeat
<1>4. CASE PumpThread
  BY <1>1, <1>4, HandPump
<1>5. CASE ContentRetriever
  <2>1. queue' = queue /\ pumpPc' = pumpPc /\ pumpMsg' = pumpMsg
        /\ hbPc' = hbPc /\ todo' = todo
    BY <1>5 DEF ContentRetriever, DescriptorDone, ResourceFailed, DeployActionsUpdate
  <2>2. ASSUME NEW r \in rows', r.st \in {"SCHEDULED", "IN_PROGRESS"}
        PROVE  r \in rows
    <3>1. CASE rows' = rows
      BY <3>1
    <3>2. ASSUME NEW c \in Crcs, DeployActionsUpdate(c) PROVE r \in rows
      <4>1. deployed[c] \in {"OK", "FAILED"} /\ rows' = WithStatus(DeploysOf(c), deployed[c])
        BY <3>2 DEF DeployActionsUpdate, TypeOK
      <4> QED
        BY <2>2, <4>1, OpenRow DEF TypeOK
    <3> QED
      BY <1>5, <3>1, <3>2 DEF ContentRetriever, DescriptorDone, ResourceFailed
  <2> QED
    BY <1>1, <2>1, <2>2 DEF AllInHand, InHand, InQueue, BeingQueued, Handling
<1>6. ~Crash
  BY DEF Crash, Fault
<1>7. CASE (\E a \in Actions : ScheduleAction(a)) \/ UNCHANGED vars
  BY <1>1, <1>7 DEF ScheduleAction, vars, AllInHand, InHand, InQueue, BeingQueued, Handling
<1> QED
  BY <1>2, <1>3, <1>4, <1>5, <1>6, <1>7 DEF Next

\* While the client runs and its database works, every unfinished action of its
\* table is in the response being handled, in the queue or with the pump, or is
\* a deployment in progress, for any actions, requests and lost connections.
THEOREM NoOrphanCorrect == Spec => []NoOrphanTask
<1>1. Init => TypeOK /\ Saving /\ NoOrphanTask
  BY TypeInit DEF Init, Saving, NoOrphanTask, AllInHand
<1>2. TypeOK /\ Saving /\ NoOrphanTask /\ [Next]_vars => (TypeOK /\ Saving /\ NoOrphanTask)'
  BY TypeStep, SavingStep, HandStep
<1> QED
  BY <1>1, <1>2, PTL DEF Spec

-----------------------------------------------------------------------------
(* The life cycle.  An action is in one place at a time: not yet sent, in   *)
(* the response being handled, in the queue, or in the hands of the pump    *)
(* thread; and once it was processed it is in none of the first three.      *)
(* This needs a server that flushes its session before the next heartbeat,  *)
(* and a checksum for each deployment.                                      *)

InTodo(a) == \E i \in DOMAIN todo : todo[i] = a
Runs(a) == succeeded[a] + failed[a]

\* One request at a time, whose session has a report of what it read.
OneSession ==
    /\ \A s, t \in Slots : sessPc[s] # "free" /\ sessPc[t] # "free" => s = t
    /\ \A s \in Slots, a \in Actions :
        /\ sessPc[s] = "free" => upd[s][a] = NoReport
        /\ upd[s][a] # "SCHEDULED"
        /\ upd[s][a] = "SENT" => sessPc[s] = "responded" /\ srv[a] = "SCHEDULED"

\* The action has left the server, whether or not its table says so.
Sent(a) ==
    srv[a] \notin {"NONE", "SCHEDULED"} \/ \E s \in Slots : upd[s][a] = "SENT"

Untouched(a) ==
    /\ \A r \in rows : r.act # a
    /\ ~InTodo(a) /\ ~InQueue(a) /\ ~Handling(a)
    /\ Runs(a) = 0
    /\ \A s \in Slots : upd[s][a] = NoReport

SentFirst == \A a \in Actions : ~Sent(a) => Untouched(a)

OnePlace ==
    /\ \A i, j \in DOMAIN todo : todo[i] = todo[j] => i = j
    /\ \A i, j \in DOMAIN queue :
          queue[i] = queue[j] /\ queue[i] \in Actions => i = j
    /\ \A a \in Actions :
        /\ InTodo(a) => ~InQueue(a) /\ ~Handling(a)
        /\ InQueue(a) => ~Handling(a)
        /\ InTodo(a) \/ InQueue(a) \/ (Handling(a) /\ pumpPc = "begun")
              => Runs(a) = 0
        /\ Runs(a) \in {0, 1}

OneRow ==
    /\ \A r, q \in rows : r.act = q.act => r = q
    /\ \A r \in rows, i \in DOMAIN todo :
          todo[i] = r.act => hbPc = "saved" /\ i = 1

\* No result of a is known anywhere.
Undecided(a) ==
    /\ srv[a] \notin Verdict
    /\ \A s \in Slots : upd[s][a] \notin Verdict
    /\ \A r \in rows : r.act = a => r.st \notin Verdict

\* The pump thread is about to judge the action in its hands.
Judging ==
    /\ pumpMsg \in Actions
    /\ pumpPc = "failed" \/ (pumpPc = "succeeded" /\ pumpMsg \notin Deploys)

OneVerdict ==
    /\ \A r \in rows :
        /\ srv[r.act] \in Verdict => r.st = srv[r.act]
        /\ \A s \in Slots : upd[s][r.act] \in Verdict => r.st = upd[s][r.act]
    /\ \A s \in Slots, a \in Actions :
          srv[a] \in Verdict => upd[s][a] \in {NoReport, srv[a]}
    /\ Judging => Undecided(pumpMsg)

\* What the content retriever knows of a deployment was left by its action.
Left ==
    \A d \in Deploys :
        deployed[CrcOf[d]] # "NONE" \/ CrcOf[d] \in fetching => succeeded[d] > 0

LInv == /\ TypeOK /\ Saving /\ Evidence
        /\ OneSession /\ SentFirst /\ OnePlace /\ OneRow /\ OneVerdict /\ Left

Settings ==
    /\ "flush" \notin Faults
    /\ ~Overlap
    /\ \A d, e \in Deploys : CrcOf[d] = CrcOf[e] => d = e

LEMMA RunsType ==
    ASSUME TypeOK, NEW a \in Actions PROVE Runs(a) \in Nat
BY DEF TypeOK, Runs

\* A verdict stands for a processing.
LEMMA JudgedHasRun ==
    ASSUME TypeOK, Left, NEW a \in Actions, NEW st \in Verdict, Justified(a, st)
    PROVE  Runs(a) > 0
<1>1. succeeded[a] \in Nat /\ failed[a] \in Nat
  BY DEF TypeOK
<1>2. succeeded[a] > 0 \/ failed[a] > 0
  BY DEF Left, Justified, HasSucceeded, HasFailed, Verdict
<1> QED
  BY <1>1, <1>2 DEF Runs

LEMMA Verdicts ==
    ASSUME LInv, NEW a \in Actions, Runs(a) = 0
    PROVE  Undecided(a)
<1>1. ASSUME NEW st \in Verdict, Justified(a, st) PROVE FALSE
  BY <1>1, JudgedHasRun DEF LInv
<1>2. srv[a] \notin Verdict
  BY <1>1 DEF LInv, Evidence
<1>3. \A s \in Slots : upd[s][a] \notin Verdict
  BY <1>1 DEF LInv, Evidence
<1>4. \A r \in rows : r.act = a => r.st \notin Verdict
  BY <1>1 DEF LInv, Evidence
<1> QED
  BY <1>2, <1>3, <1>4 DEF Undecided

LEMMA TailPlaces ==
    ASSUME NEW T, NEW q \in Seq(T), q # << >>
    PROVE  /\ 1 \in DOMAIN q /\ Head(q) = q[1]
           /\ \A i \in DOMAIN Tail(q) :
                i + 1 \in DOMAIN q /\ Tail(q)[i] = q[i + 1] /\ i \in Nat \ {0}
OBVIOUS

LEMMA AppendPlaces ==
    ASSUME NEW T, NEW q \in Seq(T), NEW x \in T
    PROVE  \A i \in DOMAIN Append(q, x) :
              \/ i \in DOMAIN q /\ Append(q, x)[i] = q[i]
              \/ i \notin DOMAIN q /\ i = Len(q) + 1 /\ Append(q, x)[i] = x
OBVIOUS

\* The response lists each selected action once.
LEMMA ResponseOnce ==
    ASSUME NEW q \in [1..Cardinality(Selected) -> Selected],
           \A a \in Selected : \E i \in DOMAIN q : q[i] = a
    PROVE  \A i, j \in DOMAIN q : q[i] = q[j] => i = j
<1>1. IsFiniteSet(Selected)
  BY FS_Subset, ConstantsOK DEF Selected
<1>2. Cardinality(Selected) \in Nat
  BY <1>1, FS_CardinalityType
<1>3. /\ IsFiniteSet(1..Cardinality(Selected))
      /\ Cardinality(1..Cardinality(Selected)) = Cardinality(Selected)
  BY <1>2, FS_Interval
<1>4. q \in Surjection(1..Cardinality(Selected), Selected)
  BY DEF Surjection
<1>5. q \in Injection(1..Cardinality(Selected), Selected)
  BY <1>3, <1>4, FS_SurjSameCardinalityImpliesInj
<1> QED
  BY <1>5 DEF Injection, IsInjective

-----------------------------------------------------------------------------
(* The parts of the invariant, one after the other.                         *)

\* Who changes the server's tables and sessions.
LEMMA ServerSteps ==
    ASSUME Settings, [Next]_vars
    PROVE  \/ \E a \in Actions : ScheduleAction(a)
           \/ \E s \in Slots : Respond(s) \/ Flush(s) \/ RequestFails(s)
                                  \/ Heartbeat(s)
           \/ UNCHANGED <<srv, sessPc, upd>>
<1> USE DEF serverVars, heartbeatVars, pumpVars, deployVars, history, faultVars
<1>1. ASSUME NEW s \in Slots, FlushFails(s) PROVE FALSE
  BY <1>1 DEF FlushFails, Fault, Settings
<1>2. CASE HeartbeatThread
  BY <1>2 DEF HeartbeatThread, ConnectionLost, SaveAction, AddMessage, EndRequest,
              ResponseFails
<1>3. CASE PumpThread
  BY <1>3 DEF PumpThread, TakeMessage, TakeFails, ProcessSucceeds, ProcessFails,
              ReportResult, ReportFails
<1>4. CASE ContentRetriever
  BY <1>4 DEF ContentRetriever, DescriptorDone, ResourceFailed, DeployActionsUpdate
<1>5. CASE Crash \/ UNCHANGED vars
  BY <1>5 DEF Crash, vars
<1> QED
  BY <1>1, <1>2, <1>3, <1>4, <1>5 DEF Next, Server

\* The report of a heartbeat is a status of a row.
LEMMA ReportRow ==
    ASSUME LInv, NEW f \in Reports, NEW a \in Actions, f[a] # NoReport
    PROVE  \E r \in rows : r.act = a /\ r.st = f[a] /\ r.st # "SCHEDULED"
                              /\ r.st \in ClientStatus
<1>1. f[a] \in Reported(a)
  BY DEF Reports
<1>2. PICK r \in rows : r.act = a /\ r.st = f[a] /\ r.st # "SCHEDULED"
  BY <1>1 DEF Reported, RowsOf
<1>3. r.st \in ClientStatus
  BY <1>2 DEF LInv, TypeOK, Row
<1> QED
  BY <1>2, <1>3

LEMMA OneSessionStep ==
    ASSUME LInv, Settings, [Next]_vars PROVE OneSession'
<1> USE DEF LInv, serverVars
<1>1. ASSUME NEW a \in Actions, ScheduleAction(a) PROVE OneSession'
  BY <1>1 DEF ScheduleAction, OneSession, TypeOK
<1>2. ASSUME NEW s \in Slots, Respond(s) PROVE OneSession'
  <2>1. /\ sessPc[s] = "open"
        /\ sessPc' = [sessPc EXCEPT ![s] = "responded"]
        /\ upd' = [upd EXCEPT ![s] = Updates(s)]
        /\ srv' = srv
    BY <1>2 DEF Respond
  <2>2. \A a \in Actions : /\ Updates(s)[a] # "SCHEDULED"
                           /\ Updates(s)[a] = "SENT" => srv[a] = "SCHEDULED"
    BY <2>1 DEF Updates, Selected, OneSession, NoReport
  <2>3. \A s1, t1 \in Slots : sessPc'[s1] # "free" /\ sessPc'[t1] # "free" => s1 = t1
    BY <2>1 DEF OneSession, TypeOK
  <2> QED
    BY <2>1, <2>2, <2>3 DEF OneSession, TypeOK
<1>3. ASSUME NEW s \in Slots, Flush(s) PROVE OneSession'
  <2>1. /\ sessPc[s] = "responded"
        /\ sessPc' = [sessPc EXCEPT ![s] = "free"]
        /\ upd' = [upd EXCEPT ![s] = NoUpdate]
    BY <1>3 DEF Flush
  <2>2. \A t \in Slots, a \in Actions : upd'[t][a] = NoReport
    BY <2>1 DEF OneSession, TypeOK, NoUpdate
  <2>3. \A s1, t1 \in Slots : sessPc'[s1] # "free" /\ sessPc'[t1] # "free" => s1 = t1
    BY <2>1 DEF OneSession, TypeOK
  <2> QED
    BY <2>2, <2>3 DEF OneSession, NoReport
<1>4. ASSUME NEW s \in Slots, RequestFails(s) PROVE OneSession'
  <2>1. /\ sessPc[s] = "open"
        /\ sessPc' = [sessPc EXCEPT ![s] = "free"]
        /\ upd' = [upd EXCEPT ![s] = NoUpdate]
    BY <1>4 DEF RequestFails
  <2>2. \A t \in Slots, a \in Actions : upd'[t][a] = NoReport
    BY <2>1 DEF OneSession, TypeOK, NoUpdate
  <2>3. \A s1, t1 \in Slots : sessPc'[s1] # "free" /\ sessPc'[t1] # "free" => s1 = t1
    BY <2>1 DEF OneSession, TypeOK
  <2> QED
    BY <2>2, <2>3 DEF OneSession, NoReport
<1>5. ASSUME NEW s \in Slots, Heartbeat(s) PROVE OneSession'
  <2>1. PICK f \in Reports : upd' = [upd EXCEPT ![s] = f]
    BY <1>5 DEF Heartbeat
  <2>2. /\ \A t \in Slots : sessPc[t] = "free"
        /\ sessPc' = [sessPc EXCEPT ![s] = "open"]
    BY <1>5 DEF Heartbeat, Settings
  <2>3. \A a \in Actions : f[a] \notin {"SCHEDULED", "SENT"}
    BY ReportRow DEF NoReport, ClientStatus
  <2>4. \A t \in Slots, a \in Actions :
          /\ upd'[t][a] \notin {"SCHEDULED", "SENT"}
          /\ t # s => upd'[t][a] = NoReport
    BY <2>1, <2>2, <2>3 DEF OneSession, TypeOK, NoReport
  <2> QED
    BY <2>2, <2>4 DEF OneSession, TypeOK
<1>6. CASE UNCHANGED <<srv, sessPc, upd>>
  BY <1>6 DEF OneSession
<1> QED
  BY <1>1, <1>2, <1>3, <1>4, <1>5, <1>6, ServerSteps

\* Changing a status leaves the rest of a row.
LEMMA RowChanged ==
    ASSUME rows \subseteq Row, NEW S, NEW st, NEW r \in WithStatus(S, st)
    PROVE  \E q \in rows : r = IF q.act \in S THEN [id |-> q.id, act |-> q.act, st |-> st]
                                             ELSE q
<1>1. PICK q \in rows : r = IF q.act \in S THEN [q EXCEPT !.st = st] ELSE q
  BY DEF WithStatus
<1>2. q = [id |-> q.id, act |-> q.act, st |-> q.st]
  BY DEF Row
<1>3. [q EXCEPT !.st = st] = [id |-> q.id, act |-> q.act, st |-> st]
  BY <1>2
<1> QED
  BY <1>1, <1>3

\* What has left the server does not come back.
LEMMA SentStays ==
    ASSUME LInv, Settings, [Next]_vars, NEW a \in Actions, Sent(a)
    PROVE  Sent(a)'
<1> USE DEF LInv, serverVars
<1>1. ASSUME NEW b \in Actions, ScheduleAction(b) PROVE Sent(a)'
  BY <1>1 DEF ScheduleAction, Sent, TypeOK
<1>2. ASSUME NEW s \in Slots, Respond(s) \/ RequestFails(s) \/ Heartbeat(s)
      PROVE Sent(a)'
  <2>1. srv' = srv
    BY <1>2 DEF Respond, RequestFails, Heartbeat
  <2>2. \A t \in Slots : t # s => upd'[t] = upd[t]
    <3>1. \/ upd' = [upd EXCEPT ![s] = Updates(s)]
          \/ upd' = [upd EXCEPT ![s] = NoUpdate]
          \/ \E f \in Reports : upd' = [upd EXCEPT ![s] = f]
      BY <1>2 DEF Respond, RequestFails, Heartbeat
    <3> QED
      BY <3>1 DEF TypeOK
  <2>3. sessPc[s] # "responded"
    BY <1>2 DEF Respond, RequestFails, Heartbeat
  <2> QED
    BY <2>1, <2>2, <2>3 DEF Sent, OneSession
<1>3. ASSUME NEW s \in Slots, Flush(s) PROVE Sent(a)'
  <2>1. /\ srv' = Written(s, Pending(s))
        /\ sessPc[s] = "responded"
    BY <1>3 DEF Flush
  <2>2. \A t \in Slots : upd[t][a] = "SENT" => t = s
    BY <2>1 DEF OneSession
  <2>3. srv'[a] = IF upd[s][a] # NoReport THEN upd[s][a] ELSE srv[a]
    BY <2>1 DEF Written, Pending
  <2> QED
    BY <2>2, <2>3 DEF Sent, OneSession, NoReport
<1>4. CASE UNCHANGED <<srv, sessPc, upd>>
  BY <1>4 DEF Sent
<1> QED
  BY <1>1, <1>2, <1>3, <1>4, ServerSteps

\* The actions of a response have not been sent before.
LEMMA SelectedUntouched ==
    ASSUME LInv, NEW s \in Slots, sessPc[s] = "open", NEW a \in Selected
    PROVE  Untouched(a)
<1>1. a \in Actions /\ srv[a] = "SCHEDULED"
  BY DEF Selected
<1>2. \A t \in Slots : upd[t][a] # "SENT"
  BY <1>1 DEF LInv, OneSession
<1> QED
  BY <1>1, <1>2 DEF LInv, SentFirst, Sent

\* A step that leaves the places of an action alone.
LEMMA UntouchedStep ==
    ASSUME LInv, Settings, [Next]_vars, NEW a \in Actions, Untouched(a), ~Sent(a)'
    PROVE  Untouched(a)'
<1> USE DEF LInv, serverVars, heartbeatVars, pumpVars, deployVars, history, faultVars
<1>1. ASSUME NEW b \in Actions, ScheduleAction(b) PROVE Untouched(a)'
  BY <1>1 DEF ScheduleAction, Untouched, InTodo, InQueue, Handling, Runs
<1>2. ASSUME NEW s \in Slots, Respond(s) PROVE Untouched(a)'
  <2>1. srv[a] = "NONE"
    <3>1. srv[a] \in {"NONE", "SCHEDULED"}
      BY <1>2 DEF Respond, Sent
    <3>2. a \in Selected => upd'[s][a] = "SENT"
      BY <1>2 DEF Respond, Updates, TypeOK
    <3> QED
      BY <3>1, <3>2 DEF Sent, Selected
  <2>2. a \notin Selected
    BY <2>1 DEF Selected
  <2>3. ~InTodo(a)'
    <3>1. CASE todo' \in [1..Cardinality(Selected) -> Selected]
      BY <2>2, <3>1 DEF InTodo
    <3>2. CASE todo' = todo
      BY <3>2 DEF InTodo, Untouched
    <3> QED
      BY <1>2, <3>1, <3>2 DEF Respond
  <2>4. \A t \in Slots : upd'[t][a] = NoReport
    BY <1>2, <2>2 DEF Respond, Updates, TypeOK, Untouched
  <2> QED
    BY <1>2, <2>3, <2>4 DEF Respond, Untouched, InTodo, InQueue, Handling, Runs
<1>3. ASSUME NEW s \in Slots, Flush(s) \/ RequestFails(s) PROVE Untouched(a)'
  <2>1. \A t \in Slots : upd'[t][a] = NoReport
    <3>1. upd' = [upd EXCEPT ![s] = NoUpdate]
      BY <1>3 DEF Flush, RequestFails
    <3> QED
      BY <3>1 DEF TypeOK, Untouched, NoUpdate
  <2>2. todo' = todo \/ todo' = << >>
    BY <1>3 DEF Flush, RequestFails
  <2> QED
    BY <1>3, <2>1, <2>2
       DEF Flush, RequestFails, Untouched, InTodo, InQueue, Handling, Runs
<1>4. ASSUME NEW s \in Slots, Heartbeat(s) PROVE Untouched(a)'
  <2>1. PICK f \in Reports : upd' = [upd EXCEPT ![s] = f]
    BY <1>4 DEF Heartbeat
  <2>2. f[a] = NoReport
    BY <2>1, ReportRow DEF Untouched
  <2>3. \A t \in Slots : upd'[t][a] = NoReport
    BY <2>1, <2>2 DEF TypeOK, Untouched
  <2> QED
    BY <1>4, <2>3 DEF Heartbeat, Untouched, InTodo, InQueue, Handling, Runs
<1>5. CASE ConnectionLost \/ EndRequest \/ ResponseFails
  <2>1. rows' \subseteq rows /\ (todo' = todo \/ todo' = << >>)
    BY <1>5 DEF ConnectionLost, EndRequest, ResponseFails, Kept
  <2> QED
    BY <1>5, <2>1 DEF ConnectionLost, EndRequest, ResponseFails, Untouched, InTodo,
       InQueue, Handling, Runs
<1>6. CASE SaveAction
  <2>1. todo # << >> /\ Head(todo) = todo[1] /\ 1 \in DOMAIN todo
    BY <1>6, TailPlaces DEF SaveAction, TypeOK
  <2>2. Head(todo) # a
    BY <2>1 DEF Untouched, InTodo
  <2>3. \A r \in rows' : r.act # a
    BY <1>6, <2>2 DEF SaveAction, Kept, Untouched
  <2> QED
    BY <1>6, <2>3 DEF SaveAction, Untouched, InTodo, InQueue, Handling, Runs
<1>7. CASE AddMessage
  <2>1. todo # << >>
    BY <1>7 DEF AddMessage, Saving
  <2>2. /\ Head(todo) = todo[1] /\ 1 \in DOMAIN todo
        /\ \A i \in DOMAIN Tail(todo) : i + 1 \in DOMAIN todo /\ Tail(todo)[i] = todo[i + 1]
    BY <2>1, TailPlaces DEF TypeOK
  <2>3. Head(todo) # a /\ Head(todo) \in Messages
    BY <2>1, <2>2 DEF Untouched, InTodo, TypeOK, Messages
  <2>4. ~InQueue(a)'
    <3>1. queue' = Append(queue, Head(todo)) /\ queue \in Seq(Messages)
      BY <1>7 DEF AddMessage, TypeOK
    <3>2. \A i \in DOMAIN queue' : queue'[i] = Head(todo) \/ InQueue(queue'[i])
      BY <2>3, <3>1, AppendPlaces DEF InQueue
    <3> QED
      BY <2>3, <3>2 DEF InQueue, Untouched
  <2>5. ~InTodo(a)'
    BY <1>7, <2>2 DEF AddMessage, InTodo, Untouched
  <2> QED
    BY <1>7, <2>4, <2>5 DEF AddMessage, Untouched, Handling, Runs
<1>10. ASSUME NEW S, NEW st, rows' = WithStatus(S, st) \/ rows' = rows
       PROVE  \A r \in rows' : r.act # a
  <2>1. rows \subseteq Row
    BY DEF TypeOK
  <2> QED
    BY <1>10, <2>1, RowChanged DEF Untouched
<1>8. CASE TakeMessage \/ TakeFails
  <2>1. queue # << >> /\ queue' = Tail(queue)
    BY <1>8 DEF TakeMessage, TakeFails
  <2>2. /\ Head(queue) = queue[1] /\ 1 \in DOMAIN queue
        /\ \A i \in DOMAIN Tail(queue) :
              i + 1 \in DOMAIN queue /\ Tail(queue)[i] = queue[i + 1]
    BY <2>1, TailPlaces DEF TypeOK
  <2>3. ~InQueue(a)' /\ Head(queue) # a
    BY <2>1, <2>2 DEF InQueue, Untouched
  <2>4. \A r \in rows' : r.act # a
    BY <1>8, <1>10 DEF TakeMessage, TakeFails
  <2> QED
    BY <1>8, <2>3, <2>4 DEF TakeMessage, TakeFails, Untouched, InTodo, Handling, Runs
<1>9. CASE ProcessSucceeds \/ ProcessFails
  <2>1. pumpMsg # a
    BY <1>9 DEF ProcessSucceeds, ProcessFails, Untouched, Handling
  <2>2. succeeded'[a] = succeeded[a] /\ failed'[a] = failed[a]
    BY <1>9, <2>1 DEF ProcessSucceeds, ProcessFails, Increment, TypeOK
  <2> QED
    BY <1>9, <2>1, <2>2 DEF ProcessSucceeds, ProcessFails, Untouched, InTodo, InQueue,
       Handling, Runs
<1>11. CASE ReportResult \/ ReportFails
  <2>1. \A r \in rows' : r.act # a
    BY <1>11, <1>10 DEF ReportResult, ReportFails
  <2> QED
    BY <1>11, <2>1 DEF ReportResult, ReportFails, Untouched, InTodo, InQueue, Handling,
       Runs
<1>12. CASE ContentRetriever
  <2>1. \A r \in rows' : r.act # a
    BY <1>12, <1>10 DEF ContentRetriever, DescriptorDone, ResourceFailed,
       DeployActionsUpdate
  <2> QED
    BY <1>12, <2>1 DEF ContentRetriever, DescriptorDone, ResourceFailed,
       DeployActionsUpdate, Untouched, InTodo, InQueue, Handling, Runs
<1>13. CASE Crash
  BY <1>13, ConstantsOK DEF Crash, Untouched, InTodo, InQueue, Handling, Runs
<1>14. CASE UNCHANGED vars
  BY <1>14 DEF vars, Untouched, InTodo, InQueue, Handling, Runs
<1>15. ASSUME NEW s \in Slots, FlushFails(s) PROVE FALSE
  BY <1>15 DEF FlushFails, Fault, Settings
<1> QED
  BY <1>1, <1>2, <1>3, <1>4, <1>5, <1>6, <1>7, <1>8, <1>9, <1>11, <1>12, <1>13, <1>14,
     <1>15 DEF Next, Server, HeartbeatThread, PumpThread

LEMMA SentFirstStep ==
    ASSUME LInv, Settings, [Next]_vars PROVE SentFirst'
BY SentStays, UntouchedStep DEF LInv, SentFirst

\* Nothing is added to a place, and nothing is processed.
LEMMA PlacesShrink ==
    ASSUME OnePlace, todo' = todo \/ todo' = << >>, queue' = queue,
           pumpMsg' = pumpMsg, pumpPc' = pumpPc \/ pumpPc' = "idle",
           succeeded' = succeeded, failed' = failed
    PROVE  OnePlace'
<1>1. \A i, j \in DOMAIN todo' : todo'[i] = todo'[j] => i = j
  <2>1. CASE todo' = todo
    BY <2>1 DEF OnePlace
  <2>2. CASE todo' = << >>
    BY <2>2
  <2> QED
    BY <2>1, <2>2
<1>2. \A a \in Actions : /\ InTodo(a)' => InTodo(a)
                         /\ InQueue(a)' <=> InQueue(a)
                         /\ Handling(a)' => Handling(a) /\ pumpPc' = pumpPc
                         /\ Runs(a)' = Runs(a)
  BY DEF InTodo, InQueue, Handling, Runs
<1> QED
  BY <1>1, <1>2 DEF OnePlace

LEMMA OnePlaceStep ==
    ASSUME LInv, Settings, [Next]_vars PROVE OnePlace'
<1> USE DEF LInv, serverVars, heartbeatVars, pumpVars, deployVars, history, faultVars
<1>1. ASSUME NEW a \in Actions, ScheduleAction(a) PROVE OnePlace'
  BY <1>1, PlacesShrink DEF ScheduleAction
<1>2. ASSUME NEW s \in Slots, Respond(s) PROVE OnePlace'
  <2>1. /\ sessPc[s] = "open" /\ queue' = queue /\ pumpPc' = pumpPc
        /\ pumpMsg' = pumpMsg /\ succeeded' = succeeded /\ failed' = failed
    BY <1>2 DEF Respond
  <2>2. CASE todo' = todo
    BY <2>1, <2>2, PlacesShrink
  <2>3. CASE todo' \in {q \in [1..Cardinality(Selected) -> Selected] :
                           \A a \in Selected : \E i \in DOMAIN q : q[i] = a}
    <3>1. \A i, j \in DOMAIN todo' : todo'[i] = todo'[j] => i = j
      BY <2>3, ResponseOnce
    <3>2. \A a \in Actions : InTodo(a)' => a \in Selected
      BY <2>3 DEF InTodo
    <3>3. \A a \in Actions :
            InTodo(a)' => ~InQueue(a) /\ ~Handling(a) /\ Runs(a) = 0
      BY <2>1, <3>2, SelectedUntouched DEF Untouched
    <3>4. \A a \in Actions : /\ InQueue(a)' <=> InQueue(a)
                             /\ Handling(a)' <=> Handling(a)
                             /\ Runs(a)' = Runs(a)
      BY <2>1 DEF InQueue, Handling, Runs
    <3> QED
      BY <2>1, <3>1, <3>3, <3>4 DEF OnePlace
  <2> QED
    BY <1>2, <2>2, <2>3 DEF Respond
<1>3. ASSUME NEW s \in Slots, Flush(s) \/ RequestFails(s) \/ Heartbeat(s)
      PROVE OnePlace'
  <2>1. todo' = todo \/ todo' = << >>
    BY <1>3 DEF Flush, RequestFails, Heartbeat
  <2> QED
    BY <1>3, <2>1, PlacesShrink DEF Flush, RequestFails, Heartbeat
<1>4. CASE ConnectionLost \/ SaveAction \/ EndRequest \/ ResponseFails
  BY <1>4, PlacesShrink DEF ConnectionLost, SaveAction, EndRequest, ResponseFails
<1>5. CASE AddMessage
  <2>1. todo # << >>
    BY <1>5 DEF AddMessage, Saving
  <2> DEFINE h == Head(todo)
  <2>2. /\ h = todo[1] /\ 1 \in DOMAIN todo
        /\ \A i \in DOMAIN Tail(todo) :
              i + 1 \in DOMAIN todo /\ Tail(todo)[i] = todo[i + 1] /\ i \in Nat \ {0}
    BY <2>1, TailPlaces DEF TypeOK
  <2>3. h \in Actions /\ h \in Messages /\ InTodo(h)
    BY <2>1, <2>2 DEF TypeOK, Messages, InTodo
  <2>4. queue' = Append(queue, h) /\ todo' = Tail(todo)
    BY <1>5 DEF AddMessage
  <2>5. \A i \in DOMAIN queue' :
              \/ i \in DOMAIN queue /\ queue'[i] = queue[i]
              \/ i = Len(queue) + 1 /\ queue'[i] = h
    BY <2>3, <2>4, AppendPlaces DEF TypeOK
  <2> HIDE DEF h
  <2>6. ~InQueue(h) /\ ~Handling(h) /\ Runs(h) = 0
    BY <2>3 DEF OnePlace
  <2>7. \A i, j \in DOMAIN queue' :
          queue'[i] = queue'[j] /\ queue'[i] \in Actions => i = j
    BY <2>5, <2>6 DEF OnePlace, InQueue
  <2>8. \A i, j \in DOMAIN todo' : todo'[i] = todo'[j] => i = j
    <3> SUFFICES ASSUME NEW i \in DOMAIN todo', NEW j \in DOMAIN todo', todo'[i] = todo'[j]
                 PROVE  i = j
      OBVIOUS
    <3>1. i \in Nat /\ j \in Nat /\ i + 1 = j + 1
      BY <2>2, <2>4 DEF OnePlace
    <3> QED
      BY <3>1
  <2>9. \A a \in Actions : /\ InTodo(a)' => InTodo(a) /\ a # h
                           /\ InQueue(a)' => InQueue(a) \/ a = h
                           /\ Handling(a)' <=> Handling(a)
                           /\ Runs(a)' = Runs(a)
    <3> SUFFICES ASSUME NEW a \in Actions
                 PROVE  /\ InTodo(a)' => InTodo(a) /\ a # h
                        /\ InQueue(a)' => InQueue(a) \/ a = h
                        /\ Handling(a)' <=> Handling(a)
                        /\ Runs(a)' = Runs(a)
      OBVIOUS
    <3>1. ASSUME NEW i \in DOMAIN todo', todo'[i] = a
          PROVE  InTodo(a) /\ a # h
      <4>1. i + 1 \in DOMAIN todo /\ todo[i + 1] = a /\ i + 1 # 1
        BY <2>2, <2>4, <3>1
      <4> QED
        BY <2>2, <4>1 DEF InTodo, OnePlace
    <3>2. InQueue(a)' => InQueue(a) \/ a = h
      BY <2>5 DEF InQueue
    <3> QED
      BY <1>5, <3>1, <3>2 DEF AddMessage, InTodo, Handling, Runs
  <2>10. pumpPc' = pumpPc
    BY <1>5 DEF AddMessage
  <2> QED
    BY <2>3, <2>6, <2>7, <2>8, <2>9, <2>10 DEF OnePlace
<1>6. CASE TakeMessage \/ TakeFails
  <2>1. queue # << >> /\ queue' = Tail(queue) /\ pumpPc = "idle" /\ todo' = todo
    BY <1>6 DEF TakeMessage, TakeFails
  <2> DEFINE m == Head(queue)
  <2>2. /\ m = queue[1] /\ 1 \in DOMAIN queue
        /\ \A i \in DOMAIN Tail(queue) :
              i + 1 \in DOMAIN queue /\ Tail(queue)[i] = queue[i + 1] /\ i \in Nat \ {0}
    BY <2>1, TailPlaces DEF TypeOK
  <2>3. \A a \in Actions : Handling(a)' => a = m
    BY <1>6 DEF TakeMessage, TakeFails, Handling
  <2> HIDE DEF m
  <2>4. \A i, j \in DOMAIN queue' :
          queue'[i] = queue'[j] /\ queue'[i] \in Actions => i = j
    <3> SUFFICES ASSUME NEW i \in DOMAIN queue', NEW j \in DOMAIN queue',
                        queue'[i] = queue'[j], queue'[i] \in Actions
                 PROVE  i = j
      OBVIOUS
    <3>1. i \in Nat /\ j \in Nat /\ i + 1 = j + 1
      BY <2>1, <2>2 DEF OnePlace
    <3> QED
      BY <3>1
  <2>5. \A a \in Actions : InQueue(a)' => InQueue(a) /\ a # m
    <3> SUFFICES ASSUME NEW a \in Actions, NEW i \in DOMAIN queue', queue'[i] = a
                 PROVE  InQueue(a) /\ a # m
      BY DEF InQueue
    <3>1. i + 1 \in DOMAIN queue /\ queue[i + 1] = a /\ i + 1 # 1
      BY <2>1, <2>2
    <3> QED
      BY <2>2, <3>1 DEF InQueue, OnePlace
  <2>6. m \in Actions => InQueue(m) /\ ~InTodo(m) /\ Runs(m) = 0
    BY <2>2 DEF InQueue, OnePlace
  <2>7. \A a \in Actions : (InTodo(a)' <=> InTodo(a)) /\ Runs(a)' = Runs(a)
    BY <1>6, <2>1 DEF TakeMessage, TakeFails, InTodo, Runs
  <2> QED
    BY <2>1, <2>3, <2>4, <2>5, <2>6, <2>7 DEF OnePlace
<1>7. CASE ProcessSucceeds \/ ProcessFails
  <2>1. /\ pumpPc = "begun" /\ pumpPc' \in {"succeeded", "failed"}
        /\ pumpMsg' = pumpMsg /\ todo' = todo /\ queue' = queue
    BY <1>7 DEF ProcessSucceeds, ProcessFails
  <2>2. pumpMsg \in Actions =>
          /\ Runs(pumpMsg) = 0 /\ ~InTodo(pumpMsg) /\ ~InQueue(pumpMsg)
          /\ Runs(pumpMsg)' = 1
    <3> SUFFICES ASSUME pumpMsg \in Actions
                 PROVE  /\ Runs(pumpMsg) = 0 /\ ~InTodo(pumpMsg) /\ ~InQueue(pumpMsg)
                        /\ Runs(pumpMsg)' = 1
      OBVIOUS
    <3>1. Handling(pumpMsg)
      BY <2>1 DEF Handling
    <3>2. Runs(pumpMsg) = 0 /\ ~InTodo(pumpMsg) /\ ~InQueue(pumpMsg)
      BY <2>1, <3>1 DEF OnePlace
    <3>3. Runs(pumpMsg)' = 1
      BY <1>7, <2>1, <3>2 DEF ProcessSucceeds, ProcessFails, Increment, Runs, TypeOK
    <3> QED
      BY <3>2, <3>3
  <2>3. \A a \in Actions : a # pumpMsg => Runs(a)' = Runs(a)
    BY <1>7 DEF ProcessSucceeds, ProcessFails, Increment, Runs, TypeOK
  <2>4. \A a \in Actions : /\ InTodo(a)' <=> InTodo(a)
                           /\ InQueue(a)' <=> InQueue(a)
                           /\ Handling(a)' <=> Handling(a)
    BY <2>1 DEF InTodo, InQueue, Handling
  <2> QED
    BY <2>1, <2>2, <2>3, <2>4 DEF OnePlace
<1>8. CASE ReportResult \/ ReportFails
  BY <1>8, PlacesShrink DEF ReportResult, ReportFails
<1>9. CASE ContentRetriever
  BY <1>9, PlacesShrink DEF ContentRetriever, DescriptorDone, ResourceFailed,
     DeployActionsUpdate
<1>10. CASE Crash
  <2>1. \A i \in DOMAIN queue' : queue'[i] \notin Actions
    BY <1>10, ConstantsOK DEF Crash
  <2>2. \A a \in Actions : ~InTodo(a)' /\ ~InQueue(a)' /\ ~Handling(a)'
                              /\ Runs(a)' = Runs(a)
    BY <1>10, <2>1 DEF Crash, InTodo, InQueue, Handling, Runs
  <2>3. \A i, j \in DOMAIN todo' : todo'[i] = todo'[j] => i = j
    BY <1>10 DEF Crash
  <2> QED
    BY <2>1, <2>2, <2>3 DEF OnePlace
<1>11. CASE UNCHANGED vars
  BY <1>11, PlacesShrink DEF vars
<1>12. ASSUME NEW s \in Slots, FlushFails(s) PROVE FALSE
  BY <1>12 DEF FlushFails, Fault, Settings
<1> QED
  BY <1>1, <1>2, <1>3, <1>4, <1>5, <1>6, <1>7, <1>8, <1>9, <1>10, <1>11, <1>12
     DEF Next, Server, HeartbeatThread, PumpThread

\* Rows may go or change their status; no action is received.
LEMMA RowsShrink ==
    ASSUME TypeOK, OneRow,
           rows' \subseteq rows \/ \E S, st : rows' = WithStatus(S, st),
           todo' = << >> \/ (todo' = todo /\ (hbPc' = hbPc \/ hbPc # "saved"))
    PROVE  OneRow'
<1>1. /\ \A r, q \in rows' : r.act = q.act => r = q
      /\ \A r \in rows' : \E q \in rows : r.act = q.act
  <2>1. CASE rows' \subseteq rows
    BY <2>1 DEF OneRow
  <2>2. ASSUME NEW S, NEW st, rows' = WithStatus(S, st)
        PROVE  /\ \A r, q \in rows' : r.act = q.act => r = q
               /\ \A r \in rows' : \E q \in rows : r.act = q.act
    <3>1. rows \subseteq Row
      BY DEF TypeOK
    <3>2. \A r \in rows' :
            \E q \in rows : r = IF q.act \in S THEN [id |-> q.id, act |-> q.act, st |-> st]
                                               ELSE q
      BY <2>2, <3>1, RowChanged
    <3>3. \A r \in rows' : \E q \in rows :
            /\ r = IF q.act \in S THEN [id |-> q.id, act |-> q.act, st |-> st] ELSE q
            /\ r.act = q.act
      BY <3>2
    <3> QED
      BY <3>3 DEF OneRow
  <2> QED
    BY <2>1, <2>2
<1>2. CASE todo' = << >>
  BY <1>1, <1>2 DEF OneRow
<1>3. CASE todo' = todo /\ (hbPc' = hbPc \/ hbPc # "saved")
  BY <1>1, <1>3 DEF OneRow
<1> QED
  BY <1>2, <1>3

LEMMA OneRowStep ==
    ASSUME LInv, Settings, [Next]_vars PROVE OneRow'
<1> USE DEF LInv, serverVars, heartbeatVars, pumpVars, deployVars, history, faultVars
<1>1. ASSUME NEW a \in Actions, ScheduleAction(a) PROVE OneRow'
  BY <1>1, RowsShrink DEF ScheduleAction
<1>2. ASSUME NEW s \in Slots, Respond(s) PROVE OneRow'
  <2>1. sessPc[s] = "open" /\ rows' = rows
    BY <1>2 DEF Respond
  <2>2. CASE todo' = todo /\ hbPc' = hbPc
    BY <2>1, <2>2, RowsShrink
  <2>3. CASE todo' \in [1..Cardinality(Selected) -> Selected]
    <3>1. \A i \in DOMAIN todo' : todo'[i] \in Selected
      BY <2>3
    <3>2. \A i \in DOMAIN todo', r \in rows : todo'[i] # r.act
      BY <2>1, <3>1, SelectedUntouched DEF Untouched
    <3> QED
      BY <2>1, <3>2 DEF OneRow
  <2> QED
    BY <1>2, <2>2, <2>3 DEF Respond
<1>3. ASSUME NEW s \in Slots, Flush(s) \/ RequestFails(s) \/ Heartbeat(s)
      PROVE OneRow'
  <2>1. /\ rows' = rows
        /\ todo' = << >> \/ (todo' = todo /\ (hbPc' = hbPc \/ hbPc # "saved"))
    BY <1>3 DEF Flush, RequestFails, Heartbeat
  <2> QED
    BY <2>1, RowsShrink
<1>4. CASE ConnectionLost \/ EndRequest \/ ResponseFails
  BY <1>4, RowsShrink DEF ConnectionLost, EndRequest, ResponseFails, Kept
<1>5. CASE SaveAction
  <2> DEFINE h == Head(todo)
             new == [id |-> nextId, act |-> h, st |-> "SCHEDULED"]
  <2>1. /\ todo # << >> /\ todo' = todo /\ hbPc' = "saved" /\ hbPc # "saved"
        /\ rows' \subseteq rows \cup {new}
    BY <1>5 DEF SaveAction, Kept
  <2>2. h = todo[1] /\ 1 \in DOMAIN todo
    BY <2>1, TailPlaces DEF TypeOK
  <2>3. \A r \in rows, i \in DOMAIN todo : todo[i] # r.act
    BY <2>1 DEF OneRow
  <2>4. new.act = h
    OBVIOUS
  <2> HIDE DEF new, h
  <2>5. \A r, q \in rows' : r.act = q.act => r = q
    BY <2>1, <2>2, <2>3, <2>4 DEF OneRow
  <2>6. \A r \in rows', i \in DOMAIN todo' : todo'[i] = r.act => i = 1
    BY <2>1, <2>2, <2>3, <2>4 DEF OnePlace
  <2> QED
    BY <2>1, <2>5, <2>6 DEF OneRow
<1>6. CASE AddMessage
  <2>1. todo # << >> /\ rows' = rows /\ todo' = Tail(todo)
    BY <1>6 DEF AddMessage, Saving
  <2>2. \A i \in DOMAIN Tail(todo) :
              i + 1 \in DOMAIN todo /\ Tail(todo)[i] = todo[i + 1] /\ i + 1 # 1
    BY <2>1, TailPlaces DEF TypeOK
  <2>3. \A r \in rows, i \in DOMAIN todo' : todo'[i] # r.act
    BY <2>1, <2>2 DEF OneRow
  <2> QED
    BY <2>1, <2>3 DEF OneRow
<1>7. CASE PumpThread
  <2>1. todo' = todo /\ hbPc' = hbPc
    BY <1>7 DEF PumpThread, TakeMessage, TakeFails, ProcessSucceeds, ProcessFails,
       ReportResult, ReportFails
  <2>2. rows' \subseteq rows \/ \E S, st : rows' = WithStatus(S, st)
    BY <1>7 DEF PumpThread, TakeMessage, TakeFails, ProcessSucceeds, ProcessFails,
       ReportResult, ReportFails
  <2> QED
    BY <2>1, <2>2, RowsShrink
<1>8. CASE ContentRetriever
  <2>1. todo' = todo /\ hbPc' = hbPc
    BY <1>8 DEF ContentRetriever, DescriptorDone, ResourceFailed, DeployActionsUpdate
  <2>2. rows' \subseteq rows \/ \E S, st : rows' = WithStatus(S, st)
    BY <1>8 DEF ContentRetriever, DescriptorDone, ResourceFailed, DeployActionsUpdate
  <2> QED
    BY <2>1, <2>2, RowsShrink
<1>9. CASE Crash
  BY <1>9, RowsShrink DEF Crash
<1>10. CASE UNCHANGED vars
  BY <1>10, RowsShrink DEF vars
<1>11. ASSUME NEW s \in Slots, FlushFails(s) PROVE FALSE
  BY <1>11 DEF FlushFails, Fault, Settings
<1> QED
  BY <1>1, <1>2, <1>3, <1>4, <1>5, <1>6, <1>7, <1>8, <1>9, <1>10, <1>11
     DEF Next, Server, HeartbeatThread

\* No verdict is new, and the pump does not come to one.
LEMMA VerdictsShrink ==
    ASSUME OneVerdict, srv' = srv, rows' \subseteq rows,
           \A s \in Slots, a \in Actions :
              upd'[s][a] = upd[s][a] \/ upd'[s][a] \notin Verdict \cup {"SENT"},
           \A s \in Slots, a \in Actions :
              srv[a] \in Verdict => upd'[s][a] \in {upd[s][a], NoReport},
           rows \subseteq Row,
           Judging' => Judging /\ pumpMsg' = pumpMsg
    PROVE  OneVerdict'
<1>1. \A r \in rows : r.act \in Actions
  BY DEF Row
<1>2. \A a \in Actions : Undecided(a) => Undecided(a)'
  BY DEF Undecided
<1>3. Judging => pumpMsg \in Actions
  BY DEF Judging
<1> QED
  BY <1>1, <1>2, <1>3 DEF OneVerdict

\* The pump or the timing handler gives the rows of some actions a status that
\* contradicts no verdict.
LEMMA VerdictsOfRows ==
    ASSUME TypeOK, OneVerdict, srv' = srv, upd' = upd, NEW S, NEW st,
           rows' = WithStatus(S, st), ~Judging',
           \A a \in S \cap Actions :
              /\ srv[a] \notin Verdict
              /\ \A s \in Slots : upd[s][a] \notin Verdict
    PROVE  OneVerdict'
<1>1. rows \subseteq Row
  BY DEF TypeOK
<1>2. ASSUME NEW r \in rows'
      PROVE  /\ srv[r.act] \in Verdict => r.st = srv[r.act]
             /\ \A s \in Slots : upd[s][r.act] \in Verdict => r.st = upd[s][r.act]
  <2>1. PICK q \in rows : r = IF q.act \in S THEN [id |-> q.id, act |-> q.act, st |-> st]
                                             ELSE q
    BY <1>1, RowChanged
  <2>2. q.act \in Actions /\ r.act = q.act
    BY <1>1, <2>1 DEF Row
  <2>3. CASE q.act \in S
    BY <2>2, <2>3
  <2>4. CASE q.act \notin S
    BY <2>1, <2>4 DEF OneVerdict
  <2> QED
    BY <2>3, <2>4
<1> QED
  BY <1>2 DEF OneVerdict

LEMMA OneVerdictServer ==
    ASSUME LInv, Settings, [Next]_vars, Server PROVE OneVerdict'
<1> USE DEF LInv, serverVars, heartbeatVars, pumpVars, deployVars, history, faultVars
<1>0. rows \subseteq Row /\ rows' = rows /\ (Judging' <=> Judging) /\ pumpMsg' = pumpMsg
  BY DEF TypeOK, Judging, Server, Respond, Flush, FlushFails, RequestFails
<1>1. ASSUME NEW s \in Slots, Respond(s) PROVE OneVerdict'
  <2>1. srv' = srv /\ upd' = [upd EXCEPT ![s] = Updates(s)]
    BY <1>1 DEF Respond
  <2>2. \A t \in Slots, a \in Actions :
          \/ upd'[t][a] = upd[t][a]
          \/ upd'[t][a] = NoReport
          \/ upd'[t][a] = "SENT" /\ srv[a] = "SCHEDULED"
    BY <2>1 DEF Updates, TypeOK, Selected
  <2>3. \A a \in Actions : Undecided(a) => Undecided(a)'
    BY <1>0, <2>1, <2>2 DEF Undecided, NoReport, Verdict
  <2>4. \A r \in rows : r.act \in Actions
    BY <1>0 DEF Row
  <2>5. Judging => pumpMsg \in Actions
    BY DEF Judging
  <2> QED
    BY <1>0, <2>1, <2>2, <2>3, <2>4, <2>5 DEF OneVerdict, NoReport, Verdict
<1>2. ASSUME NEW s \in Slots, Flush(s) PROVE OneVerdict'
  <2>1. /\ sessPc[s] = "responded"
        /\ srv' = Written(s, Pending(s))
        /\ upd' = [upd EXCEPT ![s] = NoUpdate]
    BY <1>2 DEF Flush
  <2>2. \A t \in Slots, a \in Actions : upd'[t][a] = NoReport
    BY <2>1 DEF OneSession, TypeOK, NoUpdate
  <2>3. \A a \in Actions : srv'[a] = IF upd[s][a] # NoReport THEN upd[s][a] ELSE srv[a]
    BY <2>1 DEF Written, Pending
  <2>4. \A r \in rows : r.act \in Actions
    BY <1>0 DEF Row
  <2>5. \A r \in rows : srv'[r.act] \in Verdict => r.st = srv'[r.act]
    BY <2>3, <2>4 DEF OneVerdict
  <2>6. \A a \in Actions : Undecided(a) => Undecided(a)'
    BY <1>0, <2>2, <2>3 DEF Undecided, NoReport, Verdict
  <2>7. Judging => pumpMsg \in Actions
    BY DEF Judging
  <2> QED
    BY <1>0, <2>2, <2>4, <2>5, <2>6, <2>7 DEF OneVerdict, NoReport, Verdict
<1>3. ASSUME NEW s \in Slots, RequestFails(s) PROVE OneVerdict'
  <2>1. srv' = srv /\ upd' = [upd EXCEPT ![s] = NoUpdate]
    BY <1>3 DEF RequestFails
  <2>2. \A t \in Slots, a \in Actions :
          upd'[t][a] = upd[t][a] \/ upd'[t][a] = NoReport
    BY <2>1 DEF TypeOK, NoUpdate
  <2> QED
    BY <1>0, <2>1, <2>2, VerdictsShrink DEF NoReport, Verdict
<1>4. ASSUME NEW s \in Slots, FlushFails(s) PROVE FALSE
  BY <1>4 DEF FlushFails, Fault, Settings
<1> QED
  BY <1>1, <1>2, <1>3, <1>4 DEF Server

LEMMA OneVerdictHeartbeat ==
    ASSUME LInv, Settings, [Next]_vars, HeartbeatThread PROVE OneVerdict'
<1> USE DEF LInv, serverVars, heartbeatVars, pumpVars, deployVars, history, faultVars
<1>0. /\ rows \subseteq Row /\ srv' = srv
      /\ (Judging' <=> Judging) /\ pumpMsg' = pumpMsg
      /\ Judging => pumpMsg \in Actions
  BY DEF TypeOK, Judging, HeartbeatThread, Heartbeat, ConnectionLost, SaveAction,
         AddMessage, EndRequest, ResponseFails
<1>1. ASSUME NEW s \in Slots, Heartbeat(s) PROVE OneVerdict'
  <2>1. PICK f \in Reports : upd' = [upd EXCEPT ![s] = f]
    BY <1>1 DEF Heartbeat
  <2>2. \A a \in Actions : \A r \in rows : r.act = a => f[a] \in {NoReport, r.st}
    BY ReportRow DEF OneRow
  <2>3. \A a \in Actions : f[a] # NoReport => \E r \in rows : r.act = a /\ r.st = f[a]
    BY ReportRow
  <2>4. \A t \in Slots, a \in Actions : upd'[t][a] = upd[t][a] \/ upd'[t][a] = f[a]
    BY <2>1 DEF TypeOK
  <2>5. rows' = rows
    BY <1>1 DEF Heartbeat
  <2>6. \A a \in Actions : Undecided(a) => Undecided(a)'
    BY <1>0, <2>3, <2>4, <2>5 DEF Undecided, NoReport, Verdict
  <2>7. \A r \in rows : r.act \in Actions
    BY <1>0 DEF Row
  <2>8. \A r \in rows, t \in Slots : upd'[t][r.act] \in Verdict => r.st = upd'[t][r.act]
    BY <2>2, <2>4, <2>7 DEF OneVerdict, NoReport, Verdict
  <2>9. \A t \in Slots, a \in Actions :
          srv[a] \in Verdict => upd'[t][a] \in {NoReport, srv[a]}
    BY <2>3, <2>4 DEF OneVerdict
  <2> QED
    BY <1>0, <2>5, <2>6, <2>8, <2>9 DEF OneVerdict
<1>2. CASE SaveAction
  <2> DEFINE h == Head(todo)
             new == [id |-> nextId, act |-> h, st |-> "SCHEDULED"]
  <2>1. todo # << >> /\ rows' \subseteq rows \cup {new} /\ upd' = upd
    BY <1>2 DEF SaveAction, Kept
  <2>2. h = todo[1] /\ 1 \in DOMAIN todo /\ h \in Actions
    BY <2>1, TailPlaces DEF TypeOK
  <2>3. Runs(h) = 0
    BY <2>2 DEF OnePlace, InTodo
  <2>4. Undecided(h)
    BY <2>2, <2>3, Verdicts
  <2>5. new.act = h /\ new.st = "SCHEDULED"
    OBVIOUS
  <2> HIDE DEF new, h
  <2>6. \A a \in Actions : Undecided(a) => Undecided(a)'
    BY <1>0, <2>1, <2>5 DEF Undecided, Verdict
  <2>7. \A r \in rows' :
        /\ srv[r.act] \in Verdict => r.st = srv[r.act]
        /\ \A s \in Slots : upd[s][r.act] \in Verdict => r.st = upd[s][r.act]
    BY <2>1, <2>4, <2>5 DEF OneVerdict, Undecided
  <2> QED
    BY <1>0, <2>1, <2>6, <2>7 DEF OneVerdict
<1>3. CASE ConnectionLost \/ AddMessage \/ EndRequest \/ ResponseFails
  <2>1. rows' \subseteq rows /\ upd' = upd
    BY <1>3 DEF ConnectionLost, AddMessage, EndRequest, ResponseFails, Kept
  <2> QED
    BY <1>0, <2>1, VerdictsShrink
<1> QED
  BY <1>1, <1>2, <1>3 DEF HeartbeatThread

LEMMA OneVerdictPump ==
    ASSUME LInv, Settings, [Next]_vars, PumpThread PROVE OneVerdict'
<1> USE DEF LInv, serverVars, heartbeatVars, pumpVars, deployVars, history, faultVars
<1>0. rows \subseteq Row /\ srv' = srv /\ upd' = upd
  BY DEF TypeOK, PumpThread, TakeMessage, TakeFails, ProcessSucceeds, ProcessFails,
         ReportResult, ReportFails
<1>1. CASE TakeMessage
  <2> DEFINE m == Head(queue)
  <2>1. queue # << >> /\ rows' = WithStatus({m}, "IN_PROGRESS") /\ ~Judging'
    BY <1>1 DEF TakeMessage, Judging
  <2>2. m = queue[1] /\ 1 \in DOMAIN queue
    BY <2>1, TailPlaces DEF TypeOK
  <2>3. m \in Actions => Undecided(m)
    BY <2>2, Verdicts DEF OnePlace, InQueue
  <2> HIDE DEF m
  <2> QED
    BY <1>0, <2>1, <2>3, VerdictsOfRows DEF Undecided
<1>2. CASE TakeFails \/ ReportFails
  <2>1. rows' = rows /\ (Judging' => Judging /\ pumpMsg' = pumpMsg)
    BY <1>2 DEF TakeFails, ReportFails, Judging
  <2> QED
    BY <1>0, <2>1, VerdictsShrink
<1>3. CASE ProcessSucceeds \/ ProcessFails
  <2>1. rows' = rows /\ pumpMsg' = pumpMsg /\ pumpPc = "begun"
    BY <1>3 DEF ProcessSucceeds, ProcessFails
  <2>2. pumpMsg \in Actions => Undecided(pumpMsg)
    BY <2>1, Verdicts DEF OnePlace, Handling
  <2>3. \A a \in Actions : Undecided(a) => Undecided(a)'
    BY <1>0, <2>1 DEF Undecided
  <2>4. Judging' => pumpMsg \in Actions
    BY <2>1 DEF Judging
  <2> QED
    BY <1>0, <2>1, <2>2, <2>3, <2>4 DEF OneVerdict
<1>4. CASE ReportResult
  <2>1. ~Judging'
    BY <1>4 DEF ReportResult, Judging
  <2>2. CASE Judging
    <3>1. Undecided(pumpMsg)
      BY <2>2 DEF OneVerdict
    <3>2. \E st : rows' = WithStatus({pumpMsg}, st)
      BY <1>4, <2>2 DEF ReportResult, Judging
    <3> QED
      BY <1>0, <2>1, <3>1, <3>2, VerdictsOfRows DEF Undecided
  <2>3. CASE ~Judging
    <3>1. rows' = rows \/ (pumpMsg \notin Actions /\ \E st : rows' = WithStatus({pumpMsg}, st))
      BY <1>4, <2>3 DEF ReportResult, Judging
    <3>2. CASE rows' = rows
      BY <1>0, <2>1, <3>2, VerdictsShrink
    <3>3. CASE pumpMsg \notin Actions /\ \E st : rows' = WithStatus({pumpMsg}, st)
      BY <1>0, <2>1, <3>3, VerdictsOfRows
    <3> QED
      BY <3>1, <3>2, <3>3
  <2> QED
    BY <2>2, <2>3
<1> QED
  BY <1>1, <1>2, <1>3, <1>4 DEF PumpThread

\* A deployment that is known was processed, so the pump is not about to call
\* it a failure.
LEMMA NotJudged ==
    ASSUME LInv, NEW d \in Deploys, deployed[CrcOf[d]] # "NONE"
    PROVE  ~(Judging /\ pumpMsg = d)
<1> SUFFICES ASSUME Judging, pumpMsg = d PROVE FALSE
  OBVIOUS
<1>1. d \in Actions
  BY ConstantsOK
<1>2. succeeded[d] > 0 /\ failed[d] > 0
  BY <1>1 DEF LInv, Left, Evidence, Judging
<1>3. succeeded[d] \in Nat /\ failed[d] \in Nat /\ Runs(d) \in {0, 1}
  BY <1>1 DEF LInv, TypeOK, OnePlace
<1> QED
  BY <1>2, <1>3 DEF Runs

LEMMA OneVerdictContent ==
    ASSUME LInv, Settings, [Next]_vars, ContentRetriever PROVE OneVerdict'
<1> USE DEF LInv, serverVars, heartbeatVars, pumpVars, deployVars, history, faultVars
<1>0. /\ rows \subseteq Row /\ srv' = srv /\ upd' = upd
      /\ pumpMsg' = pumpMsg /\ (Judging' <=> Judging)
  BY DEF TypeOK, Judging, ContentRetriever, DescriptorDone, ResourceFailed,
         DeployActionsUpdate
<1>1. ASSUME NEW c \in Crcs, DescriptorDone(c) \/ ResourceFailed(c) PROVE OneVerdict'
  <2>1. rows' = rows
    BY <1>1 DEF DescriptorDone, ResourceFailed
  <2> QED
    BY <1>0, <2>1, VerdictsShrink
<1>2. ASSUME NEW c \in Crcs, DeployActionsUpdate(c) PROVE OneVerdict'
  <2>1. PICK q \in rows : q.act \in DeploysOf(c) /\ q.st = "IN_PROGRESS"
    BY <1>2 DEF DeployActionsUpdate
  <2>2. /\ rows' = WithStatus(DeploysOf(c), deployed[c])
        /\ deployed[c] # "NONE"
    BY <1>2 DEF DeployActionsUpdate
  <2> DEFINE d == q.act
  <2>3. d \in Deploys /\ CrcOf[d] = c /\ DeploysOf(c) = {d} /\ d \in Actions
    BY <2>1, ConstantsOK DEF DeploysOf, Settings
  <2>4. srv[d] \notin Verdict /\ \A s \in Slots : upd[s][d] \notin Verdict
    BY <2>1 DEF OneVerdict, Verdict
  <2>5. ~(Judging /\ pumpMsg = d)
    BY <2>2, <2>3, NotJudged
  <2> HIDE DEF d
  <2>6. ASSUME NEW r \in rows'
        PROVE  \/ r \in rows
               \/ r.act = d
    <3>1. PICK p \in rows : r = IF p.act \in DeploysOf(c)
                                THEN [id |-> p.id, act |-> p.act, st |-> deployed[c]] ELSE p
      BY <1>0, <2>2, RowChanged
    <3> QED
      BY <2>3, <3>1
  <2>7. \A r \in rows' :
        /\ srv[r.act] \in Verdict => r.st = srv[r.act]
        /\ \A s \in Slots : upd[s][r.act] \in Verdict => r.st = upd[s][r.act]
    BY <2>4, <2>6 DEF OneVerdict
  <2>8. Judging => Undecided(pumpMsg)'
    BY <1>0, <2>5, <2>6 DEF OneVerdict, Undecided
  <2> QED
    BY <1>0, <2>7, <2>8 DEF OneVerdict
<1> QED
  BY <1>1, <1>2 DEF ContentRetriever

LEMMA OneVerdictStep ==
    ASSUME LInv, Settings, [Next]_vars PROVE OneVerdict'
<1> USE DEF LInv, serverVars, heartbeatVars, pumpVars, deployVars, history, faultVars
<1>1. ASSUME NEW a \in Actions, ScheduleAction(a) PROVE OneVerdict'
  <2>1. /\ srv[a] = "NONE" /\ srv' = [srv EXCEPT ![a] = "SCHEDULED"]
        /\ upd' = upd /\ rows' = rows /\ pumpMsg' = pumpMsg /\ (Judging' <=> Judging)
    BY <1>1 DEF ScheduleAction, Judging
  <2>2. \A b \in Actions : srv'[b] = srv[b] \/ srv'[b] = "SCHEDULED"
    BY <2>1 DEF TypeOK
  <2>3. \A b \in Actions : srv'[b] \in Verdict => srv'[b] = srv[b]
    BY <2>2 DEF Verdict
  <2>4. \A r \in rows : r.act \in Actions
    BY DEF TypeOK, Row
  <2>5. Judging => pumpMsg \in Actions
    BY DEF Judging
  <2>6. \A b \in Actions : Undecided(b) => Undecided(b)'
    BY <2>1, <2>3 DEF Undecided
  <2> QED
    BY <2>1, <2>3, <2>4, <2>5, <2>6 DEF OneVerdict
<1>2. CASE Crash \/ UNCHANGED vars
  <2>1. rows' = rows /\ rows \subseteq Row /\ srv' = srv /\ upd' = upd
    BY <1>2 DEF Crash, vars, TypeOK
  <2>2. Judging' => Judging /\ pumpMsg' = pumpMsg
    BY <1>2 DEF Crash, vars, Judging
  <2> QED
    BY <2>1, <2>2, VerdictsShrink
<1> QED
  BY <1>1, <1>2, OneVerdictServer, OneVerdictHeartbeat, OneVerdictPump,
     OneVerdictContent DEF Next

LEMMA LeftStep ==
    ASSUME LInv, Settings, [Next]_vars PROVE Left'
<1> USE DEF LInv, serverVars, heartbeatVars, pumpVars, deployVars, history, faultVars
<1>1. \A d \in Deploys : d \in Actions /\ CrcOf[d] \in Crcs
  BY ConstantsOK
<1>2. \A d \in Deploys : succeeded[d] > 0 => succeeded'[d] > 0
  BY <1>1, Monotone
<1>3. CASE ProcessSucceeds
  <2>1. /\ deployed' = deployed
        /\ fetching' = IF pumpMsg \in Deploys THEN fetching \cup {CrcOf[pumpMsg]}
                                              ELSE fetching
    BY <1>3 DEF ProcessSucceeds
  <2>2. pumpMsg \in Deploys => succeeded'[pumpMsg] > 0
    BY <1>1, <1>3 DEF ProcessSucceeds, Increment, TypeOK
  <2>3. \A d \in Deploys : CrcOf[d] \in fetching' => CrcOf[d] \in fetching \/ d = pumpMsg
    BY <2>1 DEF Settings
  <2> QED
    BY <1>2, <2>1, <2>2, <2>3 DEF Left
<1>4. CASE ContentRetriever
  <2>1. \A d \in Deploys :
          deployed'[CrcOf[d]] # "NONE" \/ CrcOf[d] \in fetching' =>
              deployed[CrcOf[d]] # "NONE" \/ CrcOf[d] \in fetching
    BY <1>1, <1>4 DEF ContentRetriever, DescriptorDone, ResourceFailed,
       DeployActionsUpdate, TypeOK
  <2> QED
    BY <1>2, <2>1 DEF Left
<1>5. CASE \E a \in Actions : ScheduleAction(a)
  BY <1>5 DEF ScheduleAction, Left
<1>6. CASE Server
  BY <1>6 DEF Server, Respond, Flush, FlushFails, RequestFails, Left
<1>7. CASE HeartbeatThread
  BY <1>7 DEF HeartbeatThread, Heartbeat, ConnectionLost, SaveAction, AddMessage,
     EndRequest, ResponseFails, Left
<1>8. CASE PumpThread /\ ~ProcessSucceeds
  <2>1. deployed' = deployed /\ fetching' = fetching
    BY <1>8 DEF PumpThread, TakeMessage, TakeFails, ProcessFails, ReportResult, ReportFails
  <2> QED
    BY <1>2, <2>1 DEF Left
<1>9. CASE Crash \/ UNCHANGED vars
  BY <1>9 DEF Crash, vars, Left
<1> QED
  BY <1>3, <1>4, <1>5, <1>6, <1>7, <1>8, <1>9 DEF Next

LEMMA LInit == Init => LInv
<1> SUFFICES ASSUME Init PROVE LInv
  OBVIOUS
<1>1. \A s \in Slots, a \in Actions : upd[s][a] = NoReport
  BY DEF Init, NoUpdate
<1>2. OneSession
  BY <1>1 DEF Init, OneSession, NoReport
<1>3. \A a \in Actions : ~InTodo(a) /\ ~InQueue(a) /\ ~Handling(a) /\ Runs(a) = 0
  BY ConstantsOK DEF Init, InTodo, InQueue, Handling, Runs
<1>4. SentFirst
  BY <1>1, <1>3 DEF Init, SentFirst, Untouched
<1>5. OnePlace
  <2>1. \A i \in DOMAIN queue : queue[i] \notin Actions
    BY ConstantsOK DEF Init
  <2>2. \A i, j \in DOMAIN todo : todo[i] = todo[j] => i = j
    BY DEF Init
  <2> QED
    BY <1>3, <2>1, <2>2 DEF OnePlace
<1>6. OneRow /\ OneVerdict
  BY <1>1 DEF Init, OneRow, OneVerdict, Judging, NoReport
<1>7. Left
  BY ConstantsOK DEF Init, Left
<1>8. Saving
  BY DEF Init, Saving
<1> QED
  BY <1>2, <1>4, <1>5, <1>6, <1>7, <1>8, TypeInit, EvidenceInit DEF LInv

LEMMA LStep ==
    ASSUME LInv, Settings, [Next]_vars PROVE LInv'
<1>1. TypeOK' /\ Saving' /\ Evidence'
  BY TypeStep, SavingStep, EvidenceStep DEF LInv
<1> QED
  BY <1>1, OneSessionStep, SentFirstStep, OnePlaceStep, OneRowStep, OneVerdictStep,
     LeftStep DEF LInv

-----------------------------------------------------------------------------
(* The step simulation: scheduling is a request, the end of process() is     *)
(* the processing, the flush of a session concludes, all else is invisible.  *)

\* An action that has left some trace was requested.
LEMMA TouchedRequested ==
    ASSUME LInv, NEW a \in Actions, ~Untouched(a)
    PROVE  srv[a] # "NONE"
BY DEF LInv, SentFirst, Sent, OneSession

LEMMA ProcessSimulation ==
    ASSUME LInv, NEW a \in Actions, pumpMsg = a, ProcessSucceeds \/ ProcessFails
    PROVE  Lifecycle!Next
<1>1. pumpPc = "begun" /\ Handling(a)
  BY DEF ProcessSucceeds, ProcessFails, Handling
<1>2. srv' = srv
  BY DEF ProcessSucceeds, ProcessFails, serverVars
<1>3. \/ succeeded' = [succeeded EXCEPT ![a] = @ + 1] /\ failed' = failed
      \/ failed' = [failed EXCEPT ![a] = @ + 1] /\ succeeded' = succeeded
  BY DEF ProcessSucceeds, ProcessFails, Increment
<1>4. Runs(a) = 0
  BY <1>1 DEF LInv, OnePlace
<1>5. Undecided(a)
  BY <1>4, Verdicts
<1>6. srv[a] # "NONE"
  BY <1>1, TouchedRequested DEF Untouched
<1>7. ShownStatus(a) = "requested"
  BY <1>5, <1>6 DEF ShownStatus, Undecided
<1>8. \A b \in Actions : succeeded[b] \in Nat /\ failed[b] \in Nat
  BY DEF LInv, TypeOK
<1>9. [b \in Actions |-> succeeded[b] + failed[b]]'
        = [[b \in Actions |-> succeeded[b] + failed[b]] EXCEPT ![a] = 1]
  <2>1. CASE succeeded' = [succeeded EXCEPT ![a] = @ + 1] /\ failed' = failed
    <3>1. \A b \in Actions : succeeded'[b] + failed'[b] =
                               IF b = a THEN 1 ELSE succeeded[b] + failed[b]
      BY <1>4, <1>8, <2>1 DEF LInv, TypeOK, Runs
    <3> QED
      BY <3>1
  <2>2. CASE failed' = [failed EXCEPT ![a] = @ + 1] /\ succeeded' = succeeded
    <3>1. \A b \in Actions : succeeded'[b] + failed'[b] =
                               IF b = a THEN 1 ELSE succeeded[b] + failed[b]
      BY <1>4, <1>8, <2>2 DEF LInv, TypeOK, Runs
    <3> QED
      BY <3>1
  <2> QED
    BY <1>3, <2>1, <2>2
<1>10. [b \in Actions |-> ShownStatus(b)]' = [b \in Actions |-> ShownStatus(b)]
  BY <1>2 DEF ShownStatus
<1>11. Lifecycle!Process(a)
  BY <1>4, <1>7, <1>9, <1>10 DEF Lifecycle!Process, Runs
<1> QED
  BY <1>11 DEF Lifecycle!Next

LEMMA FlushSimulation ==
    ASSUME LInv, NEW s \in Slots, Flush(s) PROVE Lifecycle!Conclude
<1> USE DEF LInv, serverVars, heartbeatVars, pumpVars, deployVars, history, faultVars
<1>1. /\ sessPc[s] = "responded" /\ srv' = Written(s, Pending(s))
      /\ succeeded' = succeeded /\ failed' = failed
  BY DEF Flush
<1>2. \A a \in Actions : srv'[a] = IF upd[s][a] # NoReport THEN upd[s][a] ELSE srv[a]
  BY <1>1 DEF Written, Pending
<1> DEFINE S == {a \in Actions : srv[a] \notin Verdict /\ srv'[a] \in Verdict}
           v == [a \in S |-> srv'[a]]
<1>3. \A a \in Actions : upd[s][a] # NoReport => srv[a] # "NONE"
  BY TouchedRequested DEF Untouched
<1>4. ASSUME NEW a \in S
      PROVE  ShownStatus(a) = "requested" /\ succeeded[a] + failed[a] = 1
  <2>1. upd[s][a] \in Verdict
    BY <1>2
  <2>2. srv[a] # "NONE"
    BY <1>3, <2>1 DEF Verdict, NoReport
  <2>3. Justified(a, upd[s][a])
    BY DEF Evidence
  <2>4. Runs(a) > 0 /\ Runs(a) \in {0, 1}
    BY <2>1, <2>3, JudgedHasRun DEF OnePlace
  <2> QED
    BY <2>2, <2>4 DEF ShownStatus, Runs
<1>5. ASSUME NEW a \in Actions
      PROVE  ShownStatus(a)' = IF a \in S THEN srv'[a] ELSE ShownStatus(a)
  <2>1. CASE a \in S
    BY <2>1 DEF ShownStatus, Verdict
  <2>2. CASE a \notin S /\ srv[a] \in Verdict
    BY <1>2, <2>2 DEF ShownStatus, OneVerdict
  <2>3. CASE a \notin S /\ srv[a] \notin Verdict
    <3>1. srv'[a] \notin Verdict
      BY <2>3
    <3>2. srv'[a] = "NONE" <=> srv[a] = "NONE"
      BY <1>2, <1>3 DEF NoReport
    <3> QED
      BY <2>3, <3>1, <3>2 DEF ShownStatus
  <2> QED
    BY <2>1, <2>2, <2>3
<1>6. S \in SUBSET Lifecycle!Processed /\ v \in [S -> Lifecycle!Verdict]
  BY <1>4 DEF Lifecycle!Processed, Lifecycle!Verdict, Verdict
<1>7. [a \in Actions |-> ShownStatus(a)]'
        = [a \in Actions |-> IF a \in S THEN v[a] ELSE [b \in Actions |-> ShownStatus(b)][a]]
  BY <1>5
<1>8. [a \in Actions |-> succeeded[a] + failed[a]]' = [a \in Actions |-> succeeded[a] + failed[a]]
  BY <1>1
<1> HIDE DEF S, v
<1> QED
  BY <1>6, <1>7, <1>8 DEF Lifecycle!Conclude

LEMMA Simulation ==
    ASSUME LInv, Settings, [Next]_vars
    PROVE  [Lifecycle!Next]_(Lifecycle!vars)
<1> USE DEF serverVars, heartbeatVars, pumpVars, deployVars, history, faultVars
<1>1. ASSUME srv' = srv, succeeded' = succeeded, failed' = failed
      PROVE  UNCHANGED Lifecycle!vars
  BY <1>1 DEF Lifecycle!vars, ShownStatus
<1>2. ASSUME NEW a \in Actions, ScheduleAction(a) PROVE Lifecycle!Next
  <2>1. /\ srv[a] = "NONE" /\ srv' = [srv EXCEPT ![a] = "SCHEDULED"]
        /\ succeeded' = succeeded /\ failed' = failed
    BY <1>2 DEF ScheduleAction
  <2>2. /\ ShownStatus(a) = "new" /\ ShownStatus(a)' = "requested"
        /\ \A b \in Actions : b # a => ShownStatus(b)' = ShownStatus(b)
    BY <2>1 DEF ShownStatus, LInv, TypeOK, Verdict
  <2>3. Lifecycle!Request(a)
    BY <2>1, <2>2 DEF Lifecycle!Request
  <2> QED
    BY <2>3 DEF Lifecycle!Next
<1>3. ASSUME NEW s \in Slots, Flush(s) PROVE Lifecycle!Next
  BY <1>3, FlushSimulation DEF Lifecycle!Next
<1>4. ASSUME NEW s \in Slots, FlushFails(s) PROVE FALSE
  BY <1>4 DEF FlushFails, Fault, Settings
<1>5. ASSUME NEW s \in Slots, Respond(s) \/ RequestFails(s)
      PROVE  UNCHANGED Lifecycle!vars
  BY <1>1, <1>5 DEF Respond, RequestFails
<1>6. CASE HeartbeatThread
  BY <1>1, <1>6 DEF HeartbeatThread, Heartbeat, ConnectionLost, SaveAction, AddMessage,
     EndRequest, ResponseFails
<1>7. CASE ProcessSucceeds \/ ProcessFails
  <2>1. pumpPc = "begun" /\ srv' = srv
    BY <1>7 DEF ProcessSucceeds, ProcessFails
  <2>2. CASE pumpMsg \in Actions
    <3>1. ASSUME NEW a \in Actions, pumpMsg = a PROVE Lifecycle!Next
      BY <1>7, <3>1, ProcessSimulation
    <3> QED
      BY <2>2, <3>1
  <2>3. CASE pumpMsg \notin Actions
    BY <1>1, <1>7, <2>1, <2>3 DEF ProcessSucceeds, ProcessFails, Increment
  <2> QED
    BY <2>2, <2>3
<1>8. CASE TakeMessage \/ TakeFails \/ ReportResult \/ ReportFails
  BY <1>1, <1>8 DEF TakeMessage, TakeFails, ReportResult, ReportFails
<1>9. CASE ContentRetriever
  BY <1>1, <1>9 DEF ContentRetriever, DescriptorDone, ResourceFailed, DeployActionsUpdate
<1>10. CASE Crash \/ UNCHANGED vars
  BY <1>1, <1>10 DEF Crash, vars
<1> QED
  BY <1>2, <1>3, <1>4, <1>5, <1>6, <1>7, <1>8, <1>9, <1>10 DEF Next, Server, PumpThread

\* The protocol implements the life cycle: for any actions and request slots, and
\* however often connections, requests, the client and its database fail, an
\* action is processed at most once, after it was requested, and shown with one
\* verdict that never changes, after it was processed.  It needs a server that
\* finishes with a request before the next heartbeat and flushes what it
\* answered (ServerProtocolHandler), and deployments with different checksums.
THEOREM ImplementsLifecycle ==
    ASSUME Settings
    PROVE  Spec => LifecycleSpec
<1>1. Init => Lifecycle!Init
  BY DEF Init, Lifecycle!Init, ShownStatus, Verdict
<1>2. LInv /\ [Next]_vars => LInv'
  BY LStep
<1>3. LInv /\ [Next]_vars => [Lifecycle!Next]_(Lifecycle!vars)
  BY Simulation
<1> QED
  BY LInit, <1>1, <1>2, <1>3, PTL DEF Spec, LifecycleSpec, Lifecycle!Spec

-----------------------------------------------------------------------------
(* No forgotten result *)

Concluded(a) == \E v \in Verdict : srv[a] = v \/ Carried(a, v)

\* Rows of different actions have different keys.
Keys == /\ \A r \in rows : r.id < nextId
        /\ \A r, q \in rows : r.id = q.id => r.act = q.act

SavedHasRow == hbPc = "saved" => HasRow(Head(todo))

\* What the pump was given has a row, until its verdict has been taken over.
Known ==
    \A a \in Actions :
        InQueue(a) \/ Handling(a) \/ Runs(a) > 0 => HasRow(a) \/ Concluded(a)

\* A row to be deleted is of an action whose verdict has been taken over.
Acked == \A r \in rows : r.id \in acks => Concluded(r.act)

Remembered == Keys /\ SavedHasRow /\ ("server" \notin seen => Known /\ Acked)

LEMMA ConcludedStays ==
    ASSUME LInv, Settings, [Next]_vars, "server" \notin seen',
           NEW a \in Actions, Concluded(a)
    PROVE  Concluded(a)'
<1> USE DEF LInv, serverVars
<1>1. PICK v \in Verdict : srv[a] = v \/ \E s \in Slots : upd[s][a] = v
  BY DEF Concluded, Carried
<1>2. CASE \E b \in Actions : ScheduleAction(b)
  BY <1>1, <1>2 DEF ScheduleAction, Concluded, Carried, TypeOK, Verdict
<1>3. ASSUME NEW s \in Slots, Respond(s) PROVE Concluded(a)'
  <2>1. srv' = srv /\ sessPc[s] = "open" /\ upd' = [upd EXCEPT ![s] = Updates(s)]
    BY <1>3 DEF Respond
  <2>2. CASE srv[a] = v
    BY <1>1, <2>1, <2>2 DEF Concluded
  <2>3. ASSUME NEW t \in Slots, upd[t][a] = v, srv[a] # v PROVE Concluded(a)'
    <3>1. a \notin Selected
      BY <2>1, <2>3, SelectedUntouched DEF Untouched, Verdict, NoReport
    <3>2. upd'[t][a] = v
      BY <2>1, <2>3, <3>1 DEF Updates, TypeOK
    <3> QED
      BY <3>2 DEF Concluded, Carried
  <2> QED
    BY <1>1, <2>2, <2>3
<1>4. ASSUME NEW s \in Slots, Flush(s) PROVE Concluded(a)'
  <2>1. sessPc[s] = "responded" /\ srv' = Written(s, Pending(s))
    BY <1>4 DEF Flush
  <2>2. srv'[a] = IF upd[s][a] # NoReport THEN upd[s][a] ELSE srv[a]
    BY <2>1 DEF Written, Pending
  <2>3. CASE srv[a] = v
    BY <2>2, <2>3 DEF Concluded, OneVerdict
  <2>4. ASSUME NEW t \in Slots, upd[t][a] = v PROVE Concluded(a)'
    <3>1. t = s
      BY <2>1, <2>4 DEF OneSession, NoReport, Verdict
    <3> QED
      BY <2>2, <2>4, <3>1 DEF Concluded, NoReport, Verdict
  <2> QED
    BY <1>1, <2>3, <2>4
<1>5. ASSUME NEW s \in Slots, Heartbeat(s) PROVE Concluded(a)'
  <2>1. srv' = srv /\ sessPc[s] = "free" /\ \E f \in Reports : upd' = [upd EXCEPT ![s] = f]
    BY <1>5 DEF Heartbeat
  <2>2. \A t \in Slots : upd[t][a] = v => upd'[t][a] = v
    BY <2>1 DEF OneSession, TypeOK, NoReport, Verdict
  <2> QED
    BY <1>1, <2>1, <2>2 DEF Concluded, Carried
<1>6. ASSUME NEW s \in Slots, RequestFails(s) PROVE FALSE
  BY <1>6 DEF RequestFails, Fault
<1>7. CASE UNCHANGED <<srv, sessPc, upd>>
  BY <1>7 DEF Concluded, Carried
<1> QED
  BY <1>2, <1>3, <1>4, <1>5, <1>6, <1>7, ServerSteps

\* But for what the heartbeat thread saves and deletes, rows stay.
LEMMA RowsStay ==
    ASSUME TypeOK, [Next]_vars, ~SaveAction, ~EndRequest
    PROVE  /\ nextId' = nextId
           /\ \A r \in rows' : \E q \in rows : q.id = r.id /\ q.act = r.act
           /\ \A a : HasRow(a) => HasRow(a)'
<1> USE DEF serverVars, heartbeatVars, pumpVars, deployVars, history, faultVars
<1>1. nextId' = nextId
  BY DEF Next, Server, HeartbeatThread, PumpThread, ContentRetriever, vars,
     ScheduleAction, Respond, Flush, FlushFails, RequestFails, Heartbeat, ConnectionLost,
     AddMessage, ResponseFails, TakeMessage, TakeFails, ProcessSucceeds, ProcessFails,
     ReportResult, ReportFails, DescriptorDone, ResourceFailed, DeployActionsUpdate, Crash
<1>2. rows' = rows \/ \E S, st : rows' = WithStatus(S, st)
  BY DEF Next, Server, HeartbeatThread, PumpThread, ContentRetriever, vars,
     ScheduleAction, Respond, Flush, FlushFails, RequestFails, Heartbeat, ConnectionLost,
     AddMessage, ResponseFails, TakeMessage, TakeFails, ProcessSucceeds, ProcessFails,
     ReportResult, ReportFails, DescriptorDone, ResourceFailed, DeployActionsUpdate, Crash
<1>3. CASE rows' = rows
  BY <1>1, <1>3 DEF HasRow
<1>4. ASSUME NEW S, NEW st, rows' = WithStatus(S, st)
      PROVE  /\ \A r \in rows' : \E q \in rows : q.id = r.id /\ q.act = r.act
             /\ \A a : HasRow(a) => HasRow(a)'
  <2>1. \A r \in rows' : \E q \in rows : q.id = r.id /\ q.act = r.act
    <3>1. rows \subseteq Row
      BY DEF TypeOK
    <3>2. \A r \in rows' : \E q \in rows :
            r = IF q.act \in S THEN [id |-> q.id, act |-> q.act, st |-> st] ELSE q
      BY <1>4, <3>1, RowChanged
    <3>3. ASSUME NEW r \in rows' PROVE \E q \in rows : q.id = r.id /\ q.act = r.act
      <4>1. PICK q \in rows :
              r = IF q.act \in S THEN [id |-> q.id, act |-> q.act, st |-> st] ELSE q
        BY <3>2
      <4> QED
        BY <4>1
    <3> QED
      BY <3>3
  <2>2. ASSUME NEW q \in rows PROVE \E r \in rows' : r.act = q.act
    <3>1. (IF q.act \in S THEN [q EXCEPT !.st = st] ELSE q) \in rows'
      BY <1>4 DEF WithStatus
    <3>2. q \in Row
      BY DEF TypeOK
    <3> QED
      BY <3>1, <3>2 DEF Row
  <2> QED
    BY <2>1, <2>2 DEF HasRow
<1> QED
  BY <1>1, <1>2, <1>3, <1>4

LEMMA KeysStep ==
    ASSUME TypeOK, Saving, Keys, SavedHasRow, [Next]_vars
    PROVE  Keys' /\ SavedHasRow'
<1> USE DEF serverVars, heartbeatVars, pumpVars, deployVars, history, faultVars
<1>1. nextId \in Nat /\ \A r \in rows : r.id \in Nat
  BY DEF TypeOK, Row
<1>2. CASE SaveAction
  <2> DEFINE new == [id |-> nextId, act |-> Head(todo), st |-> "SCHEDULED"]
  <2>1. /\ rows' = Kept \cup {new} /\ Kept \subseteq rows
        /\ nextId' = nextId + 1 /\ todo' = todo
    BY <1>2 DEF SaveAction, Kept
  <2>2. new.id = nextId /\ new.act = Head(todo)
    OBVIOUS
  <2> HIDE DEF new
  <2>3. \A r \in rows : r.id # nextId
    BY <1>1 DEF Keys
  <2>4. Keys'
    BY <1>1, <2>1, <2>2, <2>3 DEF Keys
  <2>5. SavedHasRow'
    BY <2>1, <2>2 DEF SavedHasRow, HasRow
  <2> QED
    BY <2>4, <2>5
<1>3. CASE EndRequest
  BY <1>3 DEF EndRequest, Kept, Keys, SavedHasRow
<1>4. CASE ~SaveAction /\ ~EndRequest
  <2>1. Keys'
    BY <1>1, <1>4, RowsStay DEF Keys
  <2>2. hbPc' = "saved" => hbPc = "saved" /\ todo' = todo
    BY <1>4 DEF Next, Server, HeartbeatThread, PumpThread, ContentRetriever, vars,
     ScheduleAction, Respond, Flush, FlushFails, RequestFails, Heartbeat, ConnectionLost,
     AddMessage, ResponseFails, TakeMessage, TakeFails, ProcessSucceeds, ProcessFails,
     ReportResult, ReportFails, DescriptorDone, ResourceFailed, DeployActionsUpdate, Crash
  <2>3. SavedHasRow'
    BY <1>4, <2>2, RowsStay DEF SavedHasRow
  <2> QED
    BY <2>1, <2>3
<1> QED
  BY <1>2, <1>3, <1>4

LEMMA AckedStep ==
    ASSUME LInv, Settings, Remembered, [Next]_vars, "server" \notin seen'
    PROVE  Acked'
<1> USE DEF serverVars, heartbeatVars, pumpVars, deployVars, history, faultVars
<1>1. Acked /\ \A r \in rows : r.act \in Actions
  BY SeenGrows DEF Remembered, LInv, TypeOK, Row
<1>2. CASE acks' = {}
  BY <1>2 DEF Acked
<1>3. ASSUME NEW s \in Slots, Heartbeat(s) PROVE Acked'
  <2>1. /\ rows' = rows /\ acks' = {r.id : r \in {x \in rows : x.st = "OK"}}
    BY <1>3 DEF Heartbeat
  <2>2. PICK f \in Reports : upd' = [upd EXCEPT ![s] = f]
    BY <1>3 DEF Heartbeat
  <2> SUFFICES ASSUME NEW r \in rows, r.id \in acks' PROVE Concluded(r.act)'
    BY <2>1 DEF Acked
  <2>3. PICK q \in rows : q.id = r.id /\ q.st = "OK"
    BY <2>1
  <2>4. q = r
    BY <2>3 DEF Remembered, Keys, LInv, OneRow
  <2>5. Reported(r.act) = {"OK"}
    BY <2>3, <2>4 DEF Reported, RowsOf, LInv, OneRow
  <2>6. f[r.act] = "OK"
    BY <1>1, <2>5 DEF Reports
  <2>7. upd'[s][r.act] = "OK"
    BY <2>2, <2>6 DEF LInv, TypeOK
  <2> QED
    BY <2>7 DEF Concluded, Carried, Verdict
<1>4. CASE acks' = acks
  <2>1. (~SaveAction /\ ~EndRequest) \/ acks' = {}
    BY DEF SaveAction, EndRequest
  <2> SUFFICES ASSUME NEW r \in rows', r.id \in acks PROVE Concluded(r.act)'
    BY <1>4 DEF Acked
  <2>2. PICK q \in rows : q.id = r.id /\ q.act = r.act
    BY <1>4, <2>1, RowsStay DEF LInv
  <2> QED
    BY <1>1, <2>2, ConcludedStays DEF Acked
<1> QED
  BY <1>2, <1>3, <1>4
     DEF Next, Server, HeartbeatThread, PumpThread, ContentRetriever, vars,
     ScheduleAction, Respond, Flush, FlushFails, RequestFails, ConnectionLost, SaveAction,
     AddMessage, EndRequest, ResponseFails, TakeMessage, TakeFails, ProcessSucceeds,
     ProcessFails, ReportResult, ReportFails, DescriptorDone, ResourceFailed,
     DeployActionsUpdate, Crash

\* An action that has a row or a verdict has one after a step.
LEMMA KeptOrConcluded ==
    ASSUME LInv, Settings, Remembered, [Next]_vars, "server" \notin seen',
           NEW a \in Actions, HasRow(a) \/ Concluded(a)
    PROVE  (HasRow(a) \/ Concluded(a))'
<1>1. CASE Concluded(a)
  BY <1>1, ConcludedStays
<1>2. ASSUME NEW r \in rows, r.act = a, SaveAction \/ EndRequest
      PROVE  (HasRow(a) \/ Concluded(a))'
  <2>1. Kept \subseteq rows'
    BY <1>2 DEF SaveAction, EndRequest
  <2>2. CASE r.id \in acks
    BY <1>1, <1>2, <2>2, SeenGrows DEF Remembered, Acked
  <2>3. CASE r.id \notin acks
    BY <1>2, <2>1, <2>3 DEF Kept, HasRow
  <2> QED
    BY <2>2, <2>3
<1>3. CASE HasRow(a) /\ ~SaveAction /\ ~EndRequest
  BY <1>3, RowsStay DEF LInv
<1> QED
  BY <1>1, <1>2, <1>3 DEF HasRow

\* The pump gets what the heartbeat thread has saved, and processes what it got.
LEMMA KnownStep ==
    ASSUME LInv, Settings, Remembered, [Next]_vars, "server" \notin seen'
    PROVE  Known'
<1> USE DEF serverVars, heartbeatVars, pumpVars, deployVars, history, faultVars
<1> SUFFICES ASSUME NEW a \in Actions,
                    InQueue(a)' \/ Handling(a)' \/ Runs(a)' > 0
             PROVE  (HasRow(a) \/ Concluded(a))'
  BY DEF Known
<1>1. Known
  BY SeenGrows DEF Remembered
<1>2. /\ queue \in Seq(Messages) /\ pumpMsg \in Messages
      /\ succeeded \in [Actions -> Nat] /\ failed \in [Actions -> Nat]
  BY DEF LInv, TypeOK
<1>3. CASE AddMessage
  <2>1. /\ hbPc = "saved" /\ queue' = Append(queue, Head(todo))
        /\ pumpPc' = pumpPc /\ pumpMsg' = pumpMsg
        /\ succeeded' = succeeded /\ failed' = failed
    BY <1>3 DEF AddMessage
  <2>2. Head(todo) \in Messages
    BY <2>1 DEF LInv, Saving, TypeOK, Messages
  <2>3. \A i \in DOMAIN queue' : queue'[i] = Head(todo) \/ (i \in DOMAIN queue /\ queue'[i] = queue[i])
    BY <1>2, <2>1, <2>2, AppendPlaces
  <2>4. InQueue(a) \/ Handling(a) \/ Runs(a) > 0 \/ a = Head(todo)
    BY <2>1, <2>3 DEF InQueue, Handling, Runs
  <2>5. a = Head(todo) => HasRow(a)
    BY <2>1 DEF Remembered, SavedHasRow
  <2> QED
    BY <1>1, <2>4, <2>5, KeptOrConcluded DEF Known
<1>4. CASE TakeMessage \/ TakeFails
  <2>1. /\ queue # << >> /\ queue' = Tail(queue)
        /\ succeeded' = succeeded /\ failed' = failed
        /\ (pumpPc' = pumpPc /\ pumpMsg' = pumpMsg) \/ pumpMsg' = Head(queue)
    BY <1>4 DEF TakeMessage, TakeFails
  <2>2. InQueue(a) \/ Handling(a) \/ Runs(a) > 0
    BY <1>2, <2>1, TailPlaces DEF InQueue, Handling, Runs
  <2> QED
    BY <1>1, <2>2, KeptOrConcluded DEF Known
<1>5. CASE ProcessSucceeds \/ ProcessFails
  <2>1. queue' = queue /\ pumpPc = "begun" /\ pumpMsg' = pumpMsg
    BY <1>5 DEF ProcessSucceeds, ProcessFails
  <2>2. Runs(a)' > 0 => Runs(a) > 0 \/ a = pumpMsg
    BY <1>2, <1>5 DEF ProcessSucceeds, ProcessFails, Increment, Runs
  <2>3. InQueue(a) \/ Handling(a) \/ Runs(a) > 0
    BY <2>1, <2>2 DEF InQueue, Handling
  <2> QED
    BY <1>1, <2>3, KeptOrConcluded DEF Known
<1>6. CASE Crash
  <2>1. /\ queue' = <<Continuation, StartPlayer>> /\ pumpPc' = "idle"
        /\ succeeded' = succeeded /\ failed' = failed
    BY <1>6 DEF Crash
  <2>2. Runs(a) > 0
    BY <2>1, ConstantsOK DEF InQueue, Handling, Runs
  <2> QED
    BY <1>1, <2>2, KeptOrConcluded DEF Known
<1>7. CASE /\ queue' = queue /\ pumpMsg' = pumpMsg /\ (pumpPc' = pumpPc \/ pumpPc' = "idle")
           /\ succeeded' = succeeded /\ failed' = failed
  BY <1>1, <1>7, KeptOrConcluded DEF Known, InQueue, Handling, Runs
<1> QED
  BY <1>3, <1>4, <1>5, <1>6, <1>7
     DEF Next, Server, HeartbeatThread, PumpThread, ContentRetriever, vars,
     ScheduleAction, Respond, Flush, FlushFails, RequestFails, Heartbeat, ConnectionLost,
     SaveAction, EndRequest, ResponseFails, ReportResult, ReportFails, DescriptorDone,
     ResourceFailed, DeployActionsUpdate

\* A row is deleted only when the console has its result or is about to write
\* it, for any actions and any failures but those of the server.
THEOREM NothingForgotten ==
    ASSUME Settings
    PROVE  Spec => []NoForgottenResult
<1>1. Init => Remembered
  BY ConstantsOK DEF Init, Remembered, Keys, SavedHasRow, Known, Acked, InQueue, Handling,
     Runs
<1>2. LInv /\ Remembered /\ [Next]_vars => LInv' /\ Remembered'
  BY LStep, KeysStep, AckedStep, KnownStep DEF Remembered, LInv
<1>3. LInv /\ Remembered => NoForgottenResult
  BY DEF LInv, TypeOK, Remembered, Known, Concluded, NoForgottenResult, Runs
<1> QED
  BY LInit, <1>1, <1>2, <1>3, PTL DEF Spec
=============================================================================
