---------------------- MODULE InstallationHealth_proofs ----------------------
(***************************************************************************)
(* The health job marks nothing as down that was heard of, for any number  *)
(* of installations and any times: the runs look at one.                   *)
(***************************************************************************)
EXTENDS InstallationHealth, TLAPS

LEMMA PreparedType ==
    ASSUME NEW i, NEW st \in Status
    PROVE  Prepared(i, st) \in Request
<1>1. (latest[i] # NoRow /\ latest[i].status = st) \in BOOLEAN
  OBVIOUS
<1>2. 0 \in 0..MaxDelay
  BY ConstantsOK
<1> QED
  BY <1>1, <1>2, Zenon DEF Prepared, Request

LEMMA WriteType ==
    ASSUME TypeOK, NEW i \in Installations, NEW w \in Request, Write(i, w)
    PROVE  /\ status' \in [Installations -> Status]
           /\ latest' \in [Installations -> Row \cup {NoRow}]
<1>1. [age |-> w.age, status |-> w.status] \in Row
  BY ConstantsOK DEF Request, Row, Ages
<1>2. w.status \in Status
  BY DEF Request
<1> QED
  BY <1>1, <1>2 DEF Write, TypeOK

\* A step ahead in time leaves ages in their range.
LEMMA OlderType ==
    ASSUME NEW row \in Row
    PROVE  /\ [row EXCEPT !.age = Older(@)] \in Row
           /\ Older(row.age) >= row.age
BY ConstantsOK DEF Row, Ages, Older

LEMMA LaterType ==
    ASSUME NEW w \in Request, w.age < MaxDelay
    PROVE  [w EXCEPT !.age = @ + 1] \in Request
BY ConstantsOK DEF Request

LEMMA TypeInit == Init => TypeOK
<1> SUFFICES ASSUME Init PROVE TypeOK
  OBVIOUS
<1>1. [age |-> 0, status |-> "OK"] \in Row
  BY ConstantsOK DEF Row, Ages, Status
<1> QED
  BY <1>1, ConstantsOK DEF Init, TypeOK, Status

LEMMA TypeStep == TypeOK /\ [Next]_vars => TypeOK'
<1> SUFFICES ASSUME TypeOK, [Next]_vars
             PROVE  TypeOK'
  OBVIOUS
<1>1. ASSUME NEW i \in Installations, Change(i)
      PROVE  TypeOK'
  BY <1>1, ConstantsOK DEF Change, TypeOK, server, job
<1>2. ASSUME NEW i \in Installations, Receive(i)
      PROVE  TypeOK'
  <2>1. Prepared(i, machine[i]) \in Request
    BY PreparedType DEF TypeOK
  <2> QED
    BY <1>2, <2>1 DEF Receive, TypeOK, server, job, bounds
<1>3. ASSUME NEW i \in Installations, Flush(i)
      PROVE  TypeOK'
  <2>1. request[i] \in Request
    BY <1>3 DEF Flush, TypeOK
  <2>2. /\ status' \in [Installations -> Status]
        /\ latest' \in [Installations -> Row \cup {NoRow}]
    BY <1>3, <2>1, WriteType DEF Flush
  <2> QED
    BY <1>3, <2>2 DEF Flush, TypeOK, job, bounds
<1>4. ASSUME NEW i \in Installations, RequestFails(i)
      PROVE  TypeOK'
  BY <1>4, ConstantsOK DEF RequestFails, TypeOK, server, job
<1>5. CASE Select
  BY <1>5, ConstantsOK DEF Select, TypeOK, server, bounds
<1>6. ASSUME NEW i \in Installations, ReadLatest(i)
      PROVE  TypeOK'
  <2>1. mark' \in Request
    BY <1>6, PreparedType DEF ReadLatest, Status
  <2>2. found' \subseteq Installations /\ marking' = {i} /\ i \notin found'
    BY <1>6 DEF ReadLatest, Rest, TypeOK
  <2> QED
    BY <1>6, <2>1, <2>2 DEF ReadLatest, TypeOK, server, bounds
<1>7. ASSUME NEW i \in Installations, MarkDown(i)
      PROVE  TypeOK'
  <2>1. mark \in Request
    BY <1>7 DEF MarkDown, TypeOK
  <2>2. /\ status' \in [Installations -> Status]
        /\ latest' \in [Installations -> Row \cup {NoRow}]
    BY <1>7, <2>1, WriteType DEF MarkDown
  <2> QED
    BY <1>7, <2>2 DEF MarkDown, TypeOK, bounds
<1>8. CASE CleanUp
  BY <1>8 DEF CleanUp, TypeOK, job, bounds
<1>9. CASE Tick
  <2>1. latest' \in [Installations -> Row \cup {NoRow}]
    BY <1>9, OlderType DEF Tick, TypeOK
  <2>2. request' \in [Installations -> Request \cup {NoRequest}]
    BY <1>9, LaterType DEF Tick, TypeOK
  <2>3. IF marking = {} THEN mark' = NoRequest ELSE mark' \in Request
    BY <1>9, LaterType DEF Tick, TypeOK
  <2>4. gap' \in 0..MaxGap
    BY <1>9, ConstantsOK DEF Tick, TypeOK
  <2> QED
    BY <1>9, <2>1, <2>2, <2>3, <2>4 DEF Tick, TypeOK, bounds
<1>10. CASE UNCHANGED vars
  BY <1>10 DEF vars, TypeOK, server, job, bounds
<1> QED
  BY <1>1, <1>2, <1>3, <1>4, <1>5, <1>6, <1>7, <1>8, <1>9, <1>10 DEF Next, Job

\* Every variable keeps its type, and the job marks one installation at a time.
THEOREM TypeCorrect == Spec => []TypeOK
BY TypeInit, TypeStep, PTL DEF Spec

-----------------------------------------------------------------------------
(* What the job has selected is still silent, or has been heard of since.  *)

StillSilent ==
    \A i \in found \cup marking :
        i \notin reported => latest[i] = NoRow \/ latest[i].age > Inactive

LEMMA SilentInitially == Init => StillSilent
  BY DEF Init, StillSilent

LEMMA SilentStep == TypeOK /\ StillSilent /\ [Next]_vars => StillSilent'
<1> SUFFICES ASSUME TypeOK, StillSilent, [Next]_vars
             PROVE  StillSilent'
  OBVIOUS
<1>1. ASSUME NEW i \in Installations, Change(i) \/ Receive(i) \/ RequestFails(i)
      PROVE  StillSilent'
  BY <1>1 DEF Change, Receive, RequestFails, StillSilent, server, job
<1>2. ASSUME NEW i \in Installations, Flush(i)
      PROVE  StillSilent'
  <2>1. reported' = reported \cup {i} /\ UNCHANGED <<found, marking>>
    BY <1>2 DEF Flush, job
  <2>2. \A k \in Installations \ {i} : latest'[k] = latest[k]
    BY <1>2 DEF Flush, Write, TypeOK
  <2>3. found \cup marking \subseteq Installations
    BY DEF TypeOK
  <2> QED
    BY <2>1, <2>2, <2>3 DEF StillSilent
<1>3. CASE Select
  BY <1>3 DEF Select, Silent, StillSilent, server
<1>4. ASSUME NEW i \in Installations, ReadLatest(i)
      PROVE  StillSilent'
  BY <1>4 DEF ReadLatest, Rest, StillSilent, server
<1>5. ASSUME NEW i \in Installations, MarkDown(i)
      PROVE  StillSilent'
  <2>1. i \notin found /\ found \subseteq Installations
    BY <1>5 DEF MarkDown, TypeOK
  <2>2. \A k \in Installations \ {i} : latest'[k] = latest[k]
    BY <1>5 DEF MarkDown, Write, TypeOK
  <2> QED
    BY <1>5, <2>1, <2>2 DEF MarkDown, StillSilent
<1>6. CASE CleanUp
  <2>1. \A k \in Installations : latest'[k] \in {latest[k], NoRow}
    BY <1>6 DEF CleanUp
  <2>2. found \cup marking \subseteq Installations
    BY DEF TypeOK
  <2> QED
    BY <1>6, <2>1, <2>2 DEF CleanUp, StillSilent, job
<1>7. CASE Tick
  <2> SUFFICES ASSUME NEW i \in found \cup marking, i \notin reported,
                      latest'[i] # NoRow
               PROVE  latest'[i].age > Inactive
    BY <1>7 DEF Tick, StillSilent
  <2>1. i \in Installations
    BY DEF TypeOK
  <2>2. latest[i] \in Row /\ latest[i].age > Inactive
    BY <1>7, <2>1 DEF Tick, TypeOK, StillSilent
  <2>3. latest'[i].age = Older(latest[i].age)
    BY <1>7, <2>1, <2>2 DEF Tick, Row
  <2>4. latest'[i].age >= latest[i].age
    BY <2>2, <2>3, OlderType
  <2>5. latest[i].age \in Nat /\ latest'[i].age \in Nat
    BY <2>2, <2>3, ConstantsOK DEF Row, Ages, Older
  <2> QED
    BY <2>2, <2>4, <2>5, ConstantsOK
<1>8. CASE UNCHANGED vars
  BY <1>8 DEF vars, StillSilent, server, job
<1> QED
  BY <1>1, <1>2, <1>3, <1>4, <1>5, <1>6, <1>7, <1>8 DEF Next, Job

\* However long the list of the job is, and whatever happens while it goes
\* through it, it marks nothing as down that was heard of in the last minutes
\* before it was selected and not since (updateInstallationStatuses).
THEOREM MarkedCorrect == Spec => MarkedForSilence
<1>1. StillSilent => \A i \in Installations :
          marking = {i} /\ marking' = {} /\ i \notin reported =>
              latest[i] = NoRow \/ latest[i].age > Inactive
  BY DEF StillSilent
<1> QED
  BY TypeInit, TypeStep, SilentInitially, SilentStep, <1>1, PTL
     DEF Spec, MarkedForSilence
=============================================================================
