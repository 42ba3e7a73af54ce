---------------------- MODULE ContentRetrieval_proofs ----------------------
(***************************************************************************)
(* For any deployments, resources, handlers and failures: each row has one *)
(* handler, and what is ready stays ready and has its files, up to a round *)
(* of the timing handler that comes too late; the player sees the steps of *)
(* ContentDelivery, and the results of deploy actions stand.               *)
(***************************************************************************)
EXTENDS ContentRetrieval, SequenceTheorems, TLAPS

\* What a handler of the pool downloads: a descriptor, or a resource that is
\* entered in the table.
DescriptorAt(h) == job[h].d \in Deployments /\ job[h].k = job[h].d

RowAt(h) ==
    /\ job[h].d \in Deployments
    /\ job[h].k \in Resources
    /\ RowOf(h) \in res

JobsFit ==
    \A h \in Handlers :
        /\ pc[h] = "free" => job[h] = NoJob
        /\ pc[h] = "queued" => DescriptorAt(h) \/ RowAt(h)
        /\ pc[h] = "fetch" => DescriptorAt(h)
        /\ pc[h] \in {"lookup", "create", "copy", "check"} => RowAt(h)

\* A handler that copies has come as far in the resource as in the file.
CopiesFit ==
    \A h \in Handlers :
        pc[h] = "copy" => job[h].start <= pos[h] /\ pos[h] - job[h].start <= src[h]

\* Rows are entered by the transaction that enters the descriptor.
RowsLoaded == \A r \in res : dep[r[1]] = "loaded"

\* What a round is going to retry has no handler.
PlannedIsIdle ==
    ~late /\ round = "planned" =>
        \A h \in Handlers : pc[h] # "free" => RowOf(h) \notin tRows

CInv == /\ TypeOK /\ JobsFit /\ CopiesFit /\ RowsLoaded
        /\ PlannedIsIdle /\ OneHandlerPerRow

LEMMA InitFits == Init => CInv
<1> SUFFICES ASSUME Init PROVE CInv
  OBVIOUS
<1>1. NoJob \in Jobs
  BY ConstantsOK DEF NoJob, Jobs
<1>2. << >> \in Seq(Seq(0..Blocks))
  OBVIOUS
<1>3. TypeOK
  <2>1. disk \in [Rows -> Seq(Seq(0..Blocks))] /\ job \in [Handlers -> Jobs]
    BY <1>1, <1>2 DEF Init
  <2>2. /\ depRetries \in [Deployments -> 0..RetryLimit]
        /\ retries \in [Rows -> 0..RetryLimit]
        /\ filename \in [Rows -> 0..MaxFiles]
        /\ file \in [Handlers -> 0..MaxFiles]
    BY ConstantsOK DEF Init
  <2>3. /\ bytes \in [Rows -> 0..Blocks]
        /\ tBytes \in [Rows -> 0..Blocks]
        /\ src \in [Handlers -> 0..Blocks]
        /\ deploys \in 0..MaxDeploys
        /\ faults \in 0..MaxFaults
    BY ConstantsOK DEF Init
  <2> QED
    BY <2>1, <2>2, <2>3 DEF Init, TypeOK
<1>4. JobsFit /\ CopiesFit /\ RowsLoaded /\ PlannedIsIdle
  BY DEF Init, JobsFit, CopiesFit, RowsLoaded, PlannedIsIdle
<1>5. OneHandlerPerRow
  BY ConstantsOK DEF Init, OneHandlerPerRow, NoJob
<1> QED
  BY <1>3, <1>4, <1>5 DEF CInv

-----------------------------------------------------------------------------
(* The pool *)

\* What addTask leaves: a handler that is new has one of the jobs, another one
\* what it had or, when it ends, nothing.
LEMMA Tasks ==
    ASSUME CInv, NEW S \in SUBSET Jobs, NEW done \in SUBSET Handlers,
           AddTasks(S, done)
    PROVE  /\ pc' \in [Handlers -> {"free", "queued", "fetch", "lookup",
                                    "create", "copy", "check"}]
           /\ job' \in [Handlers -> Jobs]
           /\ \A h \in Handlers :
                \/ pc[h] = "free" /\ pc'[h] = "queued" /\ job'[h] \in S
                \/ pc'[h] = pc[h] /\ job'[h] = job[h]
                \/ h \in done /\ pc'[h] = "free" /\ job'[h] = NoJob
           /\ \A g, h \in Handlers :
                pc[g] = "free" /\ pc[h] = "free"
                    /\ pc'[g] = "queued" /\ pc'[h] = "queued"
                    /\ job'[g] = job'[h] => g = h
<1>1. PICK f \in [S -> Free] :
        /\ \A i, j \in S : f[i] = f[j] => i = j
        /\ pc' = [h \in Handlers |->
                     IF \E j \in S : f[j] = h THEN "queued"
                     ELSE IF h \in done THEN "free" ELSE pc[h]]
        /\ job' = [h \in Handlers |->
                     IF \E j \in S : f[j] = h THEN CHOOSE j \in S : f[j] = h
                     ELSE IF h \in done THEN NoJob ELSE job[h]]
  BY DEF AddTasks
<1>2. NoJob \in Jobs
  BY ConstantsOK DEF NoJob, Jobs
<1>3. ASSUME NEW h \in Handlers, \E j \in S : f[j] = h
      PROVE  /\ pc[h] = "free" /\ pc'[h] = "queued"
             /\ job'[h] \in S /\ f[job'[h]] = h
  <2>1. pc[h] = "free"
    BY <1>3 DEF Free
  <2>2. pc'[h] = "queued" /\ job'[h] = (CHOOSE j \in S : f[j] = h)
    BY <1>1, <1>3
  <2> QED
    BY <1>3, <2>1, <2>2
<1>4. ASSUME NEW h \in Handlers, ~ \E j \in S : f[j] = h
      PROVE  \/ h \notin done /\ pc'[h] = pc[h] /\ job'[h] = job[h]
             \/ h \in done /\ pc'[h] = "free" /\ job'[h] = NoJob
  BY <1>1, <1>4
<1>5. \A h \in Handlers :
        \/ pc[h] = "free" /\ pc'[h] = "queued" /\ job'[h] \in S
        \/ pc'[h] = pc[h] /\ job'[h] = job[h]
        \/ h \in done /\ pc'[h] = "free" /\ job'[h] = NoJob
  BY <1>3, <1>4
<1>6. \A h \in Handlers :
        /\ pc'[h] \in {"free", "queued", "fetch", "lookup", "create", "copy", "check"}
        /\ job'[h] \in Jobs
  BY <1>2, <1>5 DEF CInv, TypeOK
<1>7. ASSUME NEW h \in Handlers, pc[h] = "free", pc'[h] = "queued"
      PROVE  f[job'[h]] = h
  BY <1>3, <1>4, <1>7
<1>8. \A g, h \in Handlers :
        pc[g] = "free" /\ pc[h] = "free"
            /\ pc'[g] = "queued" /\ pc'[h] = "queued"
            /\ job'[g] = job'[h] => g = h
  BY <1>7, Zenon
<1>9. /\ pc' \in [Handlers -> {"free", "queued", "fetch", "lookup",
                               "create", "copy", "check"}]
      /\ job' \in [Handlers -> Jobs]
  BY <1>1, <1>6
<1> QED
  BY <1>5, <1>8, <1>9, Zenon

\* A job that is handed to the pool: of a descriptor, or of a row in the table.
Fits(j) ==
    /\ j \in Jobs
    /\ j.d \in Deployments
    /\ \/ j.k = j.d
       \/ j.k \in Resources /\ <<j.d, j.k>> \in res'

LEMMA TasksFit ==
    ASSUME CInv, NEW S, NEW done \in SUBSET Handlers, AddTasks(S, done),
           \A j \in S : Fits(j),
           res \subseteq res', pos' = pos, src' = src
    PROVE  JobsFit' /\ CopiesFit'
<1>1. S \in SUBSET Jobs
  BY DEF Fits
<1>2. \A h \in Handlers :
        \/ pc[h] = "free" /\ pc'[h] = "queued" /\ job'[h] \in S
        \/ pc'[h] = pc[h] /\ job'[h] = job[h]
        \/ h \in done /\ pc'[h] = "free" /\ job'[h] = NoJob
  BY <1>1, Tasks
<1>3. JobsFit'
  BY <1>2 DEF CInv, JobsFit, DescriptorAt, RowAt, RowOf, Fits
<1>4. CopiesFit'
  BY <1>2 DEF CInv, CopiesFit
<1> QED
  BY <1>3, <1>4

\* Handlers stay apart if the new ones get rows that nobody has.
LEMMA TasksApart ==
    ASSUME CInv, ~late, NEW S \in SUBSET Jobs, NEW done \in SUBSET Handlers,
           AddTasks(S, done),
           \A j \in S : j.k \in Resources =>
               \A h \in Handlers : pc[h] # "free" => RowOf(h) # <<j.d, j.k>>,
           \A i, j \in S : i.k \in Resources /\ i.d = j.d /\ i.k = j.k => i = j
    PROVE  OneHandlerPerRow'
<1>1. /\ \A h \in Handlers :
           \/ pc[h] = "free" /\ pc'[h] = "queued" /\ job'[h] \in S
           \/ pc'[h] = pc[h] /\ job'[h] = job[h]
           \/ h \in done /\ pc'[h] = "free" /\ job'[h] = NoJob
      /\ \A g, h \in Handlers :
           pc[g] = "free" /\ pc[h] = "free"
               /\ pc'[g] = "queued" /\ pc'[h] = "queued"
               /\ job'[g] = job'[h] => g = h
  BY Tasks
<1>2. NoJob.k \notin Resources
  BY ConstantsOK DEF NoJob
<1>3. \A h \in Handlers : job[h].k \in Resources => pc[h] # "free"
  BY <1>2 DEF CInv, JobsFit
<1> SUFFICES ASSUME NEW g \in Handlers, NEW h \in Handlers,
                    RowOf(g)' = RowOf(h)', job'[g].k \in Resources
             PROVE  g = h
  BY DEF OneHandlerPerRow
<1>4. job'[g].d = job'[h].d /\ job'[g].k = job'[h].k
  BY DEF RowOf
<1>5. CASE job'[g] \in S /\ pc[g] = "free" /\ job'[h] \in S /\ pc[h] = "free"
  <2>1. job'[g] = job'[h]
    BY <1>4, <1>5
  <2>2. pc'[g] = "queued" /\ pc'[h] = "queued"
    BY <1>1, <1>2, <1>3, <1>4, <1>5
  <2> QED
    BY <1>1, <1>5, <2>1, <2>2
<1>6. CASE job'[g] = job[g] /\ job'[h] = job[h]
  BY <1>6, <1>4 DEF CInv, OneHandlerPerRow, RowOf
<1>7. CASE job'[g] \in S /\ pc[g] = "free" /\ job'[h] = job[h] /\ pc[h] # "free"
  BY <1>7, <1>4 DEF RowOf
<1>8. CASE job'[h] \in S /\ pc[h] = "free" /\ job'[g] = job[g] /\ pc[g] # "free"
  BY <1>8, <1>4 DEF RowOf
<1> QED
  BY <1>1, <1>2, <1>3, <1>4, <1>5, <1>6, <1>7, <1>8

-----------------------------------------------------------------------------
(* The files *)

LEMMA IsSeq ==
    ASSUME NEW S, NEW n \in Nat, NEW g \in [1..n -> S]
    PROVE  g \in Seq(S)
OBVIOUS

\* Writing a block makes a file of blocks.
LEMMA WriteType ==
    ASSUME NEW f \in Seq(0..Blocks), NEW p \in Nat, NEW b \in 0..Blocks
    PROVE  Write(f, p, b) \in Seq(0..Blocks)
<1> DEFINE n == IF Len(f) > p THEN Len(f) ELSE p + 1
<1>1. n \in Nat
  BY LenProperties
<1>2. Len(f) \in Nat /\ f \in [1..Len(f) -> 0..Blocks]
  BY LenProperties
<1>3. Write(f, p, b) \in [1..n -> 0..Blocks]
  BY <1>2, ConstantsOK DEF Write
<1> HIDE DEF n
<1> QED
  BY <1>1, <1>3, IsSeq

LEMMA DiskType ==
    ASSUME NEW s \in Seq(Seq(0..Blocks)), NEW i \in Nat, NEW p \in Nat,
           NEW b \in 0..Blocks
    PROVE  [s EXCEPT ![i] = Write(@, p, b)] \in Seq(Seq(0..Blocks))
<1>1. CASE i \in 1..Len(s)
  <2> DEFINE w == Write(s[i], p, b)
  <2>1. w \in Seq(0..Blocks)
    BY <1>1, WriteType, ElementOfSeq
  <2>2. [s EXCEPT ![i] = Write(@, p, b)] = [s EXCEPT ![i] = w]
    OBVIOUS
  <2> HIDE DEF w
  <2> QED
    BY <1>1, <2>1, <2>2, ExceptSeq
<1>2. CASE i \notin 1..Len(s)
  BY <1>2, LenProperties
<1> QED
  BY <1>1, <1>2

-----------------------------------------------------------------------------
(* Handlers *)

\* A handler that ends, or goes on with its job, and one row at most changes.
LEMMA SameJobs ==
    ASSUME CInv, dep' = dep, res' = res, job' = job, late' = late,
           UNCHANGED <<round, tRows>>, NEW h \in Handlers, NEW p,
           pc[h] # "free", pc' = [pc EXCEPT ![h] = p], p # "free"
    PROVE  RowsLoaded' /\ PlannedIsIdle' /\ OneHandlerPerRow'
<1>1. RowsLoaded' /\ OneHandlerPerRow'
  BY DEF CInv, RowsLoaded, OneHandlerPerRow, RowOf
<1>2. PlannedIsIdle'
  BY DEF CInv, TypeOK, PlannedIsIdle, RowOf
<1> QED
  BY <1>1, <1>2

LEMMA EndFits ==
    ASSUME CInv, dep' = dep, res' = res, late' = late,
           UNCHANGED <<round, tRows>>, NEW h \in Handlers, End(h)
    PROVE  /\ JobsFit' /\ CopiesFit' /\ RowsLoaded' /\ PlannedIsIdle'
           /\ OneHandlerPerRow'
<1> USE DEF CInv, TypeOK, End, NoLongerActive
<1>1. JobsFit' /\ CopiesFit'
  BY DEF JobsFit, CopiesFit, DescriptorAt, RowAt, RowOf
<1>2. RowsLoaded'
  BY DEF RowsLoaded
<1>3. PlannedIsIdle'
  BY DEF PlannedIsIdle, RowOf
<1>4. OneHandlerPerRow'
  BY ConstantsOK DEF OneHandlerPerRow, RowOf, NoJob
<1> QED
  BY <1>1, <1>2, <1>3, <1>4

LEMMA EndType ==
    ASSUME CInv, NEW h \in Handlers, End(h)
    PROVE  /\ pc' \in [Handlers -> {"free", "queued", "fetch", "lookup",
                                    "create", "copy", "check"}]
           /\ job' \in [Handlers -> Jobs]
           /\ file' \in [Handlers -> 0..MaxFiles]
           /\ pos' \in [Handlers -> Nat]
           /\ src' \in [Handlers -> 0..Blocks]
           /\ active' \subseteq Urls
<1>1. NoJob \in Jobs
  BY ConstantsOK DEF NoJob, Jobs
<1> QED
  BY <1>1, ConstantsOK DEF CInv, TypeOK, End, NoLongerActive

LEMMA RowIsRow == ASSUME CInv, NEW h \in Handlers, RowAt(h)
                  PROVE  RowOf(h) \in Rows /\ job[h].start \in 0..Blocks
BY DEF CInv, TypeOK, RowAt, RowOf, Rows, Jobs

LEMMA OpenFits ==
    ASSUME CInv, NEW h \in Handlers, NEW n \in 0..MaxFiles, RowAt(h), Open(h, n)
    PROVE  /\ pc' \in [Handlers -> {"free", "queued", "fetch", "lookup",
                                    "create", "copy", "check"}]
           /\ file' \in [Handlers -> 0..MaxFiles]
           /\ pos' \in [Handlers -> Nat]
           /\ src' \in [Handlers -> 0..Blocks]
           /\ pos'[h] = job[h].start
           /\ pc'[h] = "copy" /\ src'[h] \in 0..Blocks
           /\ \A g \in Handlers \ {h} :
                 pc'[g] = pc[g] /\ pos'[g] = pos[g] /\ src'[g] = src[g]
<1>1. job[h].start \in 0..Blocks
  BY RowIsRow
<1> QED
  BY <1>1, ConstantsOK DEF CInv, TypeOK, Open

LEMMA HandlerFits ==
    ASSUME CInv, NEW h \in Handlers, HandlerStep(h)
    PROVE  CInv'
<1> USE DEF CInv
<1>1. CASE Start(h)
  <2>1. /\ DescriptorAt(h) \/ RowAt(h)
        /\ IsDescriptor(h) => ~RowAt(h)
    BY <1>1, ConstantsOK DEF Start, JobsFit, IsDescriptor, RowAt
  <2>2. TypeOK'
    BY <1>1, <2>1 DEF Start, TypeOK, depVars, resVars, timingVars, Urls,
          DescriptorAt, RowAt
  <2>3. JobsFit' /\ CopiesFit'
    BY <1>1, <2>1 DEF Start, TypeOK, JobsFit, CopiesFit, DescriptorAt, RowAt,
          RowOf, IsDescriptor, resVars
  <2>4. RowsLoaded' /\ PlannedIsIdle' /\ OneHandlerPerRow'
    BY <1>1, SameJobs DEF Start, depVars, resVars, timingVars
  <2> QED
    BY <2>2, <2>3, <2>4
<1>2. CASE DescriptorFails(h) \/ CopyFails(h)
  <2>1. TypeOK'
    BY <1>2, EndType DEF DescriptorFails, CopyFails, TypeOK, depVars, resVars, timingVars
  <2>2. /\ JobsFit' /\ CopiesFit' /\ RowsLoaded' /\ PlannedIsIdle'
        /\ OneHandlerPerRow'
    BY <1>2, EndFits DEF DescriptorFails, CopyFails, depVars, resVars, timingVars
  <2> QED
    BY <2>1, <2>2
<1>3. CASE Finish(h)
  <2>1. TypeOK'
    BY <1>3, EndType DEF Finish, TypeOK, depVars, timingVars
  <2>2. /\ JobsFit' /\ CopiesFit' /\ RowsLoaded' /\ PlannedIsIdle'
        /\ OneHandlerPerRow'
    BY <1>3, EndFits DEF Finish, depVars, timingVars
  <2> QED
    BY <2>1, <2>2
<1>4. CASE Lookup(h)
  <2>1. RowAt(h) /\ RowOf(h) \in Rows
    BY <1>4, RowIsRow DEF Lookup, JobsFit
  <2>2. CASE Open(h, filename[RowOf(h)])
    <3>1. filename[RowOf(h)] \in 0..MaxFiles
      BY <2>1 DEF TypeOK
    <3>2. TypeOK'
      BY <1>4, <2>1, <2>2, <3>1, OpenFits
         DEF Lookup, TypeOK, depVars, resVars, timingVars
    <3>3. JobsFit' /\ CopiesFit'
      BY <1>4, <2>1, <2>2, <3>1, OpenFits
         DEF Lookup, JobsFit, CopiesFit, DescriptorAt, RowAt, RowOf, resVars
    <3>4. RowsLoaded' /\ PlannedIsIdle' /\ OneHandlerPerRow'
      BY <1>4, <2>2, SameJobs DEF Lookup, Open, depVars, resVars, timingVars
    <3> QED
      BY <3>2, <3>3, <3>4
  <2>3. CASE pc' = [pc EXCEPT ![h] = "create"] /\ UNCHANGED <<file, pos, src>>
    <3>1. TypeOK'
      BY <1>4, <2>3 DEF Lookup, TypeOK, depVars, resVars, timingVars
    <3>2. JobsFit' /\ CopiesFit'
      BY <1>4, <2>1, <2>3
         DEF Lookup, TypeOK, JobsFit, CopiesFit, DescriptorAt, RowAt, RowOf, resVars
    <3>3. RowsLoaded' /\ PlannedIsIdle' /\ OneHandlerPerRow'
      BY <1>4, <2>3, SameJobs DEF Lookup, depVars, resVars, timingVars
    <3> QED
      BY <3>1, <3>2, <3>3
  <2> QED
    BY <1>4, <2>2, <2>3 DEF Lookup
<1>5. CASE Create(h)
  <2> DEFINE r == RowOf(h)
             n == Len(disk[r]) + 1
  <2>1. RowAt(h) /\ r \in Rows
    BY <1>5, RowIsRow DEF Create, JobsFit
  <2>2. disk[r] \in Seq(Seq(0..Blocks)) /\ << >> \in Seq(0..Blocks)
    BY <2>1 DEF TypeOK
  <2>3. /\ Append(disk[r], << >>) \in Seq(Seq(0..Blocks))
        /\ Len(Append(disk[r], << >>)) = n
        /\ n \in 0..MaxFiles
    BY <1>5, <2>2, AppendProperties, LenProperties, ConstantsOK DEF Create
  <2>4. disk' \in [Rows -> Seq(Seq(0..Blocks))] /\ disk'[r] = Append(disk[r], << >>)
    BY <1>5, <2>1, <2>3 DEF Create, TypeOK
  <2>5. filename' \in [Rows -> 0..MaxFiles] /\ Open(h, n)
    BY <1>5, <2>1, <2>3, <2>4 DEF Create, TypeOK
  <2> HIDE DEF n
  <2>6. TypeOK'
    BY <1>5, <2>1, <2>3, <2>4, <2>5, OpenFits DEF Create, TypeOK, depVars, timingVars
  <2>7. JobsFit' /\ CopiesFit'
    <3>1. /\ pc'[h] = "copy" /\ src'[h] \in 0..Blocks
          /\ pos'[h] = job[h].start /\ job[h].start \in 0..Blocks
          /\ \A g \in Handlers \ {h} :
                pc'[g] = pc[g] /\ pos'[g] = pos[g] /\ src'[g] = src[g]
      BY <2>1, <2>3, <2>5, OpenFits, RowIsRow
    <3>2. job' = job /\ res' = res
      BY <1>5 DEF Create
    <3>3. JobsFit'
      BY <2>1, <3>1, <3>2 DEF JobsFit, DescriptorAt, RowAt, RowOf
    <3>4. CopiesFit'
      BY <3>1, <3>2 DEF CopiesFit
    <3> QED
      BY <3>3, <3>4
  <2>8. RowsLoaded' /\ PlannedIsIdle' /\ OneHandlerPerRow'
    BY <1>5, <2>5, SameJobs DEF Create, Open, depVars, timingVars
  <2> QED
    BY <2>6, <2>7, <2>8
<1>6. CASE CopyBlock(h)
  <2> DEFINE r == RowOf(h)
  <2>1. RowAt(h) /\ r \in Rows /\ job[h].start \in 0..Blocks
    BY <1>6, RowIsRow DEF CopyBlock, JobsFit
  <2>2. /\ pos[h] \in Nat /\ src[h] \in 0..Blocks /\ file[h] \in 0..MaxFiles
        /\ job[h].start <= pos[h] /\ pos[h] - job[h].start <= src[h]
        /\ src[h] < Blocks
    BY <1>6 DEF CopyBlock, TypeOK, CopiesFit
  <2>3. pos' \in [Handlers -> Nat] /\ src' \in [Handlers -> 0..Blocks]
    <3>1. pos[h] + 1 \in Nat /\ src[h] + 1 \in 0..Blocks
      BY <2>2, ConstantsOK
    <3>2. pos' = [pos EXCEPT ![h] = @ + 1] /\ src' = [src EXCEPT ![h] = @ + 1]
      BY <1>6 DEF CopyBlock
    <3> QED
      BY <3>1, <3>2 DEF TypeOK
  <2>4. disk' \in [Rows -> Seq(Seq(0..Blocks))]
    <3>1. src[h] + 1 \in 0..Blocks /\ file[h] \in Nat
      BY <2>2, ConstantsOK
    <3>2. disk[r] \in Seq(Seq(0..Blocks))
      BY <2>1 DEF TypeOK
    <3> DEFINE s == [disk[r] EXCEPT ![file[h]] = Write(@, pos[h], src[h] + 1)]
    <3>3. s \in Seq(Seq(0..Blocks))
      BY <2>2, <3>1, <3>2, DiskType
    <3>4. disk' = [disk EXCEPT ![r] = s]
      BY <1>6 DEF CopyBlock
    <3> HIDE DEF s, r
    <3> QED
      BY <2>1, <3>3, <3>4 DEF TypeOK
  <2>5. bytes' \in [Rows -> 0..Blocks] /\ recent' \subseteq res
    <3>1. pos'[h] - job[h].start \in 0..Blocks
      <4>1. pos'[h] = pos[h] + 1
        BY <1>6 DEF CopyBlock, TypeOK
      <4>2. Blocks \in Nat
        BY ConstantsOK
      <4> QED
        BY <2>1, <2>2, <4>1, <4>2
    <3>2. CASE /\ r \in pending
               /\ bytes' = [bytes EXCEPT ![r] = pos'[h] - job[h].start]
               /\ recent' = recent \cup {r}
      <4> HIDE DEF r
      <4> QED
        BY <2>1, <3>1, <3>2 DEF TypeOK
    <3>3. CASE UNCHANGED <<bytes, recent>>
      BY <3>3 DEF TypeOK
    <3> QED
      BY <1>6, <3>2, <3>3 DEF CopyBlock
  <2>6. TypeOK'
    BY <1>6, <2>3, <2>4, <2>5 DEF CopyBlock, TypeOK, depVars, timingVars
  <2>7. JobsFit'
    BY <1>6 DEF CopyBlock, JobsFit, DescriptorAt, RowAt, RowOf
  <2>8. CopiesFit'
    <3>1. /\ pos'[h] = pos[h] + 1 /\ src'[h] = src[h] + 1
          /\ \A g \in Handlers \ {h} : pos'[g] = pos[g] /\ src'[g] = src[g]
          /\ pc' = pc /\ job' = job
      BY <1>6 DEF CopyBlock, TypeOK
    <3> QED
      BY <2>1, <2>2, <3>1 DEF CopiesFit
  <2>9. RowsLoaded' /\ PlannedIsIdle' /\ OneHandlerPerRow'
    BY <1>6 DEF CopyBlock, depVars, timingVars, RowsLoaded, PlannedIsIdle,
       OneHandlerPerRow, RowOf
  <2> QED
    BY <2>6, <2>7, <2>8, <2>9
<1>7. CASE CopyCompleted(h)
  <2>1. RowAt(h) /\ RowOf(h) \in Rows
    BY <1>7, RowIsRow DEF CopyCompleted, JobsFit
  <2>2. Size(job[h].k) \in 0..Blocks /\ faults' \in 0..MaxFaults
    BY <1>7, ConstantsOK DEF CopyCompleted, Size, Fault, TypeOK
  <2>3. bytes' \in [Rows -> 0..Blocks] /\ recent' \subseteq res
    BY <1>7, <2>1, <2>2 DEF CopyCompleted, TypeOK
  <2>4. TypeOK'
    BY <1>7, <2>2, <2>3 DEF CopyCompleted, TypeOK, depVars, timingVars
  <2>5. JobsFit' /\ CopiesFit'
    BY <1>7, <2>1 DEF CopyCompleted, TypeOK, JobsFit, CopiesFit, DescriptorAt,
       RowAt, RowOf
  <2>6. RowsLoaded' /\ PlannedIsIdle' /\ OneHandlerPerRow'
    BY <1>7, SameJobs DEF CopyCompleted, depVars, timingVars
  <2> QED
    BY <2>4, <2>5, <2>6
<1>8. CASE DescriptorLoads(h)
  <2> DEFINE d == job[h].d
             new == IF dep[d] = "empty"
                    THEN {<<d, k>> : k \in {x \in ResourcesOf[d] : ~Exists(x)}}
                    ELSE {}
             S == {ResourceJob(r, 0) : r \in new}
  <2>1. d \in Deployments /\ job[h].k = d
    BY <1>8 DEF DescriptorLoads, JobsFit, DescriptorAt
  <2>2. new \subseteq Rows /\ \A r \in new : r = <<d, r[2]>> /\ r[2] \in Resources
    BY <2>1, ConstantsOK DEF Rows
  <2>3. /\ dep' = [dep EXCEPT ![d] = "loaded"]
        /\ res' = res \cup new
        /\ pending' = pending \cup new
        /\ AddTasks(S, {h})
        /\ active' = active \ {job[h].k}
        /\ trusted' \in BOOLEAN
    BY <1>8 DEF DescriptorLoads, NoLongerActive
  <2>4. dep[d] # "empty" => new = {}
    OBVIOUS
  <2>5. \A r \in res : r[1] = d => dep[d] = "loaded"
    BY DEF RowsLoaded
  <2> HIDE DEF new
  <2>6. \A j \in S : /\ j \in Jobs /\ j.k \in Resources /\ <<j.d, j.k>> \in new
                    /\ j.start = 0
    BY <2>1, <2>2, ConstantsOK DEF ResourceJob, Jobs, Urls
  <2>7. \A j \in S : Fits(j)
    BY <2>2, <2>3, <2>6 DEF Fits, Rows
  <2>8. S \in SUBSET Jobs
    BY <2>6
  <2>9. JobsFit' /\ CopiesFit'
    BY <1>8, <2>3, <2>7, TasksFit DEF DescriptorLoads
  <2>10. /\ pc' \in [Handlers -> {"free", "queued", "fetch", "lookup",
                                   "create", "copy", "check"}]
         /\ job' \in [Handlers -> Jobs]
         /\ \A g \in Handlers :
               \/ pc[g] = "free" /\ pc'[g] = "queued" /\ job'[g] \in S
               \/ pc'[g] = pc[g] /\ job'[g] = job[g]
               \/ g \in {h} /\ pc'[g] = "free" /\ job'[g] = NoJob
    <3> HIDE DEF S
    <3> QED
      BY <2>3, <2>8, Tasks
  <2>11. \A r \in new : \A g \in Handlers :
            pc[g] # "free" => RowOf(g) # r
    <3> SUFFICES ASSUME NEW r \in new, NEW g \in Handlers,
                        pc[g] # "free", RowOf(g) = r
                 PROVE  FALSE
      OBVIOUS
    <3>1. r = <<d, r[2]>> /\ r[2] \in Resources
      BY <2>2
    <3>2. job[g].k = r[2] /\ job[g].d = d
      BY <3>1, Zenon DEF RowOf
    <3>3. DescriptorAt(g) \/ RowAt(g)
      BY DEF JobsFit, TypeOK
    <3>4. ~DescriptorAt(g)
      BY <3>1, <3>2, <2>1, ConstantsOK DEF DescriptorAt
    <3>5. r \in res
      BY <3>3, <3>4 DEF RowAt
    <3> QED
      BY <2>4, <2>5, <3>1, <3>5
  <2>12. OneHandlerPerRow'
    <3>1. CASE late
      BY <3>1, <1>8 DEF DescriptorLoads, OneHandlerPerRow
    <3>2. CASE ~late
      <4>1. \A i, j \in S : i.d = j.d /\ i.k = j.k => i = j
        BY <2>6, <2>8 DEF ResourceJob, Jobs
      <4> QED
        BY <3>2, <4>1, <2>3, <2>6, <2>8, <2>11, TasksApart
    <3> QED
      BY <3>1, <3>2
  <2>13. RowsLoaded'
    BY <2>1, <2>2, <2>3 DEF RowsLoaded, TypeOK, Rows
  <2>14. PlannedIsIdle'
    <3> SUFFICES ASSUME ~late, round = "planned", NEW g \in Handlers,
                        pc'[g] # "free", RowOf(g)' \in tRows
                 PROVE  FALSE
      BY <1>8 DEF DescriptorLoads, timingVars, PlannedIsIdle
    <3>1. CASE job'[g] = job[g] /\ pc'[g] = pc[g]
      BY <3>1 DEF PlannedIsIdle, RowOf
    <3>2. CASE job'[g] \in S
      <4>1. RowOf(g)' \in new /\ RowOf(g)' \in res
        BY <3>2, <2>6 DEF RowOf, TypeOK
      <4> QED
        BY <4>1, <2>2, <2>4, <2>5
    <3> QED
      BY <3>1, <3>2, <2>10
  <2>15. TypeOK'
    <3>1. dep' \in [Deployments -> {"absent", "empty", "loaded"}]
      BY <2>1, <2>3 DEF TypeOK
    <3>2. res' \subseteq Rows /\ pending' \subseteq res' /\ recent \subseteq res'
          /\ tRows \subseteq res'
      BY <2>2, <2>3 DEF TypeOK
    <3> HIDE DEF S
    <3> QED
      BY <1>8, <2>3, <2>10, <3>1, <3>2 DEF DescriptorLoads, TypeOK, timingVars
  <2> QED
    BY <2>9, <2>12, <2>13, <2>14, <2>15
<1> QED
  BY <1>1, <1>2, <1>3, <1>4, <1>5, <1>6, <1>7, <1>8 DEF HandlerStep

-----------------------------------------------------------------------------
(* The pump, the timing handler and time *)

LEMMA DeployFits ==
    ASSUME CInv, NEW d \in Deployments, DeployMessage(d)
    PROVE  CInv'
<1> USE DEF CInv
<1> DEFINE S == {DescriptorJob(d)}
<1>1. \A j \in S : j \in Jobs /\ j.d = d /\ j.k = d
  BY ConstantsOK DEF DescriptorJob, Jobs, Urls
<1>2. \A j \in S : Fits(j) /\ j.k \notin Resources
  BY <1>1, ConstantsOK DEF Fits
<1>3. AddTasks(S, {})
  BY DEF DeployMessage
<1>4. UNCHANGED <<res, late, round, tRows, pos, src>>
  BY DEF DeployMessage, resVars, timingVars
<1> HIDE DEF S
<1>5. JobsFit' /\ CopiesFit'
  BY <1>2, <1>3, <1>4, TasksFit
<1>6. /\ pc' \in [Handlers -> {"free", "queued", "fetch", "lookup",
                               "create", "copy", "check"}]
      /\ job' \in [Handlers -> Jobs]
      /\ \A h \in Handlers :
           \/ pc[h] = "free" /\ pc'[h] = "queued" /\ job'[h] \in S
           \/ pc'[h] = pc[h] /\ job'[h] = job[h]
  <2>1. S \in SUBSET Jobs /\ {} \in SUBSET Handlers
    BY <1>1
  <2>2. \A h \in Handlers :
           \/ pc[h] = "free" /\ pc'[h] = "queued" /\ job'[h] \in S
           \/ pc'[h] = pc[h] /\ job'[h] = job[h]
           \/ h \in {} /\ pc'[h] = "free" /\ job'[h] = NoJob
    BY <2>1, <1>3, Tasks
  <2>3. /\ pc' \in [Handlers -> {"free", "queued", "fetch", "lookup",
                                  "create", "copy", "check"}]
        /\ job' \in [Handlers -> Jobs]
    BY <2>1, <1>3, Tasks
  <2> QED
    BY <2>2, <2>3
<1>7. OneHandlerPerRow'
  <2>1. CASE late
    BY <2>1, <1>4 DEF OneHandlerPerRow
  <2>2. CASE ~late
    BY <2>2, <1>1, <1>2, <1>3, TasksApart
  <2> QED
    BY <2>1, <2>2
<1>8. PlannedIsIdle'
  <2>1. \A h \in Handlers : job'[h] \in S => RowOf(h)' \notin tRows
    BY <1>1, <1>2 DEF RowOf, TypeOK, Rows
  <2> QED
    BY <2>1, <1>4, <1>6 DEF PlannedIsIdle, RowOf
<1>9. RowsLoaded'
  BY <1>4 DEF DeployMessage, RowsLoaded, TypeOK
<1>10. TypeOK'
  <2>1. /\ dep' \in [Deployments -> {"absent", "empty", "loaded"}]
        /\ action' \in [Deployments -> {"NONE", "IN_PROGRESS", "OK", "FAILED"}]
        /\ deploys' \in 0..MaxDeploys
    BY ConstantsOK DEF DeployMessage, TypeOK
  <2>2. UNCHANGED <<depFailed, depRetries, resVars, disk, file, pos, src, active,
                   timingVars, faults, late, trusted>>
    BY DEF DeployMessage
  <2> QED
    BY <1>6, <2>1, <2>2 DEF TypeOK, resVars, timingVars
<1> QED
  BY <1>5, <1>7, <1>8, <1>9, <1>10

\* What a round retries may be handed to the pool, all of it or a part.
LEMMA RetriesFit ==
    ASSUME CInv, round = "planned", NEW S \in SUBSET RetryJobs, res' = res
    PROVE  /\ \A j \in S : Fits(j)
           /\ ~late => \A j \in S : j.k \in Resources =>
                 \A h \in Handlers : pc[h] # "free" => RowOf(h) # <<j.d, j.k>>
           /\ \A i, j \in S : i.k \in Resources /\ i.d = j.d /\ i.k = j.k => i = j
<1> USE DEF CInv
<1>1. ASSUME NEW j \in S
      PROVE  /\ j \in Jobs
             /\ \/ j.d \in Deployments /\ j.k = j.d
                \/ /\ j.d \in Deployments /\ j.k \in Resources
                   /\ <<j.d, j.k>> \in tRows /\ j.start = tBytes[<<j.d, j.k>>]
  <2>1. CASE \E d \in tDeps : j = DescriptorJob(d)
    BY <2>1, ConstantsOK DEF DescriptorJob, Jobs, Urls, TypeOK
  <2>2. CASE \E r \in tRows : j = ResourceJob(r, tBytes[r])
    <3>1. PICK r \in tRows : j = ResourceJob(r, tBytes[r])
      BY <2>2
    <3>2. r \in Rows /\ tBytes[r] \in 0..Blocks
      BY DEF TypeOK
    <3>3. r = <<r[1], r[2]>> /\ r[1] \in Deployments /\ r[2] \in Resources
      BY <3>2 DEF Rows
    <3> QED
      BY <3>1, <3>2, <3>3 DEF ResourceJob, Jobs, Urls
  <2> QED
    BY <2>1, <2>2 DEF RetryJobs
<1>2. \A j \in S : Fits(j)
  BY <1>1 DEF Fits, TypeOK
<1>3. \A j \in S : j.k \in Resources =>
        /\ <<j.d, j.k>> \in tRows
        /\ j = [d |-> j.d, k |-> j.k, start |-> tBytes[<<j.d, j.k>>]]
  BY <1>1, ConstantsOK DEF Jobs
<1>4. ~late => \A j \in S : j.k \in Resources =>
        \A h \in Handlers : pc[h] # "free" => RowOf(h) # <<j.d, j.k>>
  BY <1>3 DEF PlannedIsIdle
<1> QED
  BY <1>2, <1>3, <1>4

\* The end of a round.
LEMMA RoundFits ==
    ASSUME CInv, round = "planned", NEW S \in SUBSET RetryJobs, AddTasks(S, {}),
           UNCHANGED <<dep, res, pos, src>>, Asleep,
           late' = (late \/ Overtaken)
    PROVE  /\ JobsFit' /\ CopiesFit' /\ RowsLoaded' /\ PlannedIsIdle'
           /\ OneHandlerPerRow'
           /\ pc' \in [Handlers -> {"free", "queued", "fetch", "lookup",
                                    "create", "copy", "check"}]
           /\ job' \in [Handlers -> Jobs]
<1>1. \A j \in S : Fits(j)
  BY RetriesFit
<1>2. S \in SUBSET Jobs
  BY <1>1 DEF Fits
<1>3. JobsFit' /\ CopiesFit'
  BY <1>1, TasksFit
<1>4. RowsLoaded' /\ PlannedIsIdle'
  BY DEF CInv, RowsLoaded, PlannedIsIdle, Asleep
<1>5. OneHandlerPerRow'
  <2>1. CASE late'
    BY <2>1 DEF OneHandlerPerRow
  <2>2. CASE ~late
    BY <2>2, <1>2, RetriesFit, TasksApart
  <2> QED
    BY <2>1, <2>2
<1> QED
  BY <1>2, <1>3, <1>4, <1>5, Tasks

LEMMA TimingFits ==
    ASSUME CInv, TimingStep
    PROVE  CInv'
<1> USE DEF CInv
<1>1. CASE Scan
  <2>1. TypeOK'
    BY <1>1 DEF Scan, TypeOK, depVars, resVars, poolVars
  <2>2. /\ JobsFit' /\ CopiesFit' /\ RowsLoaded' /\ PlannedIsIdle'
        /\ OneHandlerPerRow'
    BY <1>1 DEF Scan, depVars, resVars, poolVars, JobsFit, CopiesFit, RowsLoaded,
       PlannedIsIdle, OneHandlerPerRow, DescriptorAt, RowAt, RowOf
  <2> QED
    BY <2>1, <2>2
<1>2. CASE Plan
  <2>1. TypeOK'
    BY <1>2 DEF Plan, TypeOK, depVars, resVars, poolVars
  <2>2. JobsFit' /\ CopiesFit' /\ RowsLoaded' /\ OneHandlerPerRow'
    BY <1>2 DEF Plan, depVars, resVars, poolVars, JobsFit, CopiesFit, RowsLoaded,
       OneHandlerPerRow, DescriptorAt, RowAt, RowOf
  <2>3. PlannedIsIdle'
    <3> SUFFICES ASSUME ~Overlooked, NEW h \in Handlers, pc[h] # "free",
                        RowOf(h) \in tRows, job[h].k \notin active
                 PROVE  FALSE
      BY <1>2 DEF Plan, PlannedIsIdle, poolVars, RowOf
    <3> QED
      BY DEF Overlooked
  <2> QED
    BY <2>1, <2>2, <2>3
<1>3. CASE Apply
  <2>1. /\ JobsFit' /\ CopiesFit' /\ RowsLoaded' /\ PlannedIsIdle'
        /\ OneHandlerPerRow'
        /\ pc' \in [Handlers -> {"free", "queued", "fetch", "lookup",
                                 "create", "copy", "check"}]
        /\ job' \in [Handlers -> Jobs]
    BY <1>3, RoundFits DEF Apply
  <2>2. /\ depRetries' \in [Deployments -> 0..RetryLimit]
        /\ retries' \in [Rows -> 0..RetryLimit]
    BY <1>3, ConstantsOK DEF Apply, TypeOK, LostDeps, LostRows
  <2>3. /\ depFailed' \in [Deployments -> BOOLEAN]
        /\ action' \in [Deployments -> {"NONE", "IN_PROGRESS", "OK", "FAILED"}]
        /\ pending' \subseteq res
        /\ late' \in BOOLEAN
    BY <1>3 DEF Apply, TypeOK, Overtaken
  <2>4. TypeOK'
    BY <1>3, <2>1, <2>2, <2>3, ConstantsOK DEF Apply, Asleep, TypeOK
  <2> QED
    BY <2>1, <2>4
<1>4. CASE RollBack
  <2>1. /\ JobsFit' /\ CopiesFit' /\ RowsLoaded' /\ PlannedIsIdle'
        /\ OneHandlerPerRow'
        /\ pc' \in [Handlers -> {"free", "queued", "fetch", "lookup",
                                 "create", "copy", "check"}]
        /\ job' \in [Handlers -> Jobs]
    BY <1>4, RoundFits DEF RollBack, depVars, resVars
  <2>2. faults' \in 0..MaxFaults /\ late' \in BOOLEAN
    BY <1>4, ConstantsOK DEF RollBack, Fault, TypeOK, Overtaken
  <2>3. TypeOK'
    BY <1>4, <2>1, <2>2, ConstantsOK DEF RollBack, Asleep, TypeOK, depVars, resVars
  <2> QED
    BY <2>1, <2>3
<1> QED
  BY <1>1, <1>2, <1>3, <1>4 DEF TimingStep

LEMMA StepFits == CInv /\ [Next]_vars => CInv'
<1> SUFFICES ASSUME CInv, [Next]_vars PROVE CInv'
  OBVIOUS
<1>1. CASE \E d \in Deployments : DeployMessage(d)
  BY <1>1, DeployFits
<1>2. CASE \E h \in Handlers : HandlerStep(h)
  BY <1>2, HandlerFits
<1>3. CASE TimingStep
  BY <1>3, TimingFits
<1>4. ASSUME NEW r \in Rows, Age(r)
      PROVE  CInv'
  BY <1>4 DEF Age, CInv, TypeOK, JobsFit, CopiesFit, RowsLoaded, PlannedIsIdle,
     OneHandlerPerRow, DescriptorAt, RowAt, RowOf, depVars, poolVars, timingVars
<1>5. CASE Crash
  <2>1. NoJob \in Jobs /\ NoJob.k \notin Resources
    BY ConstantsOK DEF NoJob, Jobs
  <2>2. TypeOK'
    BY <1>5, <2>1, ConstantsOK
       DEF Crash, Fault, Asleep, CInv, TypeOK, depVars, resVars
  <2>3. /\ JobsFit' /\ CopiesFit' /\ RowsLoaded' /\ PlannedIsIdle'
        /\ OneHandlerPerRow'
    BY <1>5, <2>1 DEF Crash, Asleep, CInv, JobsFit, CopiesFit, RowsLoaded,
       PlannedIsIdle, OneHandlerPerRow, depVars, resVars
  <2> QED
    BY <2>2, <2>3 DEF CInv
<1>6. CASE UNCHANGED vars
  BY <1>6 DEF vars, CInv, TypeOK, JobsFit, CopiesFit, RowsLoaded, PlannedIsIdle,
     OneHandlerPerRow, DescriptorAt, RowAt, RowOf
<1> QED
  BY <1>1, <1>2, <1>3, <1>4, <1>5, <1>6 DEF Next

-----------------------------------------------------------------------------
(* What is there to play *)

\* A descriptor is downloaded of what was entered.
DescriptorsKnown ==
    /\ \A h \in Handlers : DescriptorAt(h) => dep[job[h].d] # "absent"
    /\ \A d \in tDeps : dep[d] # "absent"

\* The file a handler writes is the one its row names.
FilesFit ==
    \A h \in Handlers : pc[h] \in {"copy", "check"} =>
        file[h] = filename[RowOf(h)] /\ file[h] # 0

\* A row whose checksum is being looked at claims the whole resource.
ClaimsFit ==
    \A h \in Handlers : pc[h] = "check" => bytes[RowOf(h)] = Blocks

Complete(r) == r \notin pending /\ bytes[r] = Blocks /\ filename[r] # 0 /\ Right(r)

\* What is no longer pending was given up or is complete, and nobody writes it.
DoneIsIdle ==
    \A r \in res \ pending : \A h \in Handlers : pc[h] # "free" => RowOf(h) # r

DoneIsComplete ==
    \A r \in res \ pending : depFailed[r[1]] \/ Complete(r)

\* A loaded deployment has a row of its own for each resource, or another one
\* that was complete when it was loaded.
Provided ==
    \A d \in Deployments : dep[d] = "loaded" =>
        \A k \in ResourcesOf[d] :
            <<d, k>> \in res \/ \E r \in res : r[2] = k /\ Complete(r)

PInv ==
    /\ CInv /\ DescriptorsKnown
    /\ ~late => FilesFit /\ ClaimsFit /\ DoneIsIdle /\ DoneIsComplete
    /\ ~late /\ ~trusted => Provided

LEMMA PInit == Init => PInv
<1> SUFFICES ASSUME Init PROVE PInv
  OBVIOUS
<1>1. NoUrl \notin Deployments
  BY ConstantsOK
<1> QED
  BY <1>1, InitFits DEF Init, PInv, DescriptorsKnown, DescriptorAt, NoJob, FilesFit,
     ClaimsFit, DoneIsIdle, DoneIsComplete, Provided

\* A handler works on a row that is still pending.
LEMMA RowIsPending ==
    ASSUME PInv, ~late, NEW h \in Handlers,
           pc[h] \in {"lookup", "create", "copy", "check"}
    PROVE  RowAt(h) /\ RowOf(h) \in pending /\ RowOf(h) \in Rows
<1>1. RowAt(h) /\ pc[h] # "free"
  BY DEF PInv, CInv, JobsFit
<1>2. RowOf(h) \in res
  BY <1>1 DEF RowAt
<1> QED
  BY <1>1, <1>2, RowIsRow DEF PInv, DoneIsIdle

\* Whatever happens to a pending row, the others are as complete as before.
LEMMA PendingStep ==
    ASSUME PInv, ~late, NEW r \in pending,
           UNCHANGED <<dep, depFailed, res, pending, job>>,
           \A q \in Rows \ {r} : /\ bytes'[q] = bytes[q]
                                 /\ filename'[q] = filename[q]
                                 /\ disk'[q] = disk[q],
           \A g \in Handlers : pc'[g] # "free" => pc[g] # "free"
    PROVE  DoneIsIdle' /\ DoneIsComplete' /\ (Provided => Provided')
<1>1. DoneIsIdle'
  BY DEF PInv, DoneIsIdle, RowOf
<1>2. \A q \in res : Complete(q) => Complete(q)'
  BY DEF PInv, CInv, TypeOK, Complete, Right
<1>3. DoneIsComplete'
  BY <1>2 DEF PInv, DoneIsComplete
<1>4. Provided => Provided'
  BY <1>2 DEF Provided
<1> QED
  BY <1>1, <1>3, <1>4

LEMMA RowsApart ==
    ASSUME PInv, ~late, NEW g \in Handlers, NEW h \in Handlers, RowAt(g),
           RowOf(g) = RowOf(h)
    PROVE  g = h
BY DEF PInv, CInv, OneHandlerPerRow, RowAt

LEMMA PEnd ==
    ASSUME PInv, NEW h \in Handlers, End(h), late' = late, trusted' = trusted,
           UNCHANGED <<dep, depFailed, res, pending, bytes, filename, disk, tDeps>>,
           CInv'
    PROVE  PInv'
<1>1. /\ \A g \in Handlers \ {h} : pc'[g] = pc[g] /\ job'[g] = job[g] /\ file'[g] = file[g]
      /\ pc'[h] = "free" /\ job'[h] = NoJob
  BY DEF PInv, CInv, TypeOK, End
<1>2. DescriptorsKnown'
  BY <1>1, ConstantsOK DEF PInv, DescriptorsKnown, DescriptorAt, NoJob
<1>3. ~late => FilesFit' /\ ClaimsFit' /\ DoneIsIdle'
  BY <1>1 DEF PInv, FilesFit, ClaimsFit, DoneIsIdle, RowOf
<1>4. (~late => DoneIsComplete') /\ (~late /\ ~trusted => Provided')
  BY DEF PInv, DoneIsComplete, Complete, Right, Provided
<1> QED
  BY <1>2, <1>3, <1>4 DEF PInv

LEMMA PHandler ==
    ASSUME Sized = Resources, PInv, NEW h \in Handlers, HandlerStep(h), CInv'
    PROVE  PInv'
<1>1. CASE Start(h)
  <2>1. /\ job' = job /\ file' = file /\ pc[h] # "free" /\ pc'[h] \in {"fetch", "lookup"}
        /\ \A g \in Handlers \ {h} : pc'[g] = pc[g]
        /\ UNCHANGED <<dep, depFailed, res, pending, bytes, filename, disk, late,
                      trusted, tDeps>>
    BY <1>1 DEF Start, PInv, CInv, TypeOK, depVars, resVars, timingVars
  <2>2. DescriptorsKnown'
    BY <2>1 DEF PInv, DescriptorsKnown, DescriptorAt
  <2>3. ~late => FilesFit' /\ ClaimsFit' /\ DoneIsIdle'
    BY <2>1 DEF PInv, FilesFit, ClaimsFit, DoneIsIdle, RowOf
  <2>4. (~late => DoneIsComplete') /\ (~late /\ ~trusted => Provided')
    BY <2>1 DEF PInv, DoneIsComplete, Complete, Right, Provided
  <2> QED
    BY <2>1, <2>2, <2>3, <2>4 DEF PInv
<1>2. CASE DescriptorFails(h) \/ CopyFails(h)
  BY <1>2, PEnd DEF DescriptorFails, CopyFails, depVars, resVars, timingVars
<1>3. CASE Lookup(h)
  <2>1. /\ UNCHANGED <<dep, depFailed, res, pending, bytes, filename, disk, late,
                      trusted, tDeps, job>>
        /\ \A g \in Handlers \ {h} : pc'[g] = pc[g] /\ file'[g] = file[g]
        /\ \/ pc'[h] = "copy" /\ file'[h] = filename[RowOf(h)] /\ file'[h] # 0
           \/ pc'[h] = "create"
        /\ pc[h] = "lookup"
    BY <1>3 DEF Lookup, Open, PInv, CInv, TypeOK, depVars, resVars, timingVars
  <2>2. DescriptorsKnown'
    BY <2>1 DEF PInv, DescriptorsKnown, DescriptorAt
  <2>3. ~late => FilesFit' /\ ClaimsFit' /\ DoneIsIdle'
    BY <2>1 DEF PInv, FilesFit, ClaimsFit, DoneIsIdle, RowOf
  <2>4. (~late => DoneIsComplete') /\ (~late /\ ~trusted => Provided')
    BY <2>1 DEF PInv, DoneIsComplete, Complete, Right, Provided
  <2> QED
    BY <2>1, <2>2, <2>3, <2>4 DEF PInv
<1>4. CASE Create(h)
  <2> DEFINE r == RowOf(h)
  <2>1. /\ UNCHANGED <<dep, depFailed, res, pending, bytes, late, trusted, tDeps, job>>
        /\ \A g \in Handlers \ {h} : pc'[g] = pc[g] /\ file'[g] = file[g]
        /\ \A q \in Rows \ {r} : filename'[q] = filename[q] /\ disk'[q] = disk[q]
        /\ pc'[h] = "copy" /\ pc[h] = "create"
    BY <1>4 DEF Create, Open, PInv, CInv, TypeOK, depVars, timingVars
  <2>2. RowAt(h) /\ r \in Rows
    BY <2>1, RowIsRow DEF PInv, CInv, JobsFit
  <2>3. file'[h] = filename'[r] /\ file'[h] # 0
    <3>1. disk[r] \in Seq(Seq(0..Blocks)) /\ << >> \in Seq(0..Blocks)
      BY <2>2 DEF PInv, CInv, TypeOK
    <3>2. /\ Len(Append(disk[r], << >>)) = Len(disk[r]) + 1
          /\ Len(disk[r]) \in Nat
      BY <3>1, AppendProperties, LenProperties
    <3>3. disk'[r] = Append(disk[r], << >>)
      BY <1>4, <2>2 DEF Create, PInv, CInv, TypeOK
    <3>4. filename'[r] = Len(disk'[r]) /\ file'[h] = Len(disk'[r])
      BY <1>4, <2>2 DEF Create, Open, PInv, CInv, TypeOK
    <3> QED
      BY <3>2, <3>3, <3>4
  <2>4. DescriptorsKnown'
    BY <2>1 DEF PInv, DescriptorsKnown, DescriptorAt
  <2>5. ASSUME ~late PROVE FilesFit' /\ ClaimsFit'
    <3>1. \A g \in Handlers \ {h} : pc[g] \in {"copy", "check"} =>
            RowOf(g) \in Rows \ {r}
      BY <2>5, RowIsPending, RowsApart
    <3> HIDE DEF r
    <3>2. RowOf(h)' = r /\ \A g \in Handlers : RowOf(g)' = RowOf(g)
      BY <2>1 DEF RowOf, r
    <3> QED
      BY <2>1, <2>3, <2>5, <3>1, <3>2 DEF PInv, FilesFit, ClaimsFit
  <2>6. ASSUME ~late
        PROVE  DoneIsIdle' /\ DoneIsComplete' /\ (Provided => Provided')
    BY <2>1, <2>6, RowIsPending, PendingStep
  <2> QED
    BY <2>1, <2>4, <2>5, <2>6 DEF PInv
<1>5. CASE CopyBlock(h) \/ CopyCompleted(h)
  <2> DEFINE r == RowOf(h)
  <2>1. /\ UNCHANGED <<dep, depFailed, res, pending, filename, late, trusted, tDeps,
                      job, file>>
        /\ \A g \in Handlers \ {h} : pc'[g] = pc[g]
        /\ \A q \in Rows \ {r} : bytes'[q] = bytes[q] /\ disk'[q] = disk[q]
        /\ pc[h] = "copy" /\ pc'[h] \in {"copy", "check"}
    <3>1. CASE CopyBlock(h)
      <4>1. /\ disk' = [disk EXCEPT ![r][file[h]] =
                           Write(@, pos[h], src[h] + 1)]
            /\ \/ bytes' = [bytes EXCEPT ![r] = pos'[h] - job[h].start]
               \/ bytes' = bytes
            /\ pc' = pc /\ pc[h] = "copy"
        BY <3>1 DEF CopyBlock
      <4>2. \A q \in Rows \ {r} : bytes'[q] = bytes[q] /\ disk'[q] = disk[q]
        <5>1. DOMAIN bytes = Rows /\ DOMAIN disk = Rows
          BY DEF PInv, CInv, TypeOK
        <5> HIDE DEF r
        <5> QED
          BY <4>1, <5>1
      <4> QED
        BY <3>1, <4>1, <4>2 DEF CopyBlock, depVars, timingVars
    <3>2. CASE CopyCompleted(h)
      <4>1. /\ \/ bytes' = [bytes EXCEPT ![r] = Size(job[h].k)]
               \/ bytes' = bytes
            /\ pc' = [pc EXCEPT ![h] = "check"] /\ pc[h] = "copy"
            /\ disk' = disk
        BY <3>2 DEF CopyCompleted
      <4>2. /\ \A q \in Rows \ {r} : bytes'[q] = bytes[q]
            /\ \A g \in Handlers \ {h} : pc'[g] = pc[g]
            /\ pc'[h] = "check"
        <5>1. DOMAIN bytes = Rows /\ DOMAIN pc = Handlers
          BY DEF PInv, CInv, TypeOK
        <5> HIDE DEF r
        <5> QED
          BY <4>1, <5>1
      <4> QED
        BY <3>2, <4>1, <4>2 DEF CopyCompleted, depVars, timingVars
    <3> QED
      BY <1>5, <3>1, <3>2
  <2>2. RowAt(h) /\ r \in Rows
    BY <2>1, RowIsRow DEF PInv, CInv, JobsFit
  <2>3. pc'[h] = "check" => bytes'[r] = Blocks
    BY <1>5, <2>1, <2>2
       DEF CopyBlock, CopyCompleted, Size, RowAt, PInv, CInv, TypeOK
  <2>4. DescriptorsKnown'
    BY <2>1 DEF PInv, DescriptorsKnown, DescriptorAt
  <2>5. ASSUME ~late PROVE FilesFit' /\ ClaimsFit'
    <3>1. \A g \in Handlers \ {h} : pc[g] \in {"copy", "check"} =>
            RowOf(g) \in Rows \ {r}
      BY <2>5, RowIsPending, RowsApart
    <3>2. \A g \in Handlers : RowOf(g)' = RowOf(g)
      BY <2>1 DEF RowOf
    <3>3. FilesFit'
      BY <2>1, <2>5, <3>2 DEF PInv, FilesFit
    <3>4. ClaimsFit'
      BY <2>1, <2>3, <2>5, <3>1, <3>2 DEF PInv, ClaimsFit
    <3> QED
      BY <3>3, <3>4
  <2>6. ASSUME ~late
        PROVE  DoneIsIdle' /\ DoneIsComplete' /\ (Provided => Provided')
    BY <2>1, <2>6, RowIsPending, PendingStep
  <2> QED
    BY <2>1, <2>4, <2>5, <2>6 DEF PInv
<1>6. CASE Finish(h)
  <2>0. PICK r \in Rows : r = RowOf(h)
    <3>1. RowAt(h)
      BY <1>6 DEF Finish, PInv, CInv, JobsFit
    <3> QED
      BY <3>1, RowIsRow DEF PInv
  <2>1. /\ UNCHANGED <<dep, depFailed, res, bytes, filename, disk, late, trusted, tDeps>>
        /\ pending' = IF Good(disk[r][file[h]]) THEN pending \ {r} ELSE pending
        /\ End(h) /\ pc[h] = "check"
    BY <1>6, <2>0 DEF Finish, depVars, timingVars
  <2>2. /\ \A g \in Handlers \ {h} : /\ pc'[g] = pc[g] /\ job'[g] = job[g]
                                      /\ file'[g] = file[g]
        /\ pc'[h] = "free" /\ job'[h] = NoJob
    BY <2>1 DEF PInv, CInv, TypeOK, End
  <2>3. DescriptorsKnown'
    BY <2>1, <2>2, ConstantsOK DEF PInv, DescriptorsKnown, DescriptorAt, NoJob
  <2>4. ~late => FilesFit' /\ ClaimsFit'
    BY <2>1, <2>2 DEF PInv, FilesFit, ClaimsFit, RowOf
  <2>5. ASSUME ~late PROVE DoneIsIdle'
    <3> SUFFICES ASSUME NEW q \in res, q \notin pending', NEW g \in Handlers,
                        pc'[g] # "free", RowOf(g)' = q
                 PROVE  FALSE
      BY <2>1 DEF DoneIsIdle
    <3>1. g # h /\ pc[g] # "free" /\ RowOf(g) = q
      BY <2>2 DEF RowOf
    <3>2. q # r
      BY <2>0, <2>1, <2>5, <3>1, RowIsPending, RowsApart
    <3> QED
      BY <2>1, <2>5, <3>1, <3>2 DEF PInv, DoneIsIdle
  <2>6. ASSUME ~late, r \notin pending' PROVE Complete(r)'
    <3>1. r \in pending /\ file[h] = filename[r] /\ file[h] # 0 /\ bytes[r] = Blocks
      BY <2>0, <2>1, <2>6, RowIsPending DEF PInv, FilesFit, ClaimsFit
    <3> QED
      BY <2>1, <2>6, <3>1 DEF Complete, Right
  <2>7. \A q \in res \ {r} : Complete(q)' = Complete(q)
    BY <2>1 DEF Complete, Right
  <2>8. \A q \in res : Complete(q) => Complete(q)'
    BY <2>1 DEF Complete, Right
  <2>9. ~late => DoneIsComplete'
    BY <2>1, <2>6, <2>7 DEF PInv, DoneIsComplete
  <2>10. Provided => Provided'
    BY <2>1, <2>8 DEF Provided
  <2> QED
    BY <2>1, <2>3, <2>4, <2>5, <2>9, <2>10 DEF PInv
<1>7. CASE DescriptorLoads(h)
  <2> DEFINE d == job[h].d
             new == IF dep[d] = "empty"
                    THEN {<<d, k>> : k \in {x \in ResourcesOf[d] : ~Exists(x)}}
                    ELSE {}
             S == {ResourceJob(r, 0) : r \in new}
  <2>1. d \in Deployments /\ job[h].k = d /\ dep[d] # "absent"
    BY <1>7 DEF DescriptorLoads, PInv, CInv, JobsFit, DescriptorAt, DescriptorsKnown
  <2>2. /\ dep' = [dep EXCEPT ![d] = "loaded"]
        /\ res' = res \cup new
        /\ pending' = pending \cup new
        /\ AddTasks(S, {h})
        /\ trusted' = (trusted \/ Trusts(d))
        /\ UNCHANGED <<depFailed, filename, bytes, disk, file, late, tDeps>>
    BY <1>7 DEF DescriptorLoads, timingVars
  <2>3. /\ new \subseteq Rows
        /\ \A r \in new : r = <<d, r[2]>> /\ r[2] \in Resources /\ r \notin res
    BY <2>1, ConstantsOK DEF Rows, PInv, CInv, RowsLoaded
  <2>4. \A k \in ResourcesOf[d] :
           dep[d] = "empty" => <<d, k>> \in new \/ Exists(k)
    OBVIOUS
  <2> HIDE DEF new
  <2>5. \A j \in S : j \in Jobs /\ <<j.d, j.k>> \in new /\ j.k \in Resources
    BY <2>1, <2>3, ConstantsOK DEF ResourceJob, Jobs, Urls
  <2>6. S \in SUBSET Jobs
    BY <2>5
  <2>7. \A g \in Handlers :
           \/ pc[g] = "free" /\ pc'[g] = "queued" /\ job'[g] \in S
           \/ pc'[g] = pc[g] /\ job'[g] = job[g]
           \/ g \in {h} /\ pc'[g] = "free" /\ job'[g] = NoJob
    <3> HIDE DEF S
    <3> QED
      BY <2>2, <2>6, Tasks DEF PInv
  <2>8. DescriptorsKnown'
    <3> HIDE DEF S
    <3>1. ASSUME NEW g \in Handlers, DescriptorAt(g)' PROVE job'[g] = job[g]
      <4>1. job'[g].d \in Deployments /\ job'[g].k = job'[g].d
        BY <3>1 DEF DescriptorAt
      <4>2. job'[g] \notin S
        BY <2>5, <4>1, ConstantsOK
      <4>3. job'[g] # NoJob
        BY <4>1, ConstantsOK DEF NoJob
      <4> QED
        BY <2>7, <4>2, <4>3
    <3>2. \A e \in Deployments : dep[e] # "absent" => dep'[e] # "absent"
      BY <2>1, <2>2 DEF PInv, CInv, TypeOK
    <3>3. \A g \in Handlers : DescriptorAt(g)' => DescriptorAt(g)
      BY <3>1 DEF DescriptorAt
    <3>4. \A g \in Handlers : DescriptorAt(g)' => dep'[job'[g].d] # "absent"
      BY <3>1, <3>2, <3>3 DEF PInv, DescriptorsKnown, DescriptorAt
    <3>5. \A e \in tDeps' : dep'[e] # "absent"
      BY <2>2, <3>2 DEF PInv, CInv, TypeOK, DescriptorsKnown
    <3> QED
      BY <3>4, <3>5 DEF DescriptorsKnown
  <2>9. ~late => FilesFit' /\ ClaimsFit'
    BY <2>2, <2>7 DEF PInv, FilesFit, ClaimsFit, RowOf
  <2>10. ASSUME ~late PROVE DoneIsIdle'
    <3> SUFFICES ASSUME NEW q \in res', q \notin pending', NEW g \in Handlers,
                        pc'[g] # "free", RowOf(g)' = q
                 PROVE  FALSE
      BY DEF DoneIsIdle
    <3>1. q \in res /\ q \notin pending /\ q \notin new
      BY <2>2
    <3>2. CASE job'[g] \in S
      BY <2>5, <3>1, <3>2 DEF RowOf
    <3>3. CASE pc'[g] = pc[g] /\ job'[g] = job[g]
      BY <2>10, <3>1, <3>3 DEF PInv, DoneIsIdle, RowOf
    <3> QED
      BY <2>7, <3>2, <3>3
  <2>11. \A q \in res : Complete(q) => Complete(q)'
    BY <2>2, <2>3 DEF Complete, Right
  <2>12. ~late => DoneIsComplete'
    BY <2>2, <2>3, <2>11 DEF PInv, DoneIsComplete
  <2>13. ASSUME ~late, ~trusted' PROVE Provided'
    <3> SUFFICES ASSUME NEW e \in Deployments, dep'[e] = "loaded",
                        NEW k \in ResourcesOf[e]
                 PROVE  \/ <<e, k>> \in res'
                        \/ \E r \in res' : r[2] = k /\ Complete(r)'
      BY DEF Provided
    <3>1. CASE dep[e] = "loaded"
      <4>1. <<e, k>> \in res \/ \E r \in res : r[2] = k /\ Complete(r)
        BY <2>2, <2>13, <3>1 DEF PInv, Provided
      <4> QED
        BY <2>2, <2>11, <4>1
    <3>2. CASE dep[e] # "loaded"
      <4>1. e = d /\ dep[d] = "empty"
        BY <2>1, <2>2, <3>2 DEF PInv, CInv, TypeOK
      <4>2. CASE <<d, k>> \in new
        BY <2>2, <4>1, <4>2
      <4>3. CASE Exists(k)
        <5>1. PICK r \in res : r[2] = k /\ bytes[r] = Size(k)
          BY <4>3 DEF Exists
        <5>2. Confirmed(r)
          BY <2>2, <2>13, <4>1, <5>1 DEF Trusts
        <5>3. k \in Resources /\ bytes[r] = Blocks
          BY <2>1, <4>1, <5>1, ConstantsOK DEF Size
        <5>4. Complete(r)
          BY <5>2, <5>3 DEF Confirmed, Complete, Right
        <5> QED
          BY <2>2, <2>11, <5>1, <5>4
      <4> QED
        BY <2>4, <4>1, <4>2, <4>3
    <3> QED
      BY <3>1, <3>2
  <2> QED
    BY <2>2, <2>8, <2>9, <2>10, <2>12, <2>13 DEF PInv
<1> QED
  BY <1>1, <1>2, <1>3, <1>4, <1>5, <1>6, <1>7 DEF HandlerStep

\* What a round retries: a deployment it works on, or a row it does not give up.
LEMMA RetryRows ==
    ASSUME CInv, NEW j \in RetryJobs
    PROVE  \/ j.k = j.d /\ j.d \in tDeps
           \/ j.k \in Resources /\ <<j.d, j.k>> \in tRows \ LostRows
<1>1. CASE \E d \in tDeps : j = DescriptorJob(d)
  BY <1>1 DEF DescriptorJob
<1>2. CASE \E r \in tRows \ LostRows : j = ResourceJob(r, tBytes[r])
  <2>1. PICK r \in tRows \ LostRows : j = ResourceJob(r, tBytes[r])
    BY <1>2
  <2>2. r = <<r[1], r[2]>> /\ r[2] \in Resources
    BY DEF CInv, TypeOK, Rows
  <2> QED
    BY <2>1, <2>2 DEF ResourceJob
<1> QED
  BY <1>1, <1>2 DEF RetryJobs

\* Handing jobs to the pool touches no handler that runs.
LEMMA PTasks ==
    ASSUME PInv, NEW S \in SUBSET Jobs, AddTasks(S, {}),
           UNCHANGED <<bytes, filename, file>>,
           \A d \in Deployments : dep[d] # "absent" => dep'[d] # "absent",
           \A j \in S : \/ j.d \in Deployments /\ dep'[j.d] # "absent"
                        \/ j.k \in Resources
    PROVE  /\ \A h \in Handlers : DescriptorAt(h)' => dep'[job'[h].d] # "absent"
           /\ ~late => FilesFit' /\ ClaimsFit'
           /\ \A h \in Handlers : pc'[h] # "free" =>
                \/ pc[h] # "free" /\ job'[h] = job[h]
                \/ job'[h] \in S
<1>1. \A h \in Handlers :
        \/ pc[h] = "free" /\ pc'[h] = "queued" /\ job'[h] \in S
        \/ pc'[h] = pc[h] /\ job'[h] = job[h]
  <2>1. {} \in SUBSET Handlers /\ CInv
    BY DEF PInv
  <2>2. \A h \in Handlers :
          \/ pc[h] = "free" /\ pc'[h] = "queued" /\ job'[h] \in S
          \/ pc'[h] = pc[h] /\ job'[h] = job[h]
          \/ h \in {} /\ pc'[h] = "free" /\ job'[h] = NoJob
    BY <2>1, Tasks
  <2> QED
    BY <2>2
<1>2. ASSUME NEW h \in Handlers, DescriptorAt(h)'
      PROVE  dep'[job'[h].d] # "absent"
  <2>1. job'[h].d \in Deployments /\ job'[h].k = job'[h].d
    BY <1>2 DEF DescriptorAt
  <2>2. CASE job'[h] \in S
    BY <2>1, <2>2, ConstantsOK
  <2>3. CASE job'[h] = job[h]
    BY <2>1, <2>3 DEF PInv, DescriptorsKnown, DescriptorAt
  <2> QED
    BY <1>1, <2>2, <2>3
<1>3. ~late => FilesFit' /\ ClaimsFit'
  BY <1>1 DEF PInv, FilesFit, ClaimsFit, RowOf
<1> QED
  BY <1>1, <1>2, <1>3

LEMMA PDeploy ==
    ASSUME PInv, NEW d \in Deployments, DeployMessage(d), CInv'
    PROVE  PInv'
<1> DEFINE S == {DescriptorJob(d)}
<1>1. \A j \in S : j \in Jobs /\ j.d = d /\ j.k = d
  BY ConstantsOK DEF DescriptorJob, Jobs, Urls
<1>2. /\ AddTasks(S, {})
      /\ dep' = [dep EXCEPT ![d] = IF @ = "absent" THEN "empty" ELSE @]
      /\ UNCHANGED <<depFailed, res, pending, filename, bytes, disk, file, late,
                     trusted, tDeps>>
  BY DEF DeployMessage, resVars, timingVars
<1> HIDE DEF S
<1>3. /\ \A e \in Deployments : dep[e] # "absent" => dep'[e] # "absent"
      /\ dep'[d] # "absent"
      /\ \A e \in Deployments : dep'[e] = "loaded" => dep[e] = "loaded"
  BY <1>2 DEF PInv, CInv, TypeOK
<1>4. S \in SUBSET Jobs
  BY <1>1
<1>5. /\ \A h \in Handlers : DescriptorAt(h)' => dep'[job'[h].d] # "absent"
      /\ ~late => FilesFit' /\ ClaimsFit'
      /\ \A h \in Handlers : pc'[h] # "free" =>
           \/ pc[h] # "free" /\ job'[h] = job[h]
           \/ job'[h] \in S
  BY <1>1, <1>2, <1>3, <1>4, PTasks
<1>6. DescriptorsKnown'
  BY <1>2, <1>3, <1>5 DEF PInv, CInv, TypeOK, DescriptorsKnown
<1>7. ASSUME ~late PROVE DoneIsIdle'
  <2> SUFFICES ASSUME NEW q \in res, q \notin pending, NEW h \in Handlers,
                      pc'[h] # "free", RowOf(h)' = q
               PROVE  FALSE
    BY <1>2 DEF DoneIsIdle
  <2>1. q \in Rows
    BY DEF PInv, CInv, TypeOK
  <2>2. CASE job'[h] \in S
    <3>1. q = <<d, d>>
      BY <1>1, <2>2 DEF RowOf
    <3> QED
      BY <2>1, <3>1, ConstantsOK DEF Rows
  <2>3. CASE pc[h] # "free" /\ job'[h] = job[h]
    BY <1>7, <2>3 DEF PInv, DoneIsIdle, RowOf
  <2> QED
    BY <1>5, <2>2, <2>3
<1>8. \A q \in res : Complete(q) => Complete(q)'
  BY <1>2 DEF Complete, Right
<1>9. ~late => DoneIsComplete'
  BY <1>2, <1>8 DEF PInv, DoneIsComplete
<1>10. Provided => Provided'
  BY <1>2, <1>3, <1>8 DEF Provided
<1> QED
  BY <1>2, <1>5, <1>6, <1>7, <1>9, <1>10 DEF PInv

\* The end of a round: a row is given up with its deployment, and neither a
\* handler that runs nor one that is added has that row.
LEMMA PRound ==
    ASSUME PInv, round = "planned", NEW S \in SUBSET RetryJobs, AddTasks(S, {}),
           Asleep, late' = (late \/ Overtaken),
           UNCHANGED <<dep, res, bytes, filename, disk, file, trusted>>,
           NEW lost \in SUBSET LostRows, pending' = pending \ lost,
           \A d \in Deployments : depFailed[d] => depFailed'[d],
           \A r \in lost : depFailed'[r[1]],
           CInv'
    PROVE  PInv'
<1>1. \A j \in S : \/ j.k = j.d /\ j.d \in tDeps
                   \/ j.k \in Resources /\ <<j.d, j.k>> \in tRows \ lost
  BY RetryRows DEF PInv
<1>2. S \in SUBSET Jobs
  BY RetriesFit DEF PInv, Fits
<1>3. \A j \in S : \/ j.d \in Deployments /\ dep'[j.d] # "absent"
                   \/ j.k \in Resources
  BY <1>1 DEF PInv, CInv, TypeOK, DescriptorsKnown
<1>4. /\ \A h \in Handlers : DescriptorAt(h)' => dep'[job'[h].d] # "absent"
      /\ ~late => FilesFit' /\ ClaimsFit'
      /\ \A h \in Handlers : pc'[h] # "free" =>
           \/ pc[h] # "free" /\ job'[h] = job[h]
           \/ job'[h] \in S
  BY <1>2, <1>3, PTasks
<1>5. DescriptorsKnown'
  BY <1>4 DEF DescriptorsKnown, Asleep
<1>6. ASSUME ~late' PROVE DoneIsIdle'
  <2>1. ~late /\ tRows \subseteq pending
    BY <1>6 DEF Overtaken
  <2> SUFFICES ASSUME NEW q \in res, q \notin pending', NEW h \in Handlers,
                      pc'[h] # "free", RowOf(h)' = q
               PROVE  FALSE
    BY DEF DoneIsIdle
  <2>2. CASE job'[h] \in S
    <3>1. q = <<job'[h].d, job'[h].k>>
      BY DEF RowOf
    <3>2. job'[h].k \in Resources
      <4>1. q \in Rows
        BY DEF PInv, CInv, TypeOK
      <4> QED
        BY <3>1, <4>1 DEF Rows
    <3>3. q \in tRows \ lost
      <4>1. ~(job'[h].k = job'[h].d /\ job'[h].d \in tDeps)
        BY <3>2, ConstantsOK DEF PInv, CInv, TypeOK
      <4> QED
        BY <1>1, <2>2, <3>1, <4>1
    <3> QED
      BY <2>1, <3>3
  <2>3. CASE pc[h] # "free" /\ job'[h] = job[h]
    <3>1. RowOf(h) = q
      BY <2>3 DEF RowOf
    <3>2. q \in res \ pending \/ q \in tRows
      BY DEF LostRows
    <3> QED
      BY <2>1, <2>3, <3>1, <3>2 DEF PInv, CInv, DoneIsIdle, PlannedIsIdle
  <2> QED
    BY <1>4, <2>2, <2>3
<1>7. \A q \in res : Complete(q) => Complete(q)'
  BY DEF Complete, Right
<1>8. ~late' => DoneIsComplete'
  <2>1. \A r \in res : r[1] \in Deployments
    BY DEF PInv, CInv, TypeOK, Rows
  <2> QED
    BY <1>7, <2>1 DEF PInv, DoneIsComplete
<1>9. Provided => Provided'
  BY <1>7 DEF Provided
<1> QED
  BY <1>4, <1>5, <1>6, <1>8, <1>9 DEF PInv

LEMMA PTiming == ASSUME PInv, TimingStep, CInv' PROVE PInv'
<1>1. CASE Scan \/ Plan
  <2>1. /\ UNCHANGED <<dep, depFailed, res, pending, filename, bytes, disk, pc, job,
                       file, trusted>>
        /\ ~late' => ~late
        /\ \A d \in tDeps' : d \in tDeps \/ dep[d] = "empty"
    <3>1. CASE Scan
      BY <3>1 DEF Scan, depVars, resVars, poolVars
    <3>2. CASE Plan
      <4>1. ~late' => ~late
        BY <3>2 DEF Plan
      <4>2. \A d \in tDeps' : d \in tDeps
        BY <3>2 DEF Plan
      <4> QED
        BY <3>2, <4>1, <4>2 DEF Plan, depVars, resVars, poolVars
    <3> QED
      BY <1>1, <3>1, <3>2
  <2>2. DescriptorsKnown'
    BY <2>1 DEF PInv, DescriptorsKnown, DescriptorAt
  <2>3. ~late => FilesFit' /\ ClaimsFit' /\ DoneIsIdle'
    BY <2>1 DEF PInv, FilesFit, ClaimsFit, DoneIsIdle, RowOf
  <2>4. (~late => DoneIsComplete') /\ (~late /\ ~trusted => Provided')
    BY <2>1 DEF PInv, DoneIsComplete, Complete, Right, Provided
  <2> QED
    BY <2>1, <2>2, <2>3, <2>4 DEF PInv
<1>2. CASE Apply
  <2>1. /\ round = "planned" /\ AddTasks(RetryJobs, {}) /\ Asleep
        /\ late' = (late \/ Overtaken)
        /\ pending' = pending \ LostRows
        /\ UNCHANGED <<dep, res, bytes, filename, disk, file, trusted>>
    BY <1>2 DEF Apply
  <2>2. \A d \in Deployments : depFailed[d] => depFailed'[d]
    BY <1>2 DEF Apply
  <2>3. \A r \in LostRows : depFailed'[r[1]]
    <3>1. \A r \in LostRows : r[1] \in Deployments
      BY DEF LostRows, PInv, CInv, TypeOK, Rows
    <3> QED
      BY <1>2, <3>1 DEF Apply
  <2> QED
    BY <2>1, <2>2, <2>3, PRound
<1>3. CASE RollBack
  <2>1. PICK S \in SUBSET RetryJobs : AddTasks(S, {})
    BY <1>3 DEF RollBack
  <2>2. /\ round = "planned" /\ Asleep /\ late' = (late \/ Overtaken)
        /\ pending' = pending \ {} /\ depFailed' = depFailed
        /\ UNCHANGED <<dep, res, bytes, filename, disk, file, trusted>>
    BY <1>3 DEF RollBack, depVars, resVars
  <2>3. {} \in SUBSET LostRows
    OBVIOUS
  <2> QED
    BY <2>1, <2>2, <2>3, PRound
<1> QED
  BY <1>1, <1>2, <1>3 DEF TimingStep

LEMMA PStep ==
    ASSUME Sized = Resources, PInv, [Next]_vars
    PROVE  PInv'
<1>1. CInv'
  BY StepFits DEF PInv
<1>2. CASE \E d \in Deployments : DeployMessage(d)
  BY <1>1, <1>2, PDeploy
<1>3. CASE \E h \in Handlers : HandlerStep(h)
  BY <1>1, <1>3, PHandler
<1>4. CASE TimingStep
  BY <1>1, <1>4, PTiming
<1>5. CASE (\E r \in Rows : Age(r)) \/ UNCHANGED vars
  <2>1. UNCHANGED <<dep, depFailed, res, pending, filename, bytes, disk, pc, job,
                    file, tDeps, late, trusted>>
    BY <1>5 DEF Age, vars, depVars, poolVars, timingVars
  <2>2. DescriptorsKnown'
    BY <2>1 DEF PInv, DescriptorsKnown, DescriptorAt
  <2>3. ~late => FilesFit' /\ ClaimsFit' /\ DoneIsIdle'
    BY <2>1 DEF PInv, FilesFit, ClaimsFit, DoneIsIdle, RowOf
  <2>4. (~late => DoneIsComplete') /\ (~late /\ ~trusted => Provided')
    BY <2>1 DEF PInv, DoneIsComplete, Complete, Right, Provided
  <2> QED
    BY <1>1, <2>1, <2>2, <2>3, <2>4 DEF PInv
<1>6. CASE Crash
  <2>1. /\ UNCHANGED <<dep, depFailed, res, pending, filename, bytes, disk, late,
                       trusted>>
        /\ tDeps' = {}
        /\ \A h \in Handlers : pc'[h] = "free" /\ job'[h] = NoJob
    BY <1>6 DEF Crash, Asleep, depVars, resVars
  <2>2. DescriptorsKnown'
    BY <2>1, ConstantsOK DEF DescriptorsKnown, DescriptorAt, NoJob
  <2>3. FilesFit' /\ ClaimsFit' /\ DoneIsIdle'
    BY <2>1 DEF FilesFit, ClaimsFit, DoneIsIdle
  <2>4. (~late => DoneIsComplete') /\ (~late /\ ~trusted => Provided')
    BY <2>1 DEF PInv, DoneIsComplete, Complete, Right, Provided
  <2> QED
    BY <1>1, <2>1, <2>2, <2>3, <2>4 DEF PInv
<1> QED
  BY <1>2, <1>3, <1>4, <1>5, <1>6 DEF Next

-----------------------------------------------------------------------------
(* The theorems *)

\* The tables, the pool and the timing handler keep their types, and what is
\* handed to the pool is a descriptor or a row of the table.
THEOREM Invariant == Spec => []CInv
<1> QED
  BY InitFits, StepFits, PTL DEF Spec

\* Every variable of the content retriever has its type.
THEOREM TypeCorrect == Spec => []TypeOK
<1>1. CInv => TypeOK
  BY DEF CInv
<1> QED
  BY <1>1, Invariant, PTL

\* At no time do two handlers write the file of one row (Bug#140), up to a
\* round of the timing handler that overlooks one of them.
THEOREM OneHandler == Spec => []OneHandlerPerRow
<1>1. CInv => OneHandlerPerRow
  BY DEF CInv
<1> QED
  BY <1>1, Invariant, PTL

-----------------------------------------------------------------------------
(* What the player sees of it: every step is one of ContentDelivery, or    *)
(* changes nothing there.                                                  *)

\* Nothing the player sees changes.
Unseen == UNCHANGED <<DepsLoaded, DepsPending, DepsFailed>>

LEMMA SameTables ==
    ASSUME UNCHANGED <<dep, depFailed, pending>> PROVE Unseen
BY DEF Unseen, DepsLoaded, DepsPending, DepsFailed

\* A round that gives up nothing may have come too late all the same.
LEMMA UnseenStep ==
    ASSUME CInv, Unseen, late' \in {late, TRUE} PROVE [Delivery!Next]_(Delivery!vars)
<1>1. CASE late' = late
  BY <1>1 DEF Unseen, Delivery!vars
<1>2. CASE late' = TRUE
  <2>1. {} \in SUBSET (DepsLoaded \ DepsFailed)
    OBVIOUS
  <2>2. Delivery!GiveUp({})
    <3>1. {} \in SUBSET (DepsPending \cap DepsFailed') /\ DepsPending' = DepsPending \ {}
      BY DEF Unseen
    <3>2. DepsFailed' = DepsFailed \cup {} /\ DepsLoaded' = DepsLoaded
      BY DEF Unseen
    <3> QED
      BY <3>1, <3>2 DEF Delivery!GiveUp
  <2>3. Delivery!RacedFor({})
    BY <1>2 DEF Delivery!RacedFor
  <2> QED
    BY <2>1, <2>2, <2>3 DEF Delivery!Next
<1> QED
  BY <1>1, <1>2

LEMMA DeployUnseen ==
    ASSUME CInv, NEW d \in Deployments, DeployMessage(d) PROVE Unseen
<1>1. /\ dep' = [dep EXCEPT ![d] = IF @ = "absent" THEN "empty" ELSE @]
      /\ UNCHANGED <<depFailed, pending>>
  BY DEF DeployMessage, resVars
<1>2. \A c \in Deployments : dep'[c] = "loaded" <=> dep[c] = "loaded"
  BY <1>1 DEF CInv, TypeOK
<1>3. DepsLoaded' = DepsLoaded
  BY <1>2 DEF DepsLoaded
<1> QED
  BY <1>1, <1>3 DEF Unseen, DepsPending, DepsFailed

\* A descriptor that is entered again changes nothing.
LEMMA LoadSeen ==
    ASSUME CInv, NEW h \in Handlers, DescriptorLoads(h)
    PROVE  [Delivery!Next]_(Delivery!vars)
<1> DEFINE d == job[h].d
           new == IF dep[d] = "empty"
                  THEN {<<d, k>> : k \in {x \in ResourcesOf[d] : ~Exists(x)}}
                  ELSE {}
<1>1. /\ dep' = [dep EXCEPT ![d] = "loaded"]
      /\ pending' = pending \cup new
      /\ UNCHANGED <<depFailed, late>>
  BY DEF DescriptorLoads
<1>2. d \in Deployments
  BY DEF DescriptorLoads, CInv, JobsFit, DescriptorAt
<1>3. \A c \in Deployments : dep'[c] = "loaded" <=> dep[c] = "loaded" \/ c = d
  BY <1>1, <1>2 DEF CInv, TypeOK
<1>4. \A r \in new : r[1] = d
  OBVIOUS
<1>5. dep[d] = "loaded" => new = {}
  OBVIOUS
<1> HIDE DEF d, new
<1>6. DepsLoaded' = DepsLoaded \cup {d}
  BY <1>2, <1>3 DEF DepsLoaded
<1>7. DepsPending' \in {DepsPending, DepsPending \cup {d}}
  <2>1. CASE new = {}
    BY <1>1, <2>1 DEF DepsPending
  <2>2. CASE new # {}
    <3>1. \A c : c \in DepsPending' <=> c \in DepsPending \/ c = d
      BY <1>1, <1>4, <2>2 DEF DepsPending
    <3> QED
      BY <3>1
  <2> QED
    BY <2>1, <2>2
<1>8. DepsFailed' \in {DepsFailed, DepsFailed \cup {d}}
  <2>1. \A c : c \in DepsFailed' <=> c \in DepsFailed \/ (c = d /\ depFailed[d])
    BY <1>1, <1>6 DEF DepsFailed
  <2> QED
    BY <2>1
<1>9. CASE d \in DepsLoaded
  <2>1. DepsLoaded' = DepsLoaded
    BY <1>6, <1>9
  <2>2. DepsFailed' = DepsFailed
    BY <1>1, <2>1 DEF DepsFailed
  <2>3. pending' = pending
    BY <1>1, <1>5, <1>9 DEF DepsLoaded
  <2> QED
    BY <1>1, <2>1, <2>2, <2>3, UnseenStep DEF Unseen, DepsPending
<1>10. CASE d \notin DepsLoaded
  <2>1. Delivery!Load(d)
    BY <1>6, <1>7, <1>8, <1>10 DEF Delivery!Load
  <2> QED
    BY <1>1, <1>2, <2>1 DEF Delivery!Next
<1> QED
  BY <1>9, <1>10

\* The last row of a deployment goes, or others are left.
LEMMA FinishSeen ==
    ASSUME CInv, NEW h \in Handlers, Finish(h)
    PROVE  [Delivery!Next]_(Delivery!vars)
<1>1. UNCHANGED <<dep, depFailed, late>>
  BY DEF Finish, depVars
<1>2. DepsLoaded' = DepsLoaded /\ DepsFailed' = DepsFailed
  BY <1>1 DEF DepsLoaded, DepsFailed
<1>3. RowOf(h)[1] \in Deployments
  BY DEF Finish, CInv, JobsFit, RowAt, RowOf
<1>4. pending' = pending \ {RowOf(h)} \/ pending' = pending
  BY DEF Finish
<1>5. CASE DepsPending' = DepsPending
  BY <1>1, <1>2, <1>5, UnseenStep DEF Unseen
<1>6. CASE DepsPending' # DepsPending
  <2>1. \A c : c \in DepsPending' => c \in DepsPending
    BY <1>4 DEF DepsPending
  <2>2. \A c : c \in DepsPending => c \in DepsPending' \/ c = RowOf(h)[1]
    BY <1>4 DEF DepsPending
  <2>3. /\ RowOf(h)[1] \in DepsPending
        /\ DepsPending' = DepsPending \ {RowOf(h)[1]}
    BY <1>6, <2>1, <2>2
  <2>4. Delivery!LastResource(RowOf(h)[1])
    BY <1>2, <2>3 DEF Delivery!LastResource
  <2> QED
    BY <1>1, <1>3, <2>4 DEF Delivery!Next
<1> QED
  BY <1>5, <1>6

LEMMA HandlerSeen ==
    ASSUME CInv, NEW h \in Handlers, HandlerStep(h)
    PROVE  [Delivery!Next]_(Delivery!vars)
<1>1. CASE DescriptorLoads(h) \/ Finish(h)
  BY <1>1, LoadSeen, FinishSeen
<1>2. CASE ~(DescriptorLoads(h) \/ Finish(h))
  <2>1. UNCHANGED <<dep, depFailed, pending, late>>
    BY <1>2 DEF HandlerStep, Start, DescriptorFails, Lookup, Create, CopyBlock,
       CopyCompleted, CopyFails, depVars, resVars
  <2> QED
    BY <2>1, SameTables, UnseenStep
<1> QED
  BY <1>1, <1>2

\* What a round gives up is loaded, and what was ready only when the round was
\* overtaken.
LEMMA ApplySeen ==
    ASSUME CInv, Apply PROVE [Delivery!Next]_(Delivery!vars)
<1> DEFINE D == DepsFailed' \ DepsFailed
           E == DepsPending \ DepsPending'
<1>1. /\ dep' = dep
      /\ depFailed' = [d \in Deployments |->
                          \/ depFailed[d] \/ d \in LostDeps
                          \/ \E r \in LostRows : r[1] = d]
      /\ pending' = pending \ LostRows
      /\ late' = (late \/ Overtaken)
  BY DEF Apply
<1>2. DepsLoaded' = DepsLoaded
  BY <1>1 DEF DepsLoaded
<1>3. /\ \A d \in Deployments : depFailed[d] => depFailed'[d]
      /\ \A d \in Deployments : depFailed'[d] =>
             depFailed[d] \/ d \in LostDeps \/ \E r \in LostRows : r[1] = d
      /\ \A r \in LostRows : r[1] \in Deployments => depFailed'[r[1]]
  BY <1>1, Zenon
<1>4. \A r \in LostRows : r[1] \in DepsLoaded
  BY DEF LostRows, CInv, TypeOK, Rows, RowsLoaded, DepsLoaded
<1>5. DepsFailed' = DepsFailed \cup D
  <2>1. \A d \in DepsFailed : d \in DepsFailed'
    BY <1>2, <1>3 DEF DepsFailed, DepsLoaded
  <2> QED
    BY <2>1
<1>6. D \in SUBSET (DepsLoaded \ DepsFailed)
  BY <1>2 DEF DepsFailed
<1>7. E \in SUBSET (DepsPending \cap DepsFailed')
  <2>1. ASSUME NEW d \in DepsPending, d \notin DepsPending' PROVE d \in DepsFailed'
    <3>1. PICK r \in pending : r[1] = d
      BY <2>1 DEF DepsPending
    <3>2. r \in LostRows
      BY <1>1, <2>1, <3>1 DEF DepsPending
    <3> QED
      BY <1>2, <1>3, <1>4, <3>1, <3>2 DEF DepsFailed, DepsLoaded
  <2> QED
    BY <2>1
<1>8. DepsPending' = DepsPending \ E
  <2>1. \A d \in DepsPending' : d \in DepsPending
    BY <1>1 DEF DepsPending
  <2> QED
    BY <2>1
<1>9. ~Overtaken => \A d \in D : d \in DepsPending
  <2> SUFFICES ASSUME ~Overtaken, NEW d \in D PROVE d \in DepsPending
    OBVIOUS
  <2>1. d \in Deployments /\ dep[d] = "loaded" /\ ~depFailed[d] /\ depFailed'[d]
    BY <1>2 DEF DepsFailed, DepsLoaded
  <2>2. d \notin LostDeps
    BY <2>1 DEF Overtaken, LostDeps
  <2>3. PICK r \in LostRows : r[1] = d
    BY <1>3, <2>1, <2>2
  <2> QED
    BY <2>3 DEF Overtaken, LostRows, DepsPending
<1> HIDE DEF D, E
<1>10. Delivery!GiveUp(D)
  BY <1>2, <1>5, <1>7, <1>8 DEF Delivery!GiveUp
<1>11. late' \in {late, TRUE} /\ (~late' => ~Overtaken)
  BY <1>1, Zenon DEF CInv, TypeOK
<1>12. Delivery!RacedFor(D)
  BY <1>9, <1>11 DEF Delivery!RacedFor, Delivery!Ready
<1> QED
  BY <1>6, <1>10, <1>12 DEF Delivery!Next

LEMMA DeliveryStep == CInv /\ [Next]_vars => [Delivery!Next]_(Delivery!vars)
<1> SUFFICES ASSUME CInv, [Next]_vars PROVE [Delivery!Next]_(Delivery!vars)
  OBVIOUS
<1>1. CASE \E d \in Deployments : DeployMessage(d)
  <2>1. late' = late
    BY <1>1 DEF DeployMessage
  <2> QED
    BY <1>1, <2>1, DeployUnseen, UnseenStep
<1>2. CASE \E h \in Handlers : HandlerStep(h)
  BY <1>2, HandlerSeen
<1>3. CASE Scan \/ Plan \/ RollBack
  <2>1. UNCHANGED <<dep, depFailed, pending>>
    BY <1>3 DEF Scan, Plan, RollBack, depVars, resVars
  <2>2. late' = late \/ late' = (late \/ Overlooked) \/ late' = (late \/ Overtaken)
    BY <1>3 DEF Scan, Plan, RollBack
  <2>3. late' \in {late, TRUE}
    BY <2>2, Zenon DEF CInv, TypeOK
  <2> QED
    BY <2>1, <2>3, SameTables, UnseenStep
<1>4. CASE Apply
  BY <1>4, ApplySeen
<1>5. CASE (\E r \in Rows : Age(r)) \/ Crash \/ UNCHANGED vars
  <2>1. UNCHANGED <<dep, depFailed, pending, late>>
    BY <1>5 DEF Age, Crash, vars, depVars, resVars
  <2> QED
    BY <2>1, SameTables, UnseenStep
<1> QED
  BY <1>1, <1>2, <1>3, <1>4, <1>5 DEF Next, TimingStep

\* The content retriever does for the player what ContentDelivery promises, for
\* any deployments, resources, handlers and failures.
THEOREM Delivers == Spec => DeliverySpec
<1>1. Init => Delivery!Init
  BY DEF Init, Delivery!Init, DepsLoaded, DepsPending, DepsFailed
<1> QED
  BY <1>1, Invariant, DeliveryStep, PTL DEF Spec, DeliverySpec, Delivery!Spec

\* What ContentDelivery says of ready deployments, in its own terms.
LEMMA ReadyKept ==
    ASSUME [Delivery!Next]_(Delivery!vars), ~late'
    PROVE  Delivery!Ready \subseteq Delivery!Ready'
<1>1. ASSUME NEW d \in Deployments, Delivery!Load(d) \/ Delivery!LastResource(d)
      PROVE  Delivery!Ready \subseteq Delivery!Ready'
  BY <1>1 DEF Delivery!Load, Delivery!LastResource, Delivery!Ready
<1>2. ASSUME NEW D \in SUBSET (DepsLoaded \ DepsFailed),
             Delivery!GiveUp(D), Delivery!RacedFor(D)
      PROVE  Delivery!Ready \subseteq Delivery!Ready'
  BY <1>2 DEF Delivery!GiveUp, Delivery!RacedFor, Delivery!Ready
<1>3. CASE UNCHANGED Delivery!vars
  BY <1>3 DEF Delivery!vars, Delivery!Ready
<1> QED
  BY <1>1, <1>2, <1>3 DEF Delivery!Next

\* A deployment that may have been started stays one that may be played, up to
\* a round that gives up what was completed behind its back.
THEOREM StaysReady == Spec => ReadyStays
<1>1. \A d \in Deployments : Ready(d) <=> d \in Delivery!Ready
  BY DEF Ready, Delivery!Ready, DepsLoaded, DepsPending, DepsFailed
<1>2. \A d \in Deployments : Ready(d)' <=> d \in Delivery!Ready'
  BY DEF Ready, Delivery!Ready, DepsLoaded, DepsPending, DepsFailed
<1>3. CInv /\ [Next]_vars =>
        (~late' => \A d \in Deployments : Ready(d) => Ready(d)')
  BY <1>1, <1>2, DeliveryStep, ReadyKept
<1> QED
  BY <1>3, Invariant, PTL DEF Spec, ReadyStays

-----------------------------------------------------------------------------
\* When every checksum carries the size, as those the designer publishes do:
\* what the player may start has a file for each resource that is whole and
\* right, up to a round that comes too late and up to a deployment that counts
\* on a file no checksum has confirmed.
THEOREM ReadyToPlay ==
    ASSUME Sized = Resources
    PROVE  Spec => []PlayableUnlessRaced
<1>1. PInv /\ [Next]_vars => PInv'
  BY PStep
<1>2. ASSUME PInv PROVE PlayableUnlessRaced
  <2> SUFFICES ASSUME ~late, ~trusted, NEW d \in Deployments, Ready(d),
                      NEW k \in ResourcesOf[d]
               PROVE  Playable(k)
    BY DEF PlayableUnlessRaced
  <2>1. k \in Resources /\ Size(k) = Blocks
    BY ConstantsOK DEF Size
  <2>2. \A r \in res : r[1] \in Deployments
    BY <1>2 DEF PInv, CInv, TypeOK, Rows
  <2>3. \A r \in Candidates(k) : Right(r) \/ r \in pending \/ depFailed[r[1]]
    BY <1>2 DEF Candidates, PInv, DoneIsComplete, Complete
  <2>4. \E r \in res : r[2] = k /\ Complete(r)
    <3>1. CASE <<d, k>> \in res
      <4>1. <<d, k>> \notin pending /\ ~depFailed[d]
        BY DEF Ready
      <4> QED
        BY <1>2, <3>1, <4>1 DEF PInv, DoneIsComplete
    <3>2. CASE <<d, k>> \notin res
      BY <1>2, <3>2 DEF PInv, Provided, Ready
    <3> QED
      BY <3>1, <3>2
  <2>5. \E r \in Candidates(k) : Right(r)
    BY <2>1, <2>4 DEF Candidates, Complete
  <2> QED
    BY <2>3, <2>5 DEF Playable
<1> QED
  BY PInit, <1>1, <1>2, PTL DEF Spec


-----------------------------------------------------------------------------
(* The results of deploy actions, as far as ActionProtocol goes by them    *)
(* (DeployActionsUpdate): what a round found when it looked still holds    *)
(* when it commits, and ever after.                                        *)

\* The descriptor of d is there, and d was given up if the result says so.
Stands(d, result) ==
    result \in {"OK", "FAILED"} =>
        dep[d] = "loaded" /\ (result = "FAILED" => depFailed[d])

ResultsStand ==
    \A d \in Deployments : Stands(d, verdicts[d]) /\ Stands(d, action[d])

LEMMA ResultsStay ==
    ASSUME CInv, ResultsStand, NEW d \in Deployments,
           dep[d] = "loaded" => dep'[d] = "loaded",
           depFailed[d] => depFailed'[d],
           verdicts'[d] \in {verdicts[d], "NONE"},
           action'[d] \in {action[d], verdicts[d], "IN_PROGRESS"}
    PROVE  Stands(d, verdicts[d])' /\ Stands(d, action[d])'
BY Zenon DEF ResultsStand, Stands

LEMMA ResultsStep == CInv /\ ResultsStand /\ [Next]_vars => ResultsStand'
<1> SUFFICES ASSUME CInv, ResultsStand, [Next]_vars, NEW d \in Deployments
             PROVE  Stands(d, verdicts[d])' /\ Stands(d, action[d])'
  BY DEF ResultsStand
<1>1. ASSUME NEW c \in Deployments, DeployMessage(c)
      PROVE  Stands(d, verdicts[d])' /\ Stands(d, action[d])'
  <2>1. /\ dep' = [dep EXCEPT ![c] = IF @ = "absent" THEN "empty" ELSE @]
        /\ action' = [action EXCEPT ![c] = "IN_PROGRESS"]
        /\ UNCHANGED <<depFailed, verdicts>>
    BY <1>1 DEF DeployMessage, timingVars
  <2>2. /\ dep[d] = "loaded" => dep'[d] = "loaded"
        /\ action'[d] \in {action[d], "IN_PROGRESS"}
    BY <2>1 DEF CInv, TypeOK
  <2> QED
    BY <2>1, <2>2, ResultsStay
<1>2. ASSUME NEW h \in Handlers, HandlerStep(h)
      PROVE  Stands(d, verdicts[d])' /\ Stands(d, action[d])'
  <2>1. UNCHANGED <<depFailed, verdicts, action>>
    BY <1>2 DEF HandlerStep, Start, DescriptorLoads, DescriptorFails, Lookup,
       Create, CopyBlock, CopyCompleted, CopyFails, Finish, depVars, timingVars
  <2>2. dep' = dep \/ dep' = [dep EXCEPT ![job[h].d] = "loaded"]
    BY <1>2 DEF HandlerStep, Start, DescriptorLoads, DescriptorFails, Lookup,
       Create, CopyBlock, CopyCompleted, CopyFails, Finish, depVars
  <2>3. dep[d] = "loaded" => dep'[d] = "loaded"
    BY <2>2 DEF CInv, TypeOK
  <2> QED
    BY <2>1, <2>3, ResultsStay
<1>3. CASE Scan
  <2>1. /\ verdicts'[d] = IF action[d] = "IN_PROGRESS" /\ dep[d] = "loaded"
                          THEN IF depFailed[d] THEN "FAILED" ELSE "OK"
                          ELSE "NONE"
        /\ UNCHANGED <<dep, depFailed, action>>
    BY <1>3 DEF Scan, depVars
  <2>2. Stands(d, verdicts[d])'
    BY <2>1 DEF Stands
  <2>3. Stands(d, action[d])'
    BY <2>1 DEF ResultsStand, Stands
  <2> QED
    BY <2>2, <2>3
<1>4. CASE Plan
  <2>1. UNCHANGED <<dep, depFailed, verdicts, action>>
    BY <1>4 DEF Plan, depVars
  <2> QED
    BY <2>1, ResultsStay
<1>5. CASE Apply
  <2>1. /\ action'[d] \in {action[d], verdicts[d]}
        /\ depFailed' = [c \in Deployments |->
                            \/ depFailed[c] \/ c \in LostDeps
                            \/ \E r \in LostRows : r[1] = c]
        /\ dep' = dep /\ verdicts'[d] = "NONE"
    BY <1>5 DEF Apply, Asleep
  <2>2. depFailed[d] => depFailed'[d]
    BY <2>1, Zenon
  <2> QED
    BY <2>1, <2>2, ResultsStay
<1>6. CASE RollBack \/ Crash
  <2>1. UNCHANGED <<dep, depFailed, action>> /\ verdicts'[d] = "NONE"
    BY <1>6 DEF RollBack, Crash, Asleep, depVars
  <2> QED
    BY <2>1, ResultsStay
<1>7. CASE (\E r \in Rows : Age(r)) \/ UNCHANGED vars
  <2>1. UNCHANGED <<dep, depFailed, verdicts, action>>
    BY <1>7 DEF Age, vars, depVars, timingVars
  <2> QED
    BY <2>1, ResultsStay
<1> QED
  BY <1>1, <1>2, <1>3, <1>4, <1>5, <1>6, <1>7 DEF Next, TimingStep

\* A deploy action is OK or FAILED only when its descriptor is there, and
\* FAILED only when the deployment was given up, although a round reads the
\* status of a deployment long before it commits the result of the action
\* (TimingHandler.deployActionsUpdate).
THEOREM ResultsCorrect == Spec => []ResultsStand
<1>1. Init => ResultsStand
  BY DEF Init, ResultsStand, Stands
<1> QED
  BY <1>1, Invariant, ResultsStep, PTL DEF Spec

=============================================================================
