------------------------- MODULE SandboxRefinement -------------------------
(***************************************************************************)
(* The sandbox queue implements JobLifecycle, for any ids, attempts, jobs  *)
(* and ticks, when its callers leave a live tick alone and delay no job    *)
(* (Quiet).                                                                *)
(***************************************************************************)
EXTENDS SandboxQueueProofs

\* The abstract state.
StateOf(n) ==
  IF n \notin DOMAIN job THEN "none"
  ELSE IF job[n].state \in {"waiting", "delayed"} THEN "queued"
  ELSE IF job[n].state = "active" THEN "running"
  ELSE job[n].state

RunsOf(n) == IF n \in DOMAIN job THEN job[n].made ELSE 0
BudgetOf(n) == IF n \in DOMAIN job THEN job[n].attempts ELSE 0

State == [n \in 1..MaxJobs |-> StateOf(n)]
Runs == [n \in 1..MaxJobs |-> RunsOf(n)]
Budget == [n \in 1..MaxJobs |-> BudgetOf(n)]

\* The Map holds an object under its own id.
Keyed == \A i \in Ids : store[i] # None => job[store[i]].id = i

\* A tick is alone: no second one is live, and none will be armed.
AloneTick ==
  /\ delayTimers = {}
  /\ \A t \in Ticks : Live(t) => ~timer
  /\ \A t, u \in Ticks : Live(t) /\ Live(u) => t = u

\* What a live tick has still to run waits, and is listed once.
RestWaits ==
  \A t \in Ticks : Live(t) =>
    \A k, m \in DOMAIN tick[t].list :
      /\ tick[t].list[k] = tick[t].list[m] => k = m
      /\ (Running(t) /\ k = 1) \/ job[tick[t].list[k]].state = "waiting"

WithinBudget == \A n \in DOMAIN job : job[n].made <= job[n].attempts

Alone == Keyed /\ AloneTick /\ RestWaits /\ WithinBudget

-----------------------------------------------------------------------------
\* The actions of JobLifecycle over the abstract state.
LEMMA AbstractActions ==
  /\ Lifecycle!jlVars = <<State, Runs, Budget, stopped>>
  /\ Lifecycle!Init <=> /\ State = [n \in 1..MaxJobs |-> "none"]
                        /\ Runs = [n \in 1..MaxJobs |-> 0]
                        /\ Budget = [n \in 1..MaxJobs |-> 0]
                        /\ stopped = FALSE
BY DEF Lifecycle!jlVars, Lifecycle!Init, State, Runs, Budget, StateOf, RunsOf, BudgetOf

LEMMA AbstractEnqueue ==
  ASSUME NEW n \in 1..MaxJobs, NEW a \in Attempts,
         ~stopped, UNCHANGED stopped, State[n] = "none",
         State' = [State EXCEPT ![n] = "queued"],
         Budget' = [Budget EXCEPT ![n] = a],
         Runs' = Runs
  PROVE  Lifecycle!Next
<1>1. Lifecycle!Enqueue(n, a)
  BY DEF Lifecycle!Enqueue, State, Runs, Budget, StateOf, RunsOf, BudgetOf
<1> QED
  BY <1>1 DEF Lifecycle!Next

LEMMA AbstractStart ==
  ASSUME NEW n \in 1..MaxJobs,
         ~stopped, UNCHANGED stopped,
         State[n] = "queued", Runs[n] < Budget[n],
         \A k \in 1..MaxJobs : State[k] # "running",
         State' = [State EXCEPT ![n] = "running"],
         Runs' = [Runs EXCEPT ![n] = Runs[n] + 1],
         Budget' = Budget
  PROVE  Lifecycle!Next
<1>1. Lifecycle!Start(n)
  BY DEF Lifecycle!Start, State, Runs, Budget, StateOf, RunsOf, BudgetOf
<1> QED
  BY <1>1 DEF Lifecycle!Next

LEMMA AbstractFinish ==
  ASSUME NEW n \in 1..MaxJobs, UNCHANGED stopped,
         State[n] = "running",
         \/ State' = [State EXCEPT ![n] = "completed"]
         \/ Runs[n] < Budget[n] /\ State' = [State EXCEPT ![n] = "queued"]
         \/ Runs[n] = Budget[n] /\ State' = [State EXCEPT ![n] = "failed"],
         Runs' = Runs,
         Budget' = Budget
  PROVE  Lifecycle!Next
<1>1. Lifecycle!Finish(n)
  BY DEF Lifecycle!Finish, State, Runs, Budget, StateOf, RunsOf, BudgetOf
<1> QED
  BY <1>1 DEF Lifecycle!Next

LEMMA AbstractHalt ==
  ASSUME stopped' = TRUE, State' = State, Runs' = Runs, Budget' = Budget
  PROVE  Lifecycle!Next
<1>1. Lifecycle!Halt
  BY DEF Lifecycle!Halt, State, Runs, Budget, StateOf, RunsOf, BudgetOf
<1> QED
  BY <1>1 DEF Lifecycle!Next

LEMMA AbstractStutter ==
  ASSUME UNCHANGED stopped, State' = State, Runs' = Runs, Budget' = Budget
  PROVE  UNCHANGED Lifecycle!jlVars
BY DEF Lifecycle!jlVars, State, Runs, Budget, StateOf, RunsOf, BudgetOf

\* A step that touches one object moves the abstract state of that job.
LEMMA OneObject ==
  ASSUME NEW n \in 1..MaxJobs,
         \A m \in 1..MaxJobs : m # n =>
           /\ m \in DOMAIN job' <=> m \in DOMAIN job
           /\ m \in DOMAIN job => /\ job'[m].state = job[m].state
                                  /\ job'[m].made = job[m].made
                                  /\ job'[m].attempts = job[m].attempts
  PROVE  /\ State' = [State EXCEPT ![n] = StateOf(n)']
         /\ Runs' = [Runs EXCEPT ![n] = RunsOf(n)']
         /\ Budget' = [Budget EXCEPT ![n] = BudgetOf(n)']
<1>1. \A m \in 1..MaxJobs : m # n => /\ StateOf(m)' = StateOf(m)
                                     /\ RunsOf(m)' = RunsOf(m)
                                     /\ BudgetOf(m)' = BudgetOf(m)
  BY DEF StateOf, RunsOf, BudgetOf
<1> QED
  BY <1>1 DEF State, Runs, Budget

LEMMA NoObject ==
  ASSUME DOMAIN job' = DOMAIN job,
         \A m \in DOMAIN job : /\ job'[m].state = job[m].state
                               /\ job'[m].made = job[m].made
                               /\ job'[m].attempts = job[m].attempts
  PROVE  State' = State /\ Runs' = Runs /\ Budget' = Budget
BY DEF State, Runs, Budget, StateOf, RunsOf, BudgetOf
-----------------------------------------------------------------------------
LEMMA InitAlone == Init => Alone /\ Lifecycle!Init
<1> SUFFICES ASSUME Init PROVE Alone /\ Lifecycle!Init
  OBVIOUS
<1>1. \A t \in Ticks : ~Live(t)
  BY DEF Init, Live, Idle
<1>2. job = <<>> /\ DOMAIN job = {}
  BY EmptySeq DEF Init
<1>3. Alone
  BY <1>1, <1>2 DEF Init, Alone, Keyed, AloneTick, RestWaits, WithinBudget
<1>4. Lifecycle!Init
  BY <1>2, AbstractActions DEF Init, State, Runs, Budget, StateOf, RunsOf, BudgetOf
<1> QED
  BY <1>3, <1>4

\* The ticks keep their part of Alone while callers touch no object that
\* waits, and the timer is not armed next to one of them.
LEMMA TicksStayAlone ==
  ASSUME IInv, Alone, UNCHANGED <<tick, delayTimers>>,
         timer' => timer \/ \A t \in Ticks : ~Live(t),
         \A m \in DOMAIN job : m \in DOMAIN job' /\ job'[m].state = job[m].state
  PROVE  AloneTick' /\ RestWaits'
<1>1. \A t \in Ticks : /\ Live(t)' <=> Live(t)
                       /\ Running(t)' <=> Running(t)
  BY DEF Live, Running
<1>2. AloneTick'
  BY <1>1 DEF Alone, AloneTick
<1>3. \A t \in Ticks : \A k \in DOMAIN tick[t].list : tick[t].list[k] \in DOMAIN job
  BY ElementOfSeq, LenProperties DEF IInv, TypeOK, TickRecord
<1>4. RestWaits'
  BY <1>1, <1>3 DEF Alone, RestWaits
<1> QED
  BY <1>2, <1>4

\* An object is counted by numbers.
LEMMA ObjectTypes ==
  ASSUME TypeOK, NEW n \in DOMAIN job
  PROVE  /\ n \in 1..MaxJobs
         /\ job[n] \in JobRecord
         /\ job[n].id \in Ids
         /\ job[n].made \in Nat
         /\ job[n].attempts \in Nat \ {0}
<1>1. job[n] \in JobRecord
  BY ElementOfSeq, LenProperties DEF TypeOK
<1>2. n \in 1..MaxJobs
  BY LenProperties, SandboxAssumption DEF TypeOK, SandboxAssumption
<1> QED
  BY <1>1, <1>2, SandboxAssumption DEF JobRecord, SandboxAssumption

LEMMA AddJobImplements ==
  ASSUME Quiet, IInv, Alone, NEW i \in Ids, NEW a \in Attempts, NEW d \in BOOLEAN,
         AddJob(i, a, d)
  PROVE  Alone' /\ Lifecycle!Next
<1> DEFINE new == [id |-> i, attempts |-> a, made |-> 0, due |-> ~d,
                   state |-> IF d THEN "delayed" ELSE "waiting"]
<1>0. PICK n : n = Len(job) + 1
  OBVIOUS
<1>1. /\ ~stopped
      /\ ~d
      /\ \A t \in Ticks : ~Live(t)
      /\ Len(job) < MaxJobs
      /\ job' = Append(job, new)
      /\ store' = [store EXCEPT ![i] = n]
      /\ UNCHANGED <<delayTimers, stopped, tick>>
  BY <1>0 DEF AddJob, CallerMayAct
<1>2. /\ new.id = i
      /\ new.state = "waiting"
      /\ new.made = 0
      /\ new.attempts = a
      /\ new \in JobRecord
  BY <1>1, SandboxAssumption DEF JobRecord, Pending, SandboxAssumption
<1> HIDE DEF new
<1>3. /\ DOMAIN job = 1..Len(job)
      /\ Len(job) \in Nat
      /\ DOMAIN job' = 1..n
      /\ job'[n] = new
      /\ \A m \in DOMAIN job : job'[m] = job[m]
  BY <1>0, <1>1, <1>2, AppendProperties, LenProperties DEF IInv, TypeOK
<1>4. /\ n \in 1..MaxJobs
      /\ n \notin DOMAIN job
      /\ n \in DOMAIN job'
      /\ \A m \in DOMAIN job : m \in DOMAIN job'
      /\ \A m : m # n => (m \in DOMAIN job' <=> m \in DOMAIN job)
  BY <1>0, <1>1, <1>3, SandboxAssumption DEF SandboxAssumption
<1>5. Alone'
  <2>1. \A j \in Ids : store[j] # None => store[j] \in DOMAIN job
    BY DEF IInv, TypeOK
  <2>2. store' \in [Ids -> {None} \cup DOMAIN job'] /\ \A j \in Ids : j # i => store'[j] = store[j]
    BY <1>1, <1>4 DEF IInv, TypeOK
  <2>3. store'[i] = n
    BY <1>1 DEF IInv, TypeOK
  <2>4. Keyed'
    BY <1>2, <1>3, <2>1, <2>2, <2>3 DEF Alone, Keyed
  <2>5. WithinBudget'
    BY <1>2, <1>3, <1>4, SandboxAssumption DEF Alone, WithinBudget, SandboxAssumption
  <2>6. AloneTick' /\ RestWaits'
    BY <1>1, <1>3, <1>4, TicksStayAlone
  <2> QED
    BY <2>4, <2>5, <2>6 DEF Alone
<1>6. /\ StateOf(n) = "none" /\ StateOf(n)' = "queued"
      /\ RunsOf(n) = 0 /\ RunsOf(n)' = 0
      /\ BudgetOf(n)' = a
  BY <1>2, <1>3, <1>4 DEF StateOf, RunsOf, BudgetOf
<1>7. /\ State' = [State EXCEPT ![n] = "queued"]
      /\ Runs' = [Runs EXCEPT ![n] = 0]
      /\ Budget' = [Budget EXCEPT ![n] = a]
  BY <1>3, <1>4, <1>6, OneObject
<1>8. State[n] = "none" /\ Runs' = Runs
  BY <1>4, <1>6, <1>7 DEF State, Runs
<1> QED
  BY <1>1, <1>4, <1>5, <1>7, <1>8, AbstractEnqueue

\* Of runJob() for the first of the jobs `list`, called by the only live tick.
LEMMA RunJobImplements ==
  ASSUME IInv, IInv', Alone, ~stopped, UNCHANGED <<store, delayTimers, stopped>>, ~timer',
         NEW t \in Ticks, ~Running(t), \A u \in Ticks : Live(u) => u = t,
         NEW list \in Seq(DOMAIN job), list # <<>>,
         \A k, m \in DOMAIN list : /\ list[k] = list[m] => k = m
                                   /\ job[list[k]].state = "waiting",
         RunJob(t, list)
  PROVE  Alone' /\ [Lifecycle!Next]_(Lifecycle!jlVars)
<1> DEFINE n == Head(list)
<1>1. /\ n \in DOMAIN job
      /\ n = list[1]
      /\ 1 \in DOMAIN list
      /\ \A k \in DOMAIN Tail(list) : k + 1 \in DOMAIN list /\ Tail(list)[k] = list[k + 1]
  BY ListHeadTail
<1>2. /\ n \in 1..MaxJobs
      /\ job[n].made \in Nat
      /\ job[n].attempts \in Nat
      /\ job[n] \in JobRecord
  BY <1>1, ObjectTypes DEF IInv
<1>3. \A m \in DOMAIN job : job[m].state # "active"
  BY DEF IInv, OneRunPerId, Live, Running
<1>4. job[n].state = "waiting" /\ job[n].made < job[n].attempts
  BY <1>1 DEF IInv, RetriesAreCounted
<1>5. \A k \in DOMAIN list : list[k] \in DOMAIN job
  BY ElementOfSeq, LenProperties
<1>6. CASE MayRun(n)
  <2> DEFINE r == [job[n] EXCEPT !.state = "active", !.made = @ + 1]
  <2>1. /\ job' = [job EXCEPT ![n] = r]
        /\ tick' = [tick EXCEPT ![t] = [at |-> "running", list |-> list]]
    BY ZenonT(60), <1>6 DEF RunJob
  <2>2. /\ r.id = job[n].id
        /\ r.state = "active"
        /\ r.made = job[n].made + 1
        /\ r.attempts = job[n].attempts
    BY <1>2 DEF JobRecord
  <2> HIDE DEF r
  <2>3. /\ DOMAIN job' = DOMAIN job
        /\ job'[n] = r
        /\ \A m \in DOMAIN job : m # n => job'[m] = job[m]
    BY <1>1, <2>1
  <2>4. /\ \A u \in Ticks : u # t => tick'[u] = tick[u]
        /\ tick'[t] = [at |-> "running", list |-> list]
    BY <2>1 DEF IInv, TypeOK
  <2>5. /\ \A u \in Ticks : Live(u)' => u = t
        /\ Running(t)'
    BY <2>4 DEF Live, Running
  <2>6. AloneTick'
    BY <2>5 DEF Alone, AloneTick
  <2>7. RestWaits'
    <3> SUFFICES ASSUME NEW k \in DOMAIN list, NEW m \in DOMAIN list
                 PROVE  /\ list[k] = list[m] => k = m
                        /\ k = 1 \/ job'[list[k]].state = "waiting"
      BY <2>4, <2>5 DEF RestWaits
    <3>1. k # 1 => list[k] # n
      BY <1>1
    <3> QED
      BY <3>1, <1>5, <2>3
  <2>8. Keyed' /\ WithinBudget'
    <3>1. Keyed'
      BY <2>2, <2>3 DEF IInv, TypeOK, Alone, Keyed
    <3>2. WithinBudget'
      BY <1>2, <1>4, <2>2, <2>3 DEF Alone, WithinBudget
    <3> QED
      BY <3>1, <3>2
  <2>9. /\ StateOf(n) = "queued" /\ StateOf(n)' = "running"
        /\ RunsOf(n) = job[n].made /\ RunsOf(n)' = job[n].made + 1
        /\ BudgetOf(n) = job[n].attempts /\ BudgetOf(n)' = job[n].attempts
    BY <1>1, <1>4, <2>2, <2>3 DEF StateOf, RunsOf, BudgetOf
  <2>10. /\ State' = [State EXCEPT ![n] = "running"]
         /\ Runs' = [Runs EXCEPT ![n] = job[n].made + 1]
         /\ Budget' = [Budget EXCEPT ![n] = job[n].attempts]
    BY <1>2, <2>3, <2>9, OneObject
  <2>11. /\ State[n] = "queued"
         /\ Runs[n] = job[n].made
         /\ Budget[n] = job[n].attempts
         /\ Budget' = Budget
    BY <1>2, <2>9, <2>10 DEF State, Runs, Budget
  <2>12. \A k \in 1..MaxJobs : State[k] # "running"
    <3> SUFFICES ASSUME NEW k \in 1..MaxJobs PROVE StateOf(k) # "running"
      BY DEF State
    <3>1. k \in DOMAIN job => job[k] \in JobRecord
      BY ObjectTypes DEF IInv
    <3>2. k \in DOMAIN job => job[k].state \in Pending \cup Terminal
      BY <3>1 DEF JobRecord
    <3> QED
      BY <1>3, <3>2 DEF StateOf, Pending, Terminal
  <2>13. Runs[n] < Budget[n]
    BY <1>4, <2>11
  <2>14. Lifecycle!Next
    BY <1>2, <2>10, <2>11, <2>12, <2>13, AbstractStart
  <2> QED
    BY <2>6, <2>7, <2>8, <2>14 DEF Alone
<1>7. CASE ~MayRun(n)
  <2>1. /\ tick' = [tick EXCEPT ![t] = [at |-> "resumed", list |-> Tail(list)]]
        /\ job' = job
    BY <1>7 DEF RunJob
  <2>2. /\ \A u \in Ticks : u # t => tick'[u] = tick[u]
        /\ tick'[t] = [at |-> "resumed", list |-> Tail(list)]
    BY <2>1 DEF IInv, TypeOK
  <2>3. /\ \A u \in Ticks : Live(u)' => u = t
        /\ ~Running(t)'
    BY <2>2 DEF Live, Running
  <2>4. AloneTick'
    BY <2>3 DEF Alone, AloneTick
  <2>5. RestWaits'
    <3>1. PICK rest : rest = Tail(list)
      OBVIOUS
    <3>2. rest \in Seq(DOMAIN job)
      BY <3>1, ListHeadTail
    <3>3. ASSUME NEW k \in DOMAIN rest, NEW m \in DOMAIN rest
          PROVE  /\ rest[k] = rest[m] => k = m
                 /\ job'[rest[k]].state = "waiting"
      <4>1. k \in Nat /\ m \in Nat
        BY <3>2, LenProperties
      <4> QED
        BY <3>1, <4>1, <1>1, <2>1
    <3>4. tick'[t].list = rest
      BY <2>2, <3>1
    <3> QED
      BY <2>3, <3>3, <3>4 DEF RestWaits
  <2>6. Keyed' /\ WithinBudget'
    BY <2>1 DEF Alone, Keyed, WithinBudget
  <2>7. UNCHANGED Lifecycle!jlVars
    BY <2>1, NoObject, AbstractStutter
  <2> QED
    BY <2>4, <2>5, <2>6, <2>7 DEF Alone
<1> QED
  BY <1>6, <1>7

\* A list taken from the Map names each object once.
LEMMA TakenOnce ==
  ASSUME IInv, Keyed, NEW list \in RunnableLists
  PROVE  \A k, m \in DOMAIN list : /\ list[k] = list[m] => k = m
                                   /\ job[list[k]].state = "waiting"
<1>1. PICK f \in SortedIds : list = [k \in DOMAIN f |-> store[f[k]]]
  BY DEF RunnableLists
<1>2. DOMAIN list = DOMAIN f /\ \A k \in DOMAIN f : list[k] = store[f[k]]
  BY <1>1
<1> DEFINE size == Cardinality(RunnableIds)
<1>3. RunnableIds \subseteq Ids /\ IsFiniteSet(Ids) /\ Ids \subseteq Nat
  BY SandboxAssumption DEF RunnableIds, SandboxAssumption
<1>4. size \in Nat
  BY <1>3, FS_Subset, FS_CardinalityType
<1> HIDE DEF size
<1>5. /\ f \in [1..size -> RunnableIds]
      /\ \A k, m \in 1..size : k < m => f[k] < f[m]
  BY DEF SortedIds, size
<1> SUFFICES ASSUME NEW k \in 1..size, NEW m \in 1..size
             PROVE  /\ list[k] = list[m] => k = m
                    /\ job[list[k]].state = "waiting"
  BY <1>2, <1>5
<1>6. /\ f[k] \in Ids /\ f[m] \in Ids
      /\ store[f[k]] # None /\ store[f[m]] # None
      /\ job[store[f[k]]].state = "waiting"
  BY <1>5 DEF RunnableIds, IsRunnable
<1>7. list[k] = list[m] => f[k] = f[m]
  BY <1>2, <1>5, <1>6 DEF Keyed
<1>8. f[k] = f[m] => k = m
  <2>1. f[k] \in Nat /\ f[m] \in Nat
    BY <1>3, <1>6
  <2>2. k # m => k < m \/ m < k
    BY <1>4
  <2>3. k # m => f[k] < f[m] \/ f[m] < f[k]
    BY <1>5, <2>2
  <2> QED
    BY <2>1, <2>3
<1> QED
  BY <1>2, <1>5, <1>6, <1>7, <1>8

LEMMA TimerFiresImplements ==
  ASSUME IInv, IInv', Alone, NEW t \in Ticks, TimerFires(t)
  PROVE  Alone' /\ [Lifecycle!Next]_(Lifecycle!jlVars)
<1>1. PICK list \in RunnableLists : RunJob(t, list)
  BY DEF TimerFires
<1>2. /\ timer /\ timer' = FALSE
      /\ RunnableIds # {}
      /\ UNCHANGED <<store, delayTimers, stopped>>
  BY DEF TimerFires, TimerAfterFiring
<1>3. \A u \in Ticks : ~Live(u)
  BY <1>2 DEF Alone, AloneTick
<1>4. ~stopped /\ ~Running(t)
  BY <1>2, <1>3 DEF IInv, StoppedIsUnarmed, Live, Running
<1>5. list \in Seq(DOMAIN job) /\ list # <<>>
  BY <1>2, TakenList
<1>6. \A k, m \in DOMAIN list : /\ list[k] = list[m] => k = m
                                /\ job[list[k]].state = "waiting"
  BY TakenOnce DEF Alone
<1> QED
  BY <1>1, <1>2, <1>3, <1>4, <1>5, <1>6, RunJobImplements

LEMMA NextJobImplements ==
  ASSUME IInv, IInv', Alone, NEW t \in Ticks, NextJob(t)
  PROVE  Alone' /\ [Lifecycle!Next]_(Lifecycle!jlVars)
<1>1. PICK list : list = tick[t].list
  OBVIOUS
<1>2. /\ tick[t].at = "resumed"
      /\ list # <<>>
      /\ ~stopped
      /\ RunJob(t, list)
      /\ UNCHANGED <<store, delayTimers, stopped, timer>>
  BY <1>1 DEF NextJob, LoopGoesOn
<1>3. Live(t) /\ ~Running(t)
  BY <1>2 DEF Live, Running
<1>4. /\ \A u \in Ticks : Live(u) => u = t
      /\ ~timer'
  BY <1>2, <1>3 DEF Alone, AloneTick
<1>5. list \in Seq(DOMAIN job)
  BY <1>1 DEF IInv, TypeOK, TickRecord
<1>6. \A k, m \in DOMAIN list : /\ list[k] = list[m] => k = m
                                /\ job[list[k]].state = "waiting"
  BY <1>1, <1>3 DEF Alone, RestWaits
<1> QED
  BY <1>2, <1>3, <1>4, <1>5, <1>6, RunJobImplements

LEMMA ProcessorSettlesImplements ==
  ASSUME IInv, IInv', Alone, NEW t \in Ticks, NEW ok \in BOOLEAN,
         ProcessorSettles(t, ok)
  PROVE  Alone' /\ Lifecycle!Next
<1>1. PICK list : list = tick[t].list
  OBVIOUS
<1>2. PICK n : n = Head(list)
  OBVIOUS
<1>3. PICK rest : rest = Tail(list)
  OBVIOUS
<1>4. /\ Running(t) /\ Live(t)
      /\ tick' = [tick EXCEPT ![t] = [at |-> "resumed", list |-> rest]]
      /\ UNCHANGED <<store, delayTimers, stopped, timer>>
  BY <1>1, <1>3 DEF ProcessorSettles, Running, Live
<1>5. list \in Seq(DOMAIN job) /\ list # <<>>
  BY <1>1, <1>4 DEF IInv, TypeOK, TickRecord, RunningHasJob
<1>6. /\ n \in DOMAIN job
      /\ n = list[1]
      /\ 1 \in DOMAIN list
      /\ rest \in Seq(DOMAIN job)
      /\ \A k \in DOMAIN rest : k + 1 \in DOMAIN list /\ rest[k] = list[k + 1]
  BY <1>2, <1>3, <1>5, ListHeadTail
<1>7. \A k \in DOMAIN rest : k \in Nat \ {0} /\ rest[k] \in DOMAIN job
  BY <1>6, ElementOfSeq, LenProperties
<1>8. /\ n \in 1..MaxJobs
      /\ job[n].made \in Nat
      /\ job[n].attempts \in Nat
      /\ job[n] \in JobRecord
  BY <1>6, ObjectTypes DEF IInv
<1>9. job[n].state = "active"
  BY <1>1, <1>2, <1>4, <1>6 DEF IInv, OneRunPerId, Current
<1>10. PICK r \in JobRecord :
         /\ job' = [job EXCEPT ![n] = r]
         /\ r.id = job[n].id
         /\ r.made = job[n].made
         /\ r.attempts = job[n].attempts
         /\ \/ r.state = "completed"
            \/ r.state = "waiting" /\ job[n].made < job[n].attempts
            \/ r.state = "failed" /\ ~(job[n].made < job[n].attempts)
  <2>1. {"completed", "waiting", "failed"} \subseteq Pending \cup Terminal
    BY DEF Pending, Terminal
  <2>2. n = Current(t)
    BY <1>1, <1>2 DEF Current
  <2>3. CASE ok
    <3> DEFINE r == [job[n] EXCEPT !.state = "completed"]
    <3>1. job' = [job EXCEPT ![n] = r]
      BY <2>2, <2>3 DEF ProcessorSettles
    <3>2. r \in JobRecord
      BY <1>8, <2>1 DEF JobRecord
    <3>3. /\ r.id = job[n].id /\ r.state = "completed"
          /\ r.made = job[n].made /\ r.attempts = job[n].attempts
      BY <1>8 DEF JobRecord
    <3> QED
      BY <3>1, <3>2, <3>3
  <2>4. CASE ~ok /\ HasRetry(n)
    <3> DEFINE r == [job[n] EXCEPT !.state = "waiting", !.due = TRUE]
    <3>1. job' = [job EXCEPT ![n] = r]
      BY <2>2, <2>4 DEF ProcessorSettles
    <3>2. r \in JobRecord
      BY <1>8, <2>1 DEF JobRecord
    <3>3. /\ r.id = job[n].id /\ r.state = "waiting"
          /\ r.made = job[n].made /\ r.attempts = job[n].attempts
      BY <1>8 DEF JobRecord
    <3> QED
      BY <3>1, <3>2, <3>3, <2>4 DEF HasRetry
  <2>5. CASE ~ok /\ ~HasRetry(n)
    <3> DEFINE r == [job[n] EXCEPT !.state = "failed"]
    <3>1. job' = [job EXCEPT ![n] = r]
      BY <2>2, <2>5 DEF ProcessorSettles
    <3>2. r \in JobRecord
      BY <1>8, <2>1 DEF JobRecord
    <3>3. /\ r.id = job[n].id /\ r.state = "failed"
          /\ r.made = job[n].made /\ r.attempts = job[n].attempts
      BY <1>8 DEF JobRecord
    <3> QED
      BY <3>1, <3>2, <3>3, <2>5 DEF HasRetry
  <2> QED
    BY <2>3, <2>4, <2>5
<1>11. /\ DOMAIN job' = DOMAIN job
       /\ job'[n] = r
       /\ \A m \in DOMAIN job : m # n => job'[m] = job[m]
  BY <1>6, <1>10
<1>12. /\ \A u \in Ticks : u # t => tick'[u] = tick[u]
       /\ tick'[t] = [at |-> "resumed", list |-> rest]
  BY <1>4 DEF IInv, TypeOK
<1>13. /\ \A u \in Ticks : Live(u)' => u = t
       /\ ~Running(t)'
       /\ ~timer'
  BY <1>4, <1>12 DEF Alone, AloneTick, Live, Running
<1>14. AloneTick'
  BY <1>4, <1>13 DEF Alone, AloneTick
<1>15. RestWaits'
  <2> SUFFICES ASSUME NEW k \in DOMAIN rest, NEW m \in DOMAIN rest
               PROVE  /\ rest[k] = rest[m] => k = m
                      /\ job'[rest[k]].state = "waiting"
    BY <1>12, <1>13 DEF RestWaits
  <2>1. \A i, j \in DOMAIN list : /\ list[i] = list[j] => i = j
                                  /\ i # 1 => job[list[i]].state = "waiting"
    BY <1>1, <1>4 DEF Alone, RestWaits
  <2>2. rest[k] # n /\ job[rest[k]].state = "waiting"
    BY <2>1, <1>6, <1>7
  <2>3. rest[k] = rest[m] => k = m
    BY <2>1, <1>6, <1>7
  <2> QED
    BY <2>2, <2>3, <1>7, <1>11
<1>16. Keyed'
  BY <1>4, <1>10, <1>11 DEF IInv, TypeOK, Alone, Keyed
<1>17. WithinBudget'
  BY <1>10, <1>11 DEF Alone, WithinBudget
<1>18. /\ StateOf(n) = "running"
       /\ StateOf(n)' = IF r.state = "waiting" THEN "queued" ELSE r.state
       /\ RunsOf(n) = job[n].made /\ RunsOf(n)' = job[n].made
       /\ BudgetOf(n) = job[n].attempts /\ BudgetOf(n)' = job[n].attempts
  BY <1>6, <1>9, <1>10, <1>11 DEF StateOf, RunsOf, BudgetOf
<1>19. /\ State' = [State EXCEPT ![n] = IF r.state = "waiting" THEN "queued" ELSE r.state]
       /\ Runs' = [Runs EXCEPT ![n] = job[n].made]
       /\ Budget' = [Budget EXCEPT ![n] = job[n].attempts]
  BY <1>8, <1>11, <1>18, OneObject
<1>20. /\ State[n] = "running"
       /\ Runs[n] = job[n].made /\ Runs' = Runs
       /\ Budget[n] = job[n].attempts /\ Budget' = Budget
  BY <1>8, <1>18, <1>19 DEF State, Runs, Budget
<1>21. \/ State' = [State EXCEPT ![n] = "completed"]
       \/ Runs[n] < Budget[n] /\ State' = [State EXCEPT ![n] = "queued"]
       \/ Runs[n] = Budget[n] /\ State' = [State EXCEPT ![n] = "failed"]
  <2>1. job[n].made <= job[n].attempts
    BY <1>6 DEF Alone, WithinBudget
  <2>2. CASE r.state = "completed"
    BY <2>2, <1>19
  <2>3. CASE r.state = "waiting" /\ job[n].made < job[n].attempts
    BY <2>3, <1>19, <1>20
  <2>4. CASE r.state = "failed" /\ ~(job[n].made < job[n].attempts)
    <3>1. job[n].made = job[n].attempts
      BY <2>1, <2>4, <1>8
    <3> QED
      BY <2>4, <3>1, <1>19, <1>20
  <2> QED
    BY <2>2, <2>3, <2>4, <1>10
<1>22. Lifecycle!Next
  BY <1>4, <1>8, <1>20, <1>21, AbstractFinish
<1> QED
  BY <1>14, <1>15, <1>16, <1>17, <1>22 DEF Alone

-----------------------------------------------------------------------------
\* The steps that JobLifecycle does not see.

LEMMA TickEndsImplements ==
  ASSUME IInv, Alone, NEW t \in Ticks, TickEnds(t)
  PROVE  Alone' /\ UNCHANGED Lifecycle!jlVars
<1>1. /\ tick' = [tick EXCEPT ![t] = Idle]
      /\ UNCHANGED <<job, store, delayTimers, stopped>>
      /\ Live(t)
  BY DEF TickEnds, Live
<1>2. \A u \in Ticks : ~Live(u)'
  <2>1. \A u \in Ticks : u # t => tick'[u] = tick[u]
    BY <1>1 DEF IInv, TypeOK
  <2>2. tick'[t] = Idle
    BY <1>1 DEF IInv, TypeOK
  <2> QED
    BY <1>1, <2>1, <2>2 DEF Alone, AloneTick, Live, Idle
<1>3. Alone'
  BY <1>1, <1>2 DEF Alone, Keyed, AloneTick, RestWaits, WithinBudget
<1> QED
  BY <1>1, <1>3, NoObject, AbstractStutter

LEMMA OthersImplement ==
  ASSUME Quiet, IInv, Alone,
         \/ Process
         \/ TimerFindsNothing
         \/ \E n \in DOMAIN job : DelayTimerFires(n) \/ BecomesDue(n)
  PROVE  Alone' /\ UNCHANGED Lifecycle!jlVars
<1>1. CASE Process \/ TimerFindsNothing
  <2>1. /\ UNCHANGED <<job, store, delayTimers, stopped, tick>>
        /\ timer' => timer \/ \A t \in Ticks : ~Live(t)
    BY <1>1 DEF Process, TimerFindsNothing, CallerMayAct
  <2>2. AloneTick' /\ RestWaits'
    BY <2>1, TicksStayAlone
  <2>3. Keyed' /\ WithinBudget'
    BY <2>1 DEF Alone, Keyed, WithinBudget
  <2> QED
    BY <2>1, <2>2, <2>3, NoObject, AbstractStutter DEF Alone
<1>2. ASSUME NEW n \in DOMAIN job, DelayTimerFires(n)
      PROVE  FALSE
  BY <1>2 DEF DelayTimerFires, Alone, AloneTick
<1>3. ASSUME NEW n \in DOMAIN job, BecomesDue(n)
      PROVE  Alone' /\ UNCHANGED Lifecycle!jlVars
  <2> DEFINE r == [job[n] EXCEPT !.due = TRUE]
  <2>1. /\ job' = [job EXCEPT ![n] = r]
        /\ UNCHANGED <<store, delayTimers, stopped, timer, tick>>
    BY <1>3 DEF BecomesDue
  <2>2. job[n] \in JobRecord
    BY ObjectTypes DEF IInv
  <2>3. /\ r.id = job[n].id /\ r.state = job[n].state
        /\ r.made = job[n].made /\ r.attempts = job[n].attempts
    BY <2>2 DEF JobRecord
  <2> HIDE DEF r
  <2>4. /\ DOMAIN job' = DOMAIN job
        /\ \A m \in DOMAIN job : /\ job'[m].id = job[m].id
                                 /\ job'[m].state = job[m].state
                                 /\ job'[m].made = job[m].made
                                 /\ job'[m].attempts = job[m].attempts
    BY <2>1, <2>3
  <2>5. AloneTick' /\ RestWaits'
    BY <2>1, <2>4, TicksStayAlone
  <2>6. Keyed'
    BY <2>1, <2>4 DEF IInv, TypeOK, Alone, Keyed
  <2>7. WithinBudget'
    BY <2>4 DEF Alone, WithinBudget
  <2> QED
    BY <2>1, <2>4, <2>5, <2>6, <2>7, NoObject, AbstractStutter DEF Alone
<1> QED
  BY <1>1, <1>2, <1>3

LEMMA StopImplements ==
  ASSUME IInv, Alone, Stop
  PROVE  Alone' /\ Lifecycle!Next
<1>1. /\ stopped' = TRUE
      /\ timer' = FALSE
      /\ store' = [i \in Ids |-> None]
      /\ UNCHANGED <<job, delayTimers, tick>>
  BY DEF Stop
<1>2. AloneTick' /\ RestWaits'
  BY <1>1, TicksStayAlone
<1>3. Keyed' /\ WithinBudget'
  BY <1>1 DEF Alone, Keyed, WithinBudget
<1> QED
  BY <1>1, <1>2, <1>3, NoObject, AbstractHalt DEF Alone

LEMMA NextImplements ==
  ASSUME Quiet, IInv, IInv', Alone, [Next]_vars
  PROVE  Alone' /\ [Lifecycle!Next]_(Lifecycle!jlVars)
<1>1. ASSUME NEW i \in Ids, NEW a \in Attempts, NEW d \in BOOLEAN, AddJob(i, a, d)
      PROVE  Alone' /\ Lifecycle!Next
  BY <1>1, AddJobImplements
<1>2. CASE TimerStep
  BY <1>2, OthersImplement, TimerFiresImplements DEF TimerStep
<1>3. ASSUME NEW t \in Ticks, TickStep(t)
      PROVE  Alone' /\ [Lifecycle!Next]_(Lifecycle!jlVars)
  BY <1>3, ProcessorSettlesImplements, NextJobImplements, TickEndsImplements DEF TickStep
<1>4. CASE Stop
  BY <1>4, StopImplements
<1>5. CASE Process \/ \E n \in DOMAIN job : DelayTimerFires(n) \/ BecomesDue(n)
  BY <1>5, OthersImplement
<1>6. CASE UNCHANGED vars
  <2>1. UNCHANGED <<job, store, delayTimers, stopped, timer, tick>>
    BY <1>6 DEF vars
  <2>2. AloneTick' /\ RestWaits'
    BY <2>1, TicksStayAlone
  <2>3. Keyed' /\ WithinBudget'
    BY <2>1 DEF Alone, Keyed, WithinBudget
  <2> QED
    BY <2>1, <2>2, <2>3, NoObject, AbstractStutter DEF Alone
<1> QED
  BY <1>1, <1>2, <1>3, <1>4, <1>5, <1>6 DEF Next

\* With quiet callers the sandbox queue is a worker of concurrency 1 that runs
\* a job at most `attempts` times and never again once it has settled: each of
\* its steps is a step of JobLifecycle or leaves the jobs' states alone.
THEOREM SpecImplementsLifecycle ==
  ASSUME Quiet
  PROVE  Spec => ImplementsLifecycle
<1>1. Init => Alone /\ Lifecycle!Init
  BY InitAlone
<1>2. IInv /\ IInv' /\ Alone /\ [Next]_vars
        => Alone' /\ [Lifecycle!Next]_(Lifecycle!jlVars)
  BY NextImplements
<1> QED
  BY <1>1, <1>2, SpecIInv, PTL DEF Spec, ImplementsLifecycle, Lifecycle!Spec

-----------------------------------------------------------------------------
\* What the lifecycle promises of one step: at most one job runs, and a
\* settled job stays settled and is not run again.
LEMMA LifecycleStep ==
  ASSUME [Lifecycle!Next]_(Lifecycle!jlVars), NEW n \in 1..MaxJobs,
         State[n] \in Terminal
  PROVE  State'[n] = State[n] /\ Runs'[n] = Runs[n]
<1>1. State \in [1..MaxJobs -> {State[m] : m \in 1..MaxJobs}] /\ Runs \in [1..MaxJobs -> {Runs[m] : m \in 1..MaxJobs}]
  BY DEF State, Runs
<1>2. ASSUME NEW j \in 1..MaxJobs, NEW a \in Attempts, Lifecycle!Enqueue(j, a)
      PROVE  State'[n] = State[n] /\ Runs'[n] = Runs[n]
  <2>1. State[j] = "none" /\ State' = [State EXCEPT ![j] = "queued"] /\ Runs' = Runs
    BY <1>2 DEF Lifecycle!Enqueue, State, Runs, StateOf, RunsOf
  <2> QED
    BY <2>1, <1>1 DEF Terminal
<1>3. ASSUME NEW j \in 1..MaxJobs, Lifecycle!Start(j)
      PROVE  State'[n] = State[n] /\ Runs'[n] = Runs[n]
  <2>1. /\ State[j] = "queued"
        /\ State' = [State EXCEPT ![j] = "running"]
        /\ Runs' = [Runs EXCEPT ![j] = Runs[j] + 1]
    BY <1>3 DEF Lifecycle!Start, State, Runs, StateOf, RunsOf
  <2> QED
    BY <2>1, <1>1 DEF Terminal
<1>4. ASSUME NEW j \in 1..MaxJobs, Lifecycle!Finish(j)
      PROVE  State'[n] = State[n] /\ Runs'[n] = Runs[n]
  <2>1. /\ State[j] = "running"
        /\ \E s \in {"completed", "queued", "failed"} : State' = [State EXCEPT ![j] = s]
        /\ Runs' = Runs
    BY <1>4 DEF Lifecycle!Finish, State, Runs, StateOf, RunsOf
  <2> QED
    BY <2>1, <1>1 DEF Terminal
<1>5. CASE Lifecycle!Halt \/ UNCHANGED Lifecycle!jlVars
  BY <1>5 DEF Lifecycle!Halt, Lifecycle!jlVars, State, Runs, StateOf, RunsOf
<1> QED
  BY <1>2, <1>3, <1>4, <1>5 DEF Lifecycle!Next

\* Objects are never taken back.
LEMMA ObjectsStay ==
  ASSUME IInv, [Next]_vars, NEW n \in DOMAIN job
  PROVE  n \in DOMAIN job'
<1>1. job \in Seq(JobRecord) /\ DOMAIN job = 1..Len(job) /\ Len(job) \in Nat
  BY LenProperties DEF IInv, TypeOK
<1>2. ASSUME NEW i \in Ids, NEW a \in Attempts, NEW d \in BOOLEAN, AddJob(i, a, d)
      PROVE  n \in DOMAIN job'
  <2> DEFINE new == [id |-> i, attempts |-> a, made |-> 0, due |-> ~d,
                     state |-> IF d THEN "delayed" ELSE "waiting"]
  <2>1. job' = Append(job, new) /\ new \in JobRecord
    BY <1>2, SandboxAssumption DEF AddJob, JobRecord, Pending, SandboxAssumption
  <2> HIDE DEF new
  <2> QED
    BY <1>1, <2>1, AppendProperties, LenProperties
<1>3. ASSUME NEW t \in Ticks, NEW list, RunJob(t, list)
      PROVE  DOMAIN job' = DOMAIN job
  BY <1>3 DEF RunJob
<1>4. CASE TimerStep
  BY <1>3, <1>4 DEF TimerStep, TimerFires, TimerFindsNothing
<1>5. ASSUME NEW t \in Ticks, TickStep(t)
      PROVE  DOMAIN job' = DOMAIN job
  <2>1. CASE NextJob(t) \/ TickEnds(t)
    BY <1>3, <2>1 DEF NextJob, TickEnds
  <2>2. ASSUME NEW ok \in BOOLEAN, ProcessorSettles(t, ok)
        PROVE  DOMAIN job' = DOMAIN job
    BY <2>2 DEF ProcessorSettles
  <2> QED
    BY <1>5, <2>1, <2>2 DEF TickStep
<1>6. CASE Process \/ Stop \/ UNCHANGED vars \/ \E m \in DOMAIN job : DelayTimerFires(m) \/ BecomesDue(m)
  BY <1>6 DEF Process, Stop, vars, DelayTimerFires, BecomesDue
<1> QED
  BY <1>2, <1>4, <1>5, <1>6 DEF Next

\* A job that is completed or has failed stays so, and its processor is not
\* called for it again.
SettledIsFinal ==
  [][\A n \in DOMAIN job :
       job[n].state \in Terminal =>
         /\ n \in DOMAIN job'
         /\ job'[n].state = job[n].state
         /\ job'[n].made = job[n].made]_vars

\* At most one processor is running, of whatever job.
OneAtATime == \A t, u \in Ticks : Running(t) /\ Running(u) => t = u

LEMMA LifecycleSettled ==
  ASSUME IInv, IInv', [Next]_vars, [Lifecycle!Next]_(Lifecycle!jlVars),
         NEW n \in DOMAIN job, job[n].state \in Terminal
  PROVE  /\ n \in DOMAIN job'
         /\ job'[n].state = job[n].state
         /\ job'[n].made = job[n].made
<1>1. n \in DOMAIN job' /\ n \in 1..MaxJobs
  BY ObjectsStay, ObjectTypes DEF IInv
<1>2. job'[n].state \in Pending \cup Terminal
  <2>1. job' \in Seq(JobRecord)
    BY DEF IInv, TypeOK
  <2>2. job'[n] \in JobRecord
    BY <2>1, <1>1, ElementOfSeq, LenProperties
  <2> QED
    BY <2>2 DEF JobRecord
<1>3. State[n] = job[n].state /\ Runs[n] = job[n].made
  BY <1>1 DEF State, Runs, StateOf, RunsOf, Terminal
<1>4. State'[n] = State[n] /\ Runs'[n] = Runs[n]
  BY <1>1, <1>3, LifecycleStep
<1>5. State'[n] = StateOf(n)' /\ Runs'[n] = RunsOf(n)'
  BY <1>1 DEF State, Runs, StateOf, RunsOf
<1>6. job'[n].made = job[n].made
  BY <1>1, <1>3, <1>4, <1>5 DEF RunsOf
<1>7. job'[n].state = job[n].state
  BY <1>1, <1>2, <1>3, <1>4, <1>5 DEF StateOf, Terminal, Pending
<1> QED
  BY <1>1, <1>6, <1>7

\* Test T-QUEUE-SB-701 expects that a completed job is not run again, and the
\* option `concurrency` of the source that one job runs at a time.  Both hold
\* of every run whose callers are quiet: what breaks them is a caller that
\* acts while a tick is live.
THEOREM QuietCompletedIsFinal ==
  ASSUME Quiet
  PROVE  Spec => CompletedIsFinal /\ SettledIsFinal /\ []OneAtATime
<1>1. IInv /\ IInv' /\ [Next]_vars /\ [Lifecycle!Next]_(Lifecycle!jlVars)
        => [\A n \in DOMAIN job :
              job[n].state \in Terminal =>
                /\ n \in DOMAIN job'
                /\ job'[n].state = job[n].state
                /\ job'[n].made = job[n].made]_vars
  BY LifecycleSettled
<1>2. IInv /\ IInv' /\ [Next]_vars /\ [Lifecycle!Next]_(Lifecycle!jlVars)
        => [\A n \in DOMAIN job :
              job[n].state = "completed" => job'[n].state = "completed"]_vars
  BY LifecycleSettled DEF Terminal
<1>3. Alone => OneAtATime
  BY DEF Alone, AloneTick, OneAtATime, Live, Running
<1>4. Init => Alone
  BY InitAlone
<1>5. IInv /\ IInv' /\ Alone /\ [Next]_vars
        => Alone' /\ [Lifecycle!Next]_(Lifecycle!jlVars)
  BY NextImplements
<1> QED
  BY <1>1, <1>2, <1>3, <1>4, <1>5, SpecIInv, PTL
  DEF Spec, CompletedIsFinal, SettledIsFinal
=============================================================================
