------------------------- MODULE SandboxQueueProofs -------------------------
(***************************************************************************)
(* What holds of the sandbox queue for any ids, jobs and number of live    *)
(* ticks, however callers interleave with ticks and delay timers.          *)
(***************************************************************************)
EXTENDS SandboxQueue, FiniteSetTheorems, SequenceTheorems, TLAPS

\* A tick that awaits a processor knows which job it is running.
RunningHasJob == \A t \in Ticks : Running(t) => tick[t].list # <<>>

\* A tick lists only jobs whose delay is over.
ListsAreDue ==
  \A t \in Ticks : \A k \in DOMAIN tick[t].list : job[tick[t].list[k]].due

\* The timer is not armed after stop().
StoppedIsUnarmed == stopped => ~timer

IInv ==
  /\ TypeOK
  /\ RunningHasJob
  /\ ListsAreDue
  /\ StoppedIsUnarmed
  /\ OneRunPerId
  /\ RetriesAreCounted
  /\ NoLostWakeup

THEOREM InitIInv == Init => IInv
<1> SUFFICES ASSUME Init PROVE IInv
  OBVIOUS
<1> USE DEF Init
<1>1. Idle \in TickRecord
  BY EmptySeq DEF TickRecord, Idle
<1>0. /\ job \in Seq(JobRecord)
      /\ Len(job) <= MaxJobs
  BY EmptySeq, SandboxAssumption DEF SandboxAssumption
<1>5. TypeOK
  BY <1>0, <1>1 DEF TypeOK
<1>2. RunningHasJob /\ ListsAreDue /\ StoppedIsUnarmed
  BY DEF RunningHasJob, ListsAreDue, StoppedIsUnarmed, Running, Idle
<1>3. OneRunPerId /\ RetriesAreCounted
  BY DEF OneRunPerId, RetriesAreCounted, Running, Idle
<1>4. NoLostWakeup
  BY DEF NoLostWakeup, HasPending, None
<1> QED
  BY <1>5, <1>2, <1>3, <1>4 DEF IInv

-----------------------------------------------------------------------------
\* The head of a list of a tick is a job object, and the tail lists some of
\* the same objects.
LEMMA ListHeadTail ==
  ASSUME NEW S, NEW list \in Seq(S), list # <<>>
  PROVE  /\ Head(list) \in S
         /\ Head(list) = list[1]
         /\ 1 \in DOMAIN list
         /\ Tail(list) \in Seq(S)
         /\ \A k \in DOMAIN Tail(list) : k + 1 \in DOMAIN list /\ Tail(list)[k] = list[k + 1]
BY HeadTailProperties, LenProperties, EmptySeq

\* Replacing the record of one object keeps the objects.
LEMMA JobUpdate ==
  ASSUME TypeOK, NEW n \in DOMAIN job, NEW r \in JobRecord,
         job' = [job EXCEPT ![n] = r]
  PROVE  /\ job' \in Seq(JobRecord)
         /\ Len(job') <= MaxJobs
         /\ DOMAIN job' = DOMAIN job
         /\ job'[n] = r
         /\ \A m \in DOMAIN job : m # n => job'[m] = job[m]
BY ExceptSeq DEF TypeOK

\* runJob() of the head of `list` by tick t, whether it starts the processor
\* or returns at once.
LEMMA RunJobStep ==
  ASSUME IInv, NEW t \in Ticks, ~Running(t),
         NEW list \in Seq(DOMAIN job), list # <<>>,
         \A k \in DOMAIN list : job[list[k]].due,
         RunJob(t, list), UNCHANGED <<store, delayTimers, processor, stopped>>,
         timer' \in BOOLEAN
  PROVE  /\ TypeOK'
         /\ RunningHasJob'
         /\ ListsAreDue'
         /\ OneRunPerId'
         /\ RetriesAreCounted'
<1> DEFINE n == Head(list)
<1> USE DEF IInv
<1>1. /\ n \in DOMAIN job
      /\ n = list[1]
      /\ 1 \in DOMAIN list
      /\ Tail(list) \in Seq(DOMAIN job)
      /\ \A k \in DOMAIN Tail(list) : k + 1 \in DOMAIN list /\ Tail(list)[k] = list[k + 1]
  BY ListHeadTail
<1>2. job[n] \in JobRecord
  BY <1>1, ElementOfSeq, LenProperties DEF TypeOK
<1>3. CASE MayRun(n)
  <2> DEFINE r == [job[n] EXCEPT !.state = "active", !.made = @ + 1]
  <2>1. /\ inflight' = inflight \cup {job[n].id}
        /\ job' = [job EXCEPT ![n] = r]
        /\ tick' = [tick EXCEPT ![t] = [at |-> "running", list |-> list]]
    BY <1>3 DEF RunJob, Locked
  <2>2. /\ r \in JobRecord
        /\ r.id = job[n].id
        /\ r.state = "active"
        /\ r.due = job[n].due
        /\ r.attempts = job[n].attempts
    <3>1. "active" \in Pending \cup Terminal
      BY DEF Pending
    <3>2. /\ job[n].made \in Nat
          /\ job[n].made + 1 \in Nat
      BY <1>2 DEF JobRecord
    <3>3. r \in JobRecord
      BY <1>2, <3>1, <3>2 DEF JobRecord
    <3> QED
      BY <1>2, <3>3 DEF JobRecord
  <2> HIDE DEF r
  <2>3. /\ job' \in Seq(JobRecord)
        /\ Len(job') <= MaxJobs
        /\ DOMAIN job' = DOMAIN job
        /\ job'[n] = r
        /\ \A m \in DOMAIN job : m # n => job'[m] = job[m]
    BY <1>1, <2>1, <2>2, JobUpdate
  <2>4. [at |-> "running", list |-> list] \in TickRecord
    BY DEF TickRecord
  <2>5. TypeOK'
    BY <1>2, <2>1, <2>3, <2>4 DEF TypeOK, TickRecord, JobRecord
  <2>6. \A u \in Ticks : u # t => tick'[u] = tick[u]
    BY <2>1 DEF TypeOK
  <2>7. tick'[t] = [at |-> "running", list |-> list]
    BY <2>1 DEF TypeOK
  <2>8. RunningHasJob'
    BY <2>6, <2>7 DEF RunningHasJob, Running
  <2>9. \A m \in DOMAIN job : job'[m].due = job[m].due /\ job'[m].id = job[m].id
    BY <2>2, <2>3
  <2>10. \A u \in Ticks : \A k \in DOMAIN tick[u].list : tick[u].list[k] \in DOMAIN job
    BY ElementOfSeq, LenProperties DEF TypeOK, TickRecord
  <2>11. \A k \in DOMAIN list : list[k] \in DOMAIN job
    BY ElementOfSeq, LenProperties
  <2>12. ListsAreDue'
    BY <2>6, <2>7, <2>9, <2>10, <2>11 DEF ListsAreDue
  <2>13. \A u \in Ticks : /\ u # t => (Running(u)' <=> Running(u))
                          /\ u # t => Current(u)' = Current(u)
    BY <2>6 DEF Running, Current
  <2>14. Running(t)' /\ Current(t)' = n
    BY <2>7 DEF Running, Current
  <2>15. \A u \in Ticks : Running(u) => Current(u) \in DOMAIN job
    BY ListHeadTail DEF RunningHasJob, Current, TypeOK, TickRecord
  <2>16. job[n].id \notin inflight
    BY <1>3 DEF MayRun
  <2>17. \A u \in Ticks : Running(u) => Current(u) # n /\ job[Current(u)].id # job[n].id
    BY <2>16 DEF OneRunPerId
  <2>18. \A u \in Ticks : Running(u) => job'[Current(u)].id = job[Current(u)].id
    BY <2>9, <2>15
  <2>19. \A u, v \in Ticks :
           Running(u)' /\ Running(v)' /\ (job[Current(u)].id = job[Current(v)].id)' => u = v
    <3> SUFFICES ASSUME NEW u \in Ticks, NEW v \in Ticks, Running(u)', Running(v)',
                        (job[Current(u)].id = job[Current(v)].id)', u # v
                 PROVE  FALSE
      OBVIOUS
    <3>1. CASE u # t /\ v # t
      BY <3>1, <2>13, <2>18 DEF OneRunPerId
    <3>2. CASE u = t
      BY <3>2, <2>13, <2>14, <2>9, <1>1, <2>17, <2>18
    <3>3. CASE v = t
      BY <3>3, <2>13, <2>14, <2>9, <1>1, <2>17, <2>18
    <3> QED
      BY <3>1, <3>2, <3>3
  <2>20. inflight' = {job'[Current(u)'].id : u \in {v \in Ticks : Running(v)'}}
    <3>1. inflight = {job[Current(u)].id : u \in {v \in Ticks : Running(v)}}
      BY DEF OneRunPerId
    <3>2. \A v \in Ticks : Running(v)' <=> Running(v) \/ v = t
      BY <2>13, <2>14
    <3>3. job'[Current(t)'].id = job[n].id
      BY <2>14, <2>9, <1>1
    <3>4. \A v \in Ticks : Running(v) => v # t /\ job'[Current(v)'].id = job[Current(v)].id
      BY <2>13, <2>18
    <3> QED
      BY <3>1, <3>2, <3>3, <3>4, <2>1
  <2>21. \A m \in DOMAIN job' :
           job'[m].state = "active" <=> \E u \in Ticks : Running(u)' /\ Current(u)' = m
    <3> SUFFICES ASSUME NEW m \in DOMAIN job
                 PROVE  job'[m].state = "active"
                          <=> \E u \in Ticks : Running(u)' /\ Current(u)' = m
      BY <2>3
    <3>1. CASE m = n
      BY <3>1, <2>2, <2>3, <2>14
    <3>2. CASE m # n
      <4>1. job'[m].state = job[m].state
        BY <3>2, <2>3
      <4>2. (\E u \in Ticks : Running(u)' /\ Current(u)' = m)
              <=> (\E u \in Ticks : Running(u) /\ Current(u) = m)
        BY <3>2, <2>13, <2>14
      <4> QED
        BY <4>1, <4>2 DEF OneRunPerId
    <3> QED
      BY <3>1, <3>2
  <2>22. OneRunPerId'
    BY <2>19, <2>20, <2>21 DEF OneRunPerId
  <2>23. RetriesAreCounted'
    BY <2>2, <2>3 DEF RetriesAreCounted
  <2> QED
    BY <2>5, <2>8, <2>12, <2>22, <2>23
<1>4. CASE ~MayRun(n)
  <2>1. /\ tick' = [tick EXCEPT ![t] = [at |-> "resumed", list |-> Tail(list)]]
        /\ UNCHANGED <<job, inflight>>
    BY <1>4 DEF RunJob
  <2>2. [at |-> "resumed", list |-> Tail(list)] \in TickRecord
    BY <1>1 DEF TickRecord
  <2>3. TypeOK'
    BY <2>1, <2>2 DEF TypeOK, TickRecord
  <2>4. \A u \in Ticks : u # t => tick'[u] = tick[u]
    BY <2>1 DEF TypeOK
  <2>5. tick'[t] = [at |-> "resumed", list |-> Tail(list)]
    BY <2>1 DEF TypeOK
  <2>6. ListsAreDue'
    BY <1>1, <2>1, <2>4, <2>5 DEF ListsAreDue
  <2>7. \A u \in Ticks : /\ Running(u)' <=> Running(u)
                         /\ Running(u) => Current(u)' = Current(u) /\ tick'[u] = tick[u]
    BY <2>4, <2>5 DEF Running, Current
  <2>8. RunningHasJob'
    BY <2>7 DEF RunningHasJob
  <2>9. OneRunPerId'
    BY <2>1, <2>7 DEF OneRunPerId
  <2>10. RetriesAreCounted'
    BY <2>1 DEF RetriesAreCounted
  <2> QED
    BY <2>3, <2>6, <2>8, <2>9, <2>10
<1> QED
  BY <1>3, <1>4

-----------------------------------------------------------------------------
\* Whatever happens to job objects while no tick moves, the ticks keep their
\* part of the invariant if no object enters or leaves `active`, no object
\* changes its id and no object stops being due.
LEMMA TicksStayStep ==
  ASSUME IInv, UNCHANGED <<tick, inflight>>,
         DOMAIN job \subseteq DOMAIN job',
         \A m \in DOMAIN job : /\ job'[m].id = job[m].id
                               /\ job[m].due => job'[m].due
                               /\ job'[m].state = "active" <=> job[m].state = "active",
         \A m \in DOMAIN job' \ DOMAIN job : job'[m].state # "active"
  PROVE  RunningHasJob' /\ ListsAreDue' /\ OneRunPerId'
<1> USE DEF IInv
<1>1. RunningHasJob'
  BY DEF RunningHasJob, Running
<1>2. \A u \in Ticks : \A k \in DOMAIN tick[u].list : tick[u].list[k] \in DOMAIN job
  BY ElementOfSeq, LenProperties DEF TypeOK, TickRecord
<1>3. ListsAreDue'
  BY <1>2 DEF ListsAreDue
<1>4. \A u \in Ticks : Running(u) => Current(u) \in DOMAIN job
  BY ListHeadTail DEF RunningHasJob, Current, TypeOK, TickRecord
<1>5. \A u \in Ticks : (Running(u)' <=> Running(u)) /\ Current(u)' = Current(u)
  BY DEF Running, Current
<1>6. \A u \in Ticks : Running(u) => job'[Current(u)'].id = job[Current(u)].id
  BY <1>4, <1>5
<1>7. \A u, v \in Ticks :
        Running(u)' /\ Running(v)' /\ (job[Current(u)].id = job[Current(v)].id)' => u = v
  BY <1>5, <1>6 DEF OneRunPerId
<1>8. inflight' = {job'[Current(u)'].id : u \in {v \in Ticks : Running(v)'}}
  <2>1. inflight = {job[Current(u)].id : u \in {v \in Ticks : Running(v)}}
    BY DEF OneRunPerId
  <2> QED
    BY <2>1, <1>5, <1>6
<1>9. \A m \in DOMAIN job' :
        job'[m].state = "active" <=> \E u \in Ticks : Running(u)' /\ Current(u)' = m
  <2> SUFFICES ASSUME NEW m \in DOMAIN job'
               PROVE  job'[m].state = "active"
                        <=> \E u \in Ticks : Running(u) /\ Current(u) = m
    BY <1>5
  <2>1. CASE m \in DOMAIN job
    BY <2>1 DEF OneRunPerId
  <2>2. CASE m \notin DOMAIN job
    BY <2>2, <1>4
  <2> QED
    BY <2>1, <2>2
<1>10. OneRunPerId'
  BY <1>7, <1>8, <1>9 DEF OneRunPerId
<1> QED
  BY <1>1, <1>3, <1>10

LEMMA ProcessStep ==
  ASSUME IInv, Process
  PROVE  IInv'
<1> USE DEF IInv, Process
<1>1. TypeOK'
  BY DEF TypeOK, ScheduleTick, TickRecord
<1>2. RunningHasJob' /\ ListsAreDue' /\ OneRunPerId'
  BY TicksStayStep
<1>3. StoppedIsUnarmed' /\ RetriesAreCounted' /\ NoLostWakeup'
  BY DEF StoppedIsUnarmed, RetriesAreCounted, NoLostWakeup, ScheduleTick
<1> QED
  BY <1>1, <1>2, <1>3

LEMMA AddJobStep ==
  ASSUME IInv, NEW i \in Ids, NEW a \in Attempts, NEW d \in BOOLEAN, AddJob(i, a, d)
  PROVE  IInv'
<1> DEFINE n == Len(job) + 1
           new == [id |-> i, attempts |-> a, made |-> 0, due |-> ~d,
                   state |-> IF d THEN "delayed" ELSE "waiting"]
<1> USE DEF IInv
<1>1. /\ ~stopped
      /\ Len(job) < MaxJobs
      /\ job' = Append(job, new)
      /\ store' = [store EXCEPT ![i] = n]
      /\ delayTimers' = IF d THEN delayTimers \cup {n} ELSE delayTimers
      /\ timer' = ScheduleTick
      /\ UNCHANGED <<processor, stopped, inflight, tick>>
  BY DEF AddJob
<1>2. /\ new \in JobRecord
      /\ new.state \in {"waiting", "delayed"}
      /\ new.made < new.attempts
  BY SandboxAssumption DEF JobRecord, Pending, Terminal, SandboxAssumption
<1> HIDE DEF new
<1>3. /\ job' \in Seq(JobRecord)
      /\ Len(job') = n
      /\ DOMAIN job' = 1..n
      /\ DOMAIN job = 1..Len(job)
      /\ Len(job) \in Nat
      /\ job'[n] = new
      /\ \A m \in DOMAIN job : job'[m] = job[m]
  BY <1>1, <1>2, AppendProperties, LenProperties DEF TypeOK
<1>4. DOMAIN job \subseteq DOMAIN job' /\ DOMAIN job' \ DOMAIN job = {n}
  BY <1>3
<1>5. \A u \in Ticks : tick[u] \in TickRecord'
  <2> SUFFICES ASSUME NEW u \in Ticks PROVE tick[u] \in TickRecord'
    OBVIOUS
  <2>1. tick[u] \in TickRecord
    BY DEF TypeOK
  <2>2. tick[u].list \in Seq(DOMAIN job')
    BY <2>1, <1>4, SeqMonotonic DEF TickRecord
  <2> QED
    BY <2>1, <2>2 DEF TickRecord
<1>6. TypeOK'
  <2>1. Len(job') <= MaxJobs
    BY <1>1, <1>3, SandboxAssumption DEF SandboxAssumption
  <2>2. store' \in [Ids -> {None} \cup DOMAIN job']
    BY <1>1, <1>3, <1>4 DEF TypeOK
  <2>3. delayTimers' \subseteq DOMAIN job'
    BY <1>1, <1>3, <1>4 DEF TypeOK
  <2>4. tick' \in [Ticks -> TickRecord']
    BY <1>1, <1>5 DEF TypeOK
  <2> QED
    BY <1>1, <1>3, <2>1, <2>2, <2>3, <2>4 DEF TypeOK, ScheduleTick
<1>7. RunningHasJob' /\ ListsAreDue' /\ OneRunPerId'
  BY <1>1, <1>2, <1>3, <1>4, TicksStayStep
<1>8. RetriesAreCounted'
  BY <1>2, <1>3, <1>4 DEF RetriesAreCounted
<1>9. StoppedIsUnarmed' /\ NoLostWakeup'
  BY <1>1 DEF StoppedIsUnarmed, NoLostWakeup, ScheduleTick
<1> QED
  BY <1>6, <1>7, <1>8, <1>9

LEMMA DelayTimerFiresStep ==
  ASSUME IInv, NEW n \in DOMAIN job, DelayTimerFires(n)
  PROVE  IInv'
<1> DEFINE m == store[job[n].id]
           r == [job[m] EXCEPT !.state = "waiting"]
<1> USE DEF IInv
<1>1. CASE m # None /\ job[m].state = "delayed"
  <2>1. /\ delayTimers' = delayTimers \ {n}
        /\ job' = [job EXCEPT ![m] = r]
        /\ timer' = ScheduleTick
        /\ UNCHANGED <<store, processor, stopped, inflight, tick>>
    BY <1>1 DEF DelayTimerFires
  <2>2. m \in DOMAIN job
    <3>0. job[n] \in JobRecord
      BY ElementOfSeq, LenProperties DEF TypeOK
    <3>1. job[n].id \in Ids
      BY <3>0 DEF JobRecord
    <3> QED
      BY <1>1, <3>1 DEF TypeOK
  <2>3. job[m] \in JobRecord
    BY <2>2, ElementOfSeq, LenProperties DEF TypeOK
  <2>4. /\ r \in JobRecord
        /\ r.id = job[m].id
        /\ r.due = job[m].due
        /\ r.state = "waiting"
        /\ r.made = job[m].made
        /\ r.attempts = job[m].attempts
    <3>1. "waiting" \in Pending \cup Terminal
      BY DEF Pending
    <3>2. r \in JobRecord
      BY <2>3, <3>1 DEF JobRecord
    <3> QED
      BY <2>3, <3>2 DEF JobRecord
  <2> HIDE DEF r
  <2>5. /\ job' \in Seq(JobRecord)
        /\ Len(job') <= MaxJobs
        /\ DOMAIN job' = DOMAIN job
        /\ job'[m] = r
        /\ \A k \in DOMAIN job : k # m => job'[k] = job[k]
    BY <2>1, <2>2, <2>4, JobUpdate
  <2>6. TypeOK'
    BY <2>1, <2>5 DEF TypeOK, TickRecord, ScheduleTick
  <2>7. RunningHasJob' /\ ListsAreDue' /\ OneRunPerId'
    BY <1>1, <2>1, <2>4, <2>5, TicksStayStep
  <2>8. RetriesAreCounted'
    BY <1>1, <2>2, <2>4, <2>5 DEF RetriesAreCounted
  <2>9. StoppedIsUnarmed' /\ NoLostWakeup'
    BY <2>1 DEF StoppedIsUnarmed, NoLostWakeup, ScheduleTick
  <2> QED
    BY <2>6, <2>7, <2>8, <2>9
<1>2. CASE ~(m # None /\ job[m].state = "delayed")
  <2>1. /\ delayTimers' = delayTimers \ {n}
        /\ UNCHANGED <<job, timer, store, processor, stopped, inflight, tick>>
    BY <1>2 DEF DelayTimerFires
  <2>2. TypeOK'
    BY <2>1 DEF TypeOK, TickRecord
  <2>3. RunningHasJob' /\ ListsAreDue' /\ OneRunPerId'
    BY <2>1, TicksStayStep
  <2>4. RetriesAreCounted' /\ StoppedIsUnarmed' /\ NoLostWakeup'
    BY <2>1 DEF RetriesAreCounted, StoppedIsUnarmed, NoLostWakeup, HasPending, Live
  <2> QED
    BY <2>2, <2>3, <2>4
<1> QED
  BY <1>1, <1>2

LEMMA BecomesDueStep ==
  ASSUME IInv, NEW n \in DOMAIN job, BecomesDue(n)
  PROVE  IInv'
<1> DEFINE r == [job[n] EXCEPT !.due = TRUE]
<1> USE DEF IInv
<1>1. /\ job' = [job EXCEPT ![n] = r]
      /\ UNCHANGED <<store, delayTimers, processor, stopped, timer, inflight, tick>>
  BY DEF BecomesDue
<1>2. job[n] \in JobRecord
  BY ElementOfSeq, LenProperties DEF TypeOK
<1>3. /\ r \in JobRecord
      /\ r.id = job[n].id
      /\ r.due
      /\ r.state = job[n].state
      /\ r.made = job[n].made
      /\ r.attempts = job[n].attempts
  BY <1>2 DEF JobRecord
<1> HIDE DEF r
<1>4. /\ job' \in Seq(JobRecord)
      /\ Len(job') <= MaxJobs
      /\ DOMAIN job' = DOMAIN job
      /\ job'[n] = r
      /\ \A k \in DOMAIN job : k # n => job'[k] = job[k]
  BY <1>1, <1>3, JobUpdate
<1>5. TypeOK'
  BY <1>1, <1>4 DEF TypeOK, TickRecord
<1>6. RunningHasJob' /\ ListsAreDue' /\ OneRunPerId'
  BY <1>1, <1>3, <1>4, TicksStayStep
<1>7. RetriesAreCounted' /\ StoppedIsUnarmed'
  BY <1>1, <1>3, <1>4 DEF RetriesAreCounted, StoppedIsUnarmed
<1>8. NoLostWakeup'
  <2>1. \A k \in DOMAIN job : job'[k].state = job[k].state
    BY <1>3, <1>4
  <2>2. HasPending(job, store)' => HasPending(job, store)
    BY <1>1, <2>1 DEF HasPending, TypeOK
  <2> QED
    BY <1>1, <2>2 DEF NoLostWakeup, Live
<1> QED
  BY <1>5, <1>6, <1>7, <1>8

-----------------------------------------------------------------------------
LEMMA TimerFindsNothingStep ==
  ASSUME IInv, TimerFindsNothing
  PROVE  IInv'
<1> USE DEF IInv, TimerFindsNothing
<1>1. HasPending(job, store) \in BOOLEAN
  BY DEF HasPending
<1>2. TypeOK'
  BY <1>1 DEF TypeOK, TickRecord
<1>3. RunningHasJob' /\ ListsAreDue' /\ OneRunPerId'
  BY TicksStayStep
<1>4. RetriesAreCounted' /\ StoppedIsUnarmed' /\ NoLostWakeup'
  BY DEF RetriesAreCounted, StoppedIsUnarmed, NoLostWakeup
<1> QED
  BY <1>2, <1>3, <1>4

\* A list that a tick takes holds job objects that wait and are due, at least
\* one of them.
LEMMA TakenList ==
  ASSUME IInv, RunnableIds # {}, NEW list \in RunnableLists
  PROVE  /\ list \in Seq(DOMAIN job)
         /\ list # <<>>
         /\ \A k \in DOMAIN list : job[list[k]].due
<1> DEFINE size == Cardinality(RunnableIds)
<1> USE DEF IInv
<1>1. RunnableIds \subseteq Ids /\ IsFiniteSet(Ids)
  BY SandboxAssumption DEF RunnableIds, SandboxAssumption
<1>2. size \in Nat /\ size # 0
  BY <1>1, FS_Subset, FS_CardinalityType, FS_EmptySet
<1>3. PICK f \in SortedIds : list = [k \in DOMAIN f |-> store[f[k]]]
  BY DEF RunnableLists
<1> HIDE DEF size
<1>4. f \in [1..size -> RunnableIds]
  BY <1>3 DEF SortedIds, size
<1>5. \A i \in RunnableIds : store[i] \in DOMAIN job /\ job[store[i]].due
  BY <1>1 DEF RunnableIds, IsRunnable, TypeOK
<1>6. list \in [1..size -> DOMAIN job]
  BY <1>3, <1>4, <1>5
<1>7. list \in Seq(DOMAIN job) /\ DOMAIN list = 1..size
  BY <1>2, <1>6, IsASeq
<1>8. list # <<>>
  BY <1>2, <1>7, EmptySeq, LenProperties
<1> QED
  BY <1>3, <1>4, <1>5, <1>7, <1>8

LEMMA TimerFiresStep ==
  ASSUME IInv, NEW t \in Ticks, TimerFires(t)
  PROVE  IInv'
<1> USE DEF IInv
<1>1. PICK list \in RunnableLists : RunJob(t, list)
  BY DEF TimerFires
<1>2. /\ RunnableIds # {}
      /\ ~Running(t)
      /\ timer' = FALSE
      /\ UNCHANGED <<store, delayTimers, processor, stopped>>
  BY DEF TimerFires, TimerAfterFiring, Live, Running
<1>3. /\ list \in Seq(DOMAIN job)
      /\ list # <<>>
      /\ \A k \in DOMAIN list : job[list[k]].due
  BY <1>2, TakenList
<1>4. TypeOK' /\ RunningHasJob' /\ ListsAreDue' /\ OneRunPerId' /\ RetriesAreCounted'
  BY <1>1, <1>2, <1>3, RunJobStep
<1>5. StoppedIsUnarmed'
  BY <1>2 DEF StoppedIsUnarmed
<1>6. Live(t)'
  BY <1>1 DEF RunJob, Live, TypeOK
<1>7. NoLostWakeup'
  BY <1>6 DEF NoLostWakeup
<1> QED
  BY <1>4, <1>5, <1>7

LEMMA NextJobStep ==
  ASSUME IInv, NEW t \in Ticks, NextJob(t)
  PROVE  IInv'
<1> DEFINE list == tick[t].list
<1> USE DEF IInv
<1>1. /\ tick[t].at = "resumed"
      /\ list # <<>>
      /\ RunJob(t, list)
      /\ UNCHANGED <<store, delayTimers, processor, stopped, timer>>
  BY DEF NextJob, LoopGoesOn
<1>2. list \in Seq(DOMAIN job)
  BY DEF TypeOK, TickRecord
<1>3. \A k \in DOMAIN list : job[list[k]].due
  BY DEF ListsAreDue
<1>4. ~Running(t)
  BY <1>1 DEF Running
<1>5. timer' \in BOOLEAN
  BY <1>1 DEF TypeOK
<1>6. TypeOK' /\ RunningHasJob' /\ ListsAreDue' /\ OneRunPerId' /\ RetriesAreCounted'
  <2> HIDE DEF list
  <2> QED
    BY <1>1, <1>2, <1>3, <1>4, <1>5, RunJobStep
<1>7. StoppedIsUnarmed'
  BY <1>1 DEF StoppedIsUnarmed
<1>8. Live(t)'
  BY <1>1 DEF RunJob, Live, TypeOK
<1>9. NoLostWakeup'
  BY <1>8 DEF NoLostWakeup
<1> QED
  BY <1>6, <1>7, <1>9

LEMMA TickEndsStep ==
  ASSUME IInv, NEW t \in Ticks, TickEnds(t)
  PROVE  IInv'
<1> USE DEF IInv
<1>1. /\ tick[t].at = "resumed"
      /\ tick' = [tick EXCEPT ![t] = Idle]
      /\ timer' = RearmedAfterLoop
      /\ UNCHANGED <<job, store, delayTimers, processor, stopped, inflight>>
  BY DEF TickEnds
<1>2. Idle \in TickRecord
  BY EmptySeq DEF Idle, TickRecord
<1>3. RearmedAfterLoop \in BOOLEAN
  BY DEF RearmedAfterLoop, ScheduleTick, TypeOK
<1>4. TypeOK'
  BY <1>1, <1>2, <1>3 DEF TypeOK, TickRecord
<1>5. \A u \in Ticks : u # t => tick'[u] = tick[u]
  BY <1>1 DEF TypeOK
<1>6. tick'[t] = Idle
  BY <1>1 DEF TypeOK
<1>7. \A u \in Ticks : /\ Running(u)' <=> Running(u)
                       /\ Running(u) => Current(u)' = Current(u) /\ tick'[u] = tick[u]
  BY <1>1, <1>5, <1>6 DEF Running, Current, Idle
<1>8. RunningHasJob'
  BY <1>7 DEF RunningHasJob
<1>9. DOMAIN tick'[t].list = {}
  BY <1>6, EmptySeq DEF Idle
<1>10. ListsAreDue'
  BY <1>1, <1>5, <1>9 DEF ListsAreDue
<1>11. OneRunPerId' /\ RetriesAreCounted'
  BY <1>1, <1>7 DEF OneRunPerId, RetriesAreCounted
<1>12. StoppedIsUnarmed' /\ NoLostWakeup'
  BY <1>1 DEF StoppedIsUnarmed, NoLostWakeup, RearmedAfterLoop, ScheduleTick
<1> QED
  BY <1>4, <1>8, <1>10, <1>11, <1>12

LEMMA StopStep ==
  ASSUME IInv, Stop
  PROVE  IInv'
<1> USE DEF IInv, Stop
<1>1. TypeOK'
  BY DEF TypeOK, TickRecord, None
<1>2. RunningHasJob' /\ ListsAreDue' /\ OneRunPerId'
  BY TicksStayStep
<1>3. RetriesAreCounted' /\ StoppedIsUnarmed' /\ NoLostWakeup'
  BY DEF RetriesAreCounted, StoppedIsUnarmed, NoLostWakeup
<1> QED
  BY <1>1, <1>2, <1>3

LEMMA ProcessorSettlesStep ==
  ASSUME IInv, NEW t \in Ticks, NEW ok \in BOOLEAN, ProcessorSettles(t, ok)
  PROVE  IInv'
<1> DEFINE n == Current(t)
           rest == Tail(tick[t].list)
<1> USE DEF IInv
<1>1. /\ Running(t)
      /\ inflight' = inflight \ {job[n].id}
      /\ tick' = [tick EXCEPT ![t] = [at |-> "resumed", list |-> rest]]
      /\ UNCHANGED <<store, delayTimers, processor, stopped, timer>>
  BY DEF ProcessorSettles, Unlocked
<1>2. /\ n \in DOMAIN job
      /\ rest \in Seq(DOMAIN job)
      /\ \A k \in DOMAIN rest : /\ k + 1 \in DOMAIN tick[t].list
                                 /\ rest[k] = tick[t].list[k + 1]
                                 /\ rest[k] \in DOMAIN job
  <2>1. tick[t].list \in Seq(DOMAIN job) /\ tick[t].list # <<>>
    BY <1>1 DEF RunningHasJob, TypeOK, TickRecord
  <2> QED
    BY <2>1, ListHeadTail, ElementOfSeq, LenProperties DEF Current
<1>3. job[n] \in JobRecord
  BY <1>2, ElementOfSeq, LenProperties DEF TypeOK
<1>4. PICK r \in JobRecord :
        /\ job' = [job EXCEPT ![n] = r]
        /\ r.id = job[n].id
        /\ job[n].due => r.due
        /\ r.state # "active"
        /\ r.state = "failed" => r.made >= r.attempts
        /\ r.state \in {"waiting", "delayed"} => r.made < r.attempts
  <2>1. {"completed", "waiting", "failed"} \subseteq Pending \cup Terminal
    BY DEF Pending, Terminal
  <2>2. CASE ok
    <3> DEFINE r == [job[n] EXCEPT !.state = "completed"]
    <3>1. job' = [job EXCEPT ![n] = r]
      BY <2>2 DEF ProcessorSettles
    <3>2. r \in JobRecord
      BY <1>3, <2>1 DEF JobRecord
    <3>3. r.id = job[n].id /\ r.due = job[n].due /\ r.state = "completed"
      BY <1>3 DEF JobRecord
    <3> QED
      BY <3>1, <3>2, <3>3
  <2>3. CASE ~ok /\ HasRetry(n)
    <3> DEFINE r == [job[n] EXCEPT !.state = "waiting", !.due = TRUE]
    <3>1. job' = [job EXCEPT ![n] = r]
      BY <2>3 DEF ProcessorSettles
    <3>2. r \in JobRecord
      BY <1>3, <2>1 DEF JobRecord
    <3>3. /\ r.id = job[n].id
          /\ r.due
          /\ r.state = "waiting"
          /\ r.made < r.attempts
      BY <1>3, <2>3 DEF JobRecord, HasRetry
    <3> QED
      BY <3>1, <3>2, <3>3
  <2>4. CASE ~ok /\ ~HasRetry(n)
    <3> DEFINE r == [job[n] EXCEPT !.state = "failed"]
    <3>1. job' = [job EXCEPT ![n] = r]
      BY <2>4 DEF ProcessorSettles
    <3>2. r \in JobRecord
      BY <1>3, <2>1 DEF JobRecord
    <3>3. /\ r.id = job[n].id
          /\ r.due = job[n].due
          /\ r.state = "failed"
          /\ r.made = job[n].made
          /\ r.attempts = job[n].attempts
      BY <1>3 DEF JobRecord
    <3>4. job[n].made >= job[n].attempts
      <4>1. job[n].made \in Nat /\ job[n].attempts \in Nat
        BY <1>3, SandboxAssumption DEF JobRecord, SandboxAssumption
      <4> QED
        BY <4>1, <2>4 DEF HasRetry
    <3> QED
      BY <3>1, <3>2, <3>3, <3>4
  <2> QED
    BY <2>2, <2>3, <2>4
<1>5. /\ job' \in Seq(JobRecord)
      /\ Len(job') <= MaxJobs
      /\ DOMAIN job' = DOMAIN job
      /\ job'[n] = r
      /\ \A m \in DOMAIN job : m # n => job'[m] = job[m]
  BY <1>2, <1>4, JobUpdate
<1>6. \A u \in Ticks : u # t => tick'[u] = tick[u]
  BY <1>1 DEF TypeOK
<1>7. tick'[t] = [at |-> "resumed", list |-> rest]
  BY <1>1 DEF TypeOK
<1>8. TypeOK'
  <2>1. [at |-> "resumed", list |-> rest] \in TickRecord
    BY <1>2 DEF TickRecord
  <2> QED
    BY <1>1, <1>5, <2>1 DEF TypeOK, TickRecord
<1>9. \A u \in Ticks : /\ Running(u)' <=> Running(u) /\ u # t
                       /\ u # t => Current(u)' = Current(u)
  BY <1>6, <1>7 DEF Running, Current
<1>10. RunningHasJob'
  BY <1>6, <1>9 DEF RunningHasJob
<1>11. \A m \in DOMAIN job : /\ job'[m].id = job[m].id
                             /\ job[m].due => job'[m].due
  BY <1>4, <1>5
<1>12. \A u \in Ticks : \A k \in DOMAIN tick[u].list : tick[u].list[k] \in DOMAIN job
  BY ElementOfSeq, LenProperties DEF TypeOK, TickRecord
<1>13. ListsAreDue'
  <2> SUFFICES ASSUME NEW u \in Ticks, NEW k \in DOMAIN tick'[u].list
               PROVE  job'[tick'[u].list[k]].due
    BY DEF ListsAreDue
  <2>1. CASE u = t
    <3>1. tick'[u].list = rest
      BY <2>1, <1>7
    <3>2. k + 1 \in DOMAIN tick[t].list /\ rest[k] = tick[t].list[k + 1]
      BY <3>1, <1>2
    <3>3. tick[t].list[k + 1] \in DOMAIN job /\ job[tick[t].list[k + 1]].due
      BY <3>2, <1>12 DEF ListsAreDue
    <3> QED
      BY <3>1, <3>2, <3>3, <1>11
  <2>2. CASE u # t
    BY <2>2, <1>6, <1>11, <1>12 DEF ListsAreDue
  <2> QED
    BY <2>1, <2>2
<1>14. \A u \in Ticks : Running(u) => Current(u) \in DOMAIN job
  BY ListHeadTail DEF RunningHasJob, Current, TypeOK, TickRecord
<1>15. \A u \in Ticks : Running(u) /\ u # t =>
         /\ job'[Current(u)'].id = job[Current(u)].id
         /\ job[Current(u)].id # job[n].id
         /\ Current(u) # n
  BY <1>1, <1>9, <1>11, <1>14 DEF OneRunPerId
<1>16. \A u, v \in Ticks :
         Running(u)' /\ Running(v)' /\ (job[Current(u)].id = job[Current(v)].id)' => u = v
  BY <1>9, <1>15 DEF OneRunPerId
<1>17. inflight' = {job'[Current(u)'].id : u \in {v \in Ticks : Running(v)'}}
  <2>1. inflight = {job[Current(u)].id : u \in {v \in Ticks : Running(v)}}
    BY DEF OneRunPerId
  <2> QED
    BY <2>1, <1>1, <1>9, <1>15
<1>18. \A m \in DOMAIN job' :
         job'[m].state = "active" <=> \E u \in Ticks : Running(u)' /\ Current(u)' = m
  <2> SUFFICES ASSUME NEW m \in DOMAIN job
               PROVE  job'[m].state = "active"
                        <=> \E u \in Ticks : Running(u)' /\ Current(u)' = m
    BY <1>5
  <2>1. CASE m = n
    BY <2>1, <1>4, <1>5, <1>9, <1>15
  <2>2. CASE m # n
    <3>1. job'[m].state = job[m].state
      BY <2>2, <1>5
    <3>2. (\E u \in Ticks : Running(u)' /\ Current(u)' = m)
            <=> (\E u \in Ticks : Running(u) /\ Current(u) = m)
      BY <2>2, <1>9
    <3> QED
      BY <3>1, <3>2 DEF OneRunPerId
  <2> QED
    BY <2>1, <2>2
<1>19. OneRunPerId'
  BY <1>16, <1>17, <1>18 DEF OneRunPerId
<1>20. RetriesAreCounted'
  BY <1>4, <1>5 DEF RetriesAreCounted
<1>21. StoppedIsUnarmed'
  BY <1>1 DEF StoppedIsUnarmed
<1>22. NoLostWakeup'
  BY <1>7 DEF NoLostWakeup, Live
<1> QED
  BY <1>8, <1>10, <1>13, <1>19, <1>20, <1>21, <1>22

LEMMA NextIInv == IInv /\ [Next]_vars => IInv'
<1> SUFFICES ASSUME IInv, [Next]_vars PROVE IInv'
  OBVIOUS
<1>1. CASE Process
  BY <1>1, ProcessStep
<1>2. ASSUME NEW i \in Ids, NEW a \in Attempts, NEW d \in BOOLEAN, AddJob(i, a, d) PROVE IInv'
  BY <1>2, AddJobStep
<1>3. ASSUME NEW n \in DOMAIN job, DelayTimerFires(n) \/ BecomesDue(n) PROVE IInv'
  BY <1>3, DelayTimerFiresStep, BecomesDueStep
<1>4. CASE TimerStep
  BY <1>4, TimerFindsNothingStep, TimerFiresStep DEF TimerStep
<1>5. ASSUME NEW t \in Ticks, TickStep(t) PROVE IInv'
  BY <1>5, ProcessorSettlesStep, NextJobStep, TickEndsStep DEF TickStep
<1>6. CASE Stop
  BY <1>6, StopStep
<1>7. CASE UNCHANGED vars
  <2>1. UNCHANGED <<job, store, delayTimers, processor, stopped, timer, inflight, tick>>
    BY <1>7 DEF vars
  <2>2. TypeOK'
    BY <2>1 DEF IInv, TypeOK, TickRecord
  <2>3. RunningHasJob' /\ ListsAreDue' /\ OneRunPerId'
    BY <2>1, TicksStayStep
  <2>4. RetriesAreCounted' /\ StoppedIsUnarmed' /\ NoLostWakeup'
    BY <2>1 DEF IInv, RetriesAreCounted, StoppedIsUnarmed, NoLostWakeup, HasPending, Live
  <2> QED
    BY <2>2, <2>3, <2>4 DEF IInv
<1> QED
  BY <1>1, <1>2, <1>3, <1>4, <1>5, <1>6, <1>7 DEF Next

-----------------------------------------------------------------------------
\* IInv holds in every reachable state, and with it each of its conjuncts.
THEOREM SpecIInv == Spec => []IInv
BY InitIInv, NextIInv, PTL DEF Spec

\* Types: the Map, the timers and the lists of the ticks name jobs that exist.
THEOREM SpecTypeOK == Spec => []TypeOK
<1>1. IInv => TypeOK
  BY DEF IInv
<1> QED
  BY <1>1, SpecIInv, PTL

\* However many ticks are live, no id is run twice at a time, `inflight` is
\* exact and `active` means running.
THEOREM SpecOneRunPerId == Spec => []OneRunPerId
<1>1. IInv => OneRunPerId
  BY DEF IInv
<1> QED
  BY <1>1, SpecIInv, PTL

\* Pending jobs of a running queue never wait for a timer nobody arms.
THEOREM SpecNoLostWakeup == Spec => []NoLostWakeup
<1>1. IInv => NoLostWakeup
  BY DEF IInv
<1> QED
  BY <1>1, SpecIInv, PTL

\* A job fails only when its attempts are used up, and waits only while one is
\* left.
THEOREM SpecRetriesAreCounted == Spec => []RetriesAreCounted
<1>1. IInv => RetriesAreCounted
  BY DEF IInv
<1> QED
  BY <1>1, SpecIInv, PTL

\* The steps that call a processor: they belong to a queue that runs, and the
\* job they start is the head of a list.
LEMMA StartingSteps ==
  ASSUME IInv, [Next]_vars, NEW n \in DOMAIN job, job'[n].made # job[n].made
  PROVE  /\ ~stopped
         /\ job[n].due
<1> USE DEF IInv
<1> DEFINE Kept == job'[n].made = job[n].made
<1>0. \A list : list # <<>> /\ list \in Seq(DOMAIN job) /\ n # Head(list) =>
        \A t \in Ticks : RunJob(t, list) => Kept
  BY ListHeadTail DEF RunJob, TypeOK
<1>1. ASSUME Process \/ TimerFindsNothing \/ Stop \/ UNCHANGED vars PROVE Kept
  BY <1>1 DEF Process, TimerFindsNothing, Stop, vars
<1>2. ASSUME NEW i \in Ids, NEW a \in Attempts, NEW d \in BOOLEAN, AddJob(i, a, d) PROVE Kept
  BY <1>2, AppendProperties, LenProperties DEF AddJob, TypeOK
<1>3. ASSUME NEW m \in DOMAIN job, DelayTimerFires(m) PROVE Kept
  <2> DEFINE k == store[job[m].id]
  <2>1. job' \in {job, [job EXCEPT ![k].state = "waiting"]}
    BY <1>3 DEF DelayTimerFires
  <2> HIDE DEF k
  <2>2. job[n] \in JobRecord
    BY ElementOfSeq, LenProperties DEF TypeOK
  <2> QED
    BY <2>1, <2>2 DEF TypeOK, JobRecord
<1>4. ASSUME NEW m \in DOMAIN job, BecomesDue(m) PROVE Kept
  BY <1>4 DEF BecomesDue, TypeOK
<1>5. ASSUME NEW t \in Ticks, NEW ok \in BOOLEAN, ProcessorSettles(t, ok) PROVE Kept
  <2> DEFINE m == Current(t)
  <2>1. job' \in {[job EXCEPT ![m].state = "completed"],
                  [job EXCEPT ![m].state = "waiting", ![m].due = TRUE],
                  [job EXCEPT ![m].state = "failed"]}
    BY <1>5 DEF ProcessorSettles
  <2> HIDE DEF m
  <2>2. job[n] \in JobRecord
    BY ElementOfSeq, LenProperties DEF TypeOK
  <2> QED
    BY <2>1, <2>2 DEF TypeOK, JobRecord
<1>6. ASSUME NEW t \in Ticks, TickEnds(t) PROVE Kept
  BY <1>6 DEF TickEnds
<1>7. ASSUME NEW t \in Ticks, TimerFires(t) PROVE ~stopped /\ job[n].due
  <2>1. PICK list \in RunnableLists : RunJob(t, list)
    BY <1>7 DEF TimerFires
  <2>2. /\ list \in Seq(DOMAIN job)
        /\ list # <<>>
        /\ \A k \in DOMAIN list : job[list[k]].due
    BY <1>7, TakenList DEF TimerFires
  <2>3. Head(list) = list[1] /\ 1 \in DOMAIN list
    BY <2>2, ListHeadTail
  <2>4. n = Head(list)
    BY <2>1, <2>2, <1>0
  <2>5. ~stopped
    BY <1>7 DEF TimerFires, StoppedIsUnarmed
  <2> QED
    BY <2>2, <2>3, <2>4, <2>5
<1>8. ASSUME NEW t \in Ticks, NextJob(t) PROVE ~stopped /\ job[n].due
  <2> DEFINE list == tick[t].list
  <2>1. RunJob(t, list) /\ list # <<>> /\ ~stopped
    BY <1>8 DEF NextJob, LoopGoesOn
  <2>2. list \in Seq(DOMAIN job) /\ \A k \in DOMAIN list : job[list[k]].due
    BY DEF TypeOK, TickRecord, ListsAreDue
  <2>3. Head(list) = list[1] /\ 1 \in DOMAIN list
    BY <2>1, <2>2, ListHeadTail
  <2>4. n = Head(list)
    BY <2>1, <2>2, <1>0
  <2> QED
    BY <2>1, <2>2, <2>3, <2>4
<1> QED
  BY <1>1, <1>2, <1>3, <1>4, <1>5, <1>6, <1>7, <1>8 DEF Next, TimerStep, TickStep

\* No processor is called after stop(), whatever was in progress.
THEOREM SpecNoStartAfterStop == Spec => NoStartAfterStop
<1> DEFINE Quieted == stopped => \A n \in DOMAIN job : job'[n].made = job[n].made
<1>1. IInv /\ [Next]_vars => Quieted
  BY StartingSteps
<1>2. [][Quieted]_vars => NoStartAfterStop
  BY PTL DEF NoStartAfterStop
<1> QED
  BY <1>1, <1>2, SpecIInv, PTL DEF Spec

\* No processor is called for a job whose delay is not over.
THEOREM SpecStartOnlyWhenDue == Spec => StartOnlyWhenDue
<1> DEFINE Punctual == \A n \in DOMAIN job : job'[n].made # job[n].made => job[n].due
<1>1. IInv /\ [Next]_vars => Punctual
  BY StartingSteps
<1>2. [][Punctual]_vars => StartOnlyWhenDue
  BY PTL DEF StartOnlyWhenDue
<1> QED
  BY <1>1, <1>2, SpecIInv, PTL DEF Spec
=============================================================================
