---------------------------- MODULE SandboxQueue ----------------------------
(***************************************************************************)
(* createSandboxBullMQEnv of packages/queue/src/sandbox-queue.ts: an       *)
(* in-process stand-in for a BullMQ queue and its worker.                  *)
(*                                                                         *)
(* A tick is one call of the async function tick(): it takes a list of     *)
(* runnable jobs once and then runs them one after the other, awaiting the *)
(* processor of each.  The code between two awaits is one action.  Nothing *)
(* stops addJob, process or a delay timer from arming the scheduler while  *)
(* a tick is still awaiting a processor, so several ticks can be live.     *)
(*                                                                         *)
(* A job object is a number, in the order of creation; `store` is the Map  *)
(* from ids to objects.  Adding an id again stores a new object, and the   *)
(* old one may live on in the list of a tick.  Ids are numbers, ordered as *)
(* the scheduler orders the strings.  Wall-clock time is abstracted to one *)
(* flag per object: `due` once the clock has passed runAfter.              *)
(***************************************************************************)
EXTENDS Integers, Sequences, FiniteSets, SequencesExt

CONSTANTS
  Ids,       \* job ids
  Attempts,  \* values of options.attempts
  MaxJobs,   \* bound: number of addJob calls
  MaxTicks,  \* bound: number of ticks that are live at a time
  Quiet      \* TRUE: callers leave a live tick alone, and add no delayed job

ASSUME SandboxAssumption ==
  /\ Ids \subseteq Nat /\ IsFiniteSet(Ids)
  /\ Attempts \subseteq Nat \ {0}
  /\ MaxJobs \in Nat
  /\ MaxTicks \in Nat
  /\ Quiet \in BOOLEAN

Ticks == 1..MaxTicks
None == 0

VARIABLES
  job,         \* the objects created so far
  store,       \* the Map `jobs`: id -> object or None
  delayTimers, \* objects whose delay timer has not fired
  processor,   \* a processor is registered
  stopped,     \* stop() was called: `stopped`, and `running` is FALSE
  timer,       \* schedulerTimer is not null
  inflight,    \* ids in the set `inflight`
  tick         \* each tick: where it is and the jobs it has yet to finish

vars == <<job, store, delayTimers, processor, stopped, timer, inflight, tick>>

Terminal == {"completed", "failed"}
Pending == {"waiting", "delayed", "active"}

JobRecord == [id : Ids, attempts : Attempts, made : Nat,
              state : Pending \cup Terminal, due : BOOLEAN]

\* "idle": not live; "running": awaits the processor of Head(list);
\* "resumed": a microtask that goes on with `list` is queued.
TickRecord == [at : {"idle", "running", "resumed"}, list : Seq(DOMAIN job)]

Idle == [at |-> "idle", list |-> <<>>]

TypeOK ==
  /\ job \in Seq(JobRecord)
  /\ Len(job) <= MaxJobs
  /\ store \in [Ids -> {None} \cup DOMAIN job]
  /\ delayTimers \subseteq DOMAIN job
  /\ processor \in BOOLEAN
  /\ stopped \in BOOLEAN
  /\ timer \in BOOLEAN
  /\ inflight \subseteq Ids
  /\ tick \in [Ticks -> TickRecord]

Init ==
  /\ job = <<>>
  /\ store = [i \in Ids |-> None]
  /\ delayTimers = {}
  /\ processor = FALSE
  /\ stopped = FALSE
  /\ timer = FALSE
  /\ inflight = {}
  /\ tick = [t \in Ticks |-> Idle]

-----------------------------------------------------------------------------
Live(t) == tick[t].at # "idle"
Running(t) == tick[t].at = "running"
Current(t) == Head(tick[t].list)
IsStored(n) == n \in DOMAIN job /\ store[job[n].id] = n

\* hasPending() for a Map s of the jobs j.
HasPending(j, s) == \E i \in Ids : s[i] # None /\ j[s[i]].state \in Pending

\* The scheduler timer after scheduleTick().
ScheduleTick == timer \/ ~stopped

\* Timers are macrotasks: they wait for the microtasks that are queued.
NoMicrotask == \A t \in Ticks : tick[t].at # "resumed"

CallerMayAct == Quiet => \A t \in Ticks : ~Live(t)

\* process(next).  It has no guard: it works on a stopped queue too.
Process ==
  /\ CallerMayAct
  /\ processor' = TRUE
  /\ timer' = ScheduleTick
  /\ UNCHANGED <<job, store, delayTimers, stopped, inflight, tick>>

\* addJob(): stores a fresh object under its id, replacing what was there, and
\* arms the scheduler, and a timer of its own if the job is delayed.
AddJob(i, attempts, delayed) ==
  /\ CallerMayAct
  /\ Quiet => ~delayed
  /\ ~stopped
  /\ Len(job) < MaxJobs
  /\ LET n == Len(job) + 1
         new == [id |-> i, attempts |-> attempts, made |-> 0, due |-> ~delayed,
                 state |-> IF delayed THEN "delayed" ELSE "waiting"]
     IN /\ job' = Append(job, new)
        /\ store' = [store EXCEPT ![i] = n]
        /\ delayTimers' = IF delayed THEN delayTimers \cup {n} ELSE delayTimers
  /\ timer' = ScheduleTick
  /\ UNCHANGED <<processor, stopped, inflight, tick>>

\* The delay timer set for object n fires.  It looks its job up by id, so it
\* may find the object that replaced n, or none.
DelayTimerFires(n) ==
  /\ n \in delayTimers
  /\ NoMicrotask
  /\ delayTimers' = delayTimers \ {n}
  /\ LET m == store[job[n].id]
     IN IF m # None /\ job[m].state = "delayed"
        THEN /\ job' = [job EXCEPT ![m].state = "waiting"]
             /\ timer' = ScheduleTick
        ELSE UNCHANGED <<job, timer>>
  /\ UNCHANGED <<store, processor, stopped, inflight, tick>>

\* The clock reaches runAfter of object n, before or after its timer fires
\* (for an object that is not in the Map any more, nothing reads the flag).
BecomesDue(n) ==
  /\ IsStored(n)
  /\ ~job[n].due
  /\ job' = [job EXCEPT ![n].due = TRUE]
  /\ UNCHANGED <<store, delayTimers, processor, stopped, timer, inflight, tick>>

-----------------------------------------------------------------------------
\* Mutated IsRunnable: runAfter is not looked at.
IsRunnableEarly(n) == job[n].state = "waiting"

\* The jobs a tick takes are those of the Map that wait and are due.
IsRunnable(n) == job[n].state = "waiting" /\ job[n].due

RunnableIds == {i \in Ids : store[i] # None /\ IsRunnable(store[i])}

\* The list of a tick is sorted by id (there is one such list).
SortedIds == {f \in [1..Cardinality(RunnableIds) -> RunnableIds] :
                \A k, m \in DOMAIN f : k < m => f[k] < f[m]}
RunnableLists == {[k \in DOMAIN f |-> store[f[k]]] : f \in SortedIds}

\* Mutated MayRun: nobody looks at `inflight`.
MayRunAnyway(n) == processor

\* runJob() returns at once without a processor, or if the id is in flight.
MayRun(n) == processor /\ job[n].id \notin inflight

\* Mutated Locked: `inflight` holds job objects instead of ids.
LockedByObject(n) == inflight \cup {n}

Locked(n) == inflight \cup {job[n].id}

\* runJob() of the first job of `list`, called by tick t, up to its first
\* await.
RunJob(t, list) ==
  LET n == Head(list)
  IN IF MayRun(n)
     THEN /\ inflight' = Locked(n)
          /\ job' = [job EXCEPT ![n].state = "active", ![n].made = @ + 1]
          /\ tick' = [tick EXCEPT ![t] = [at |-> "running", list |-> list]]
     ELSE /\ tick' = [tick EXCEPT ![t] = [at |-> "resumed", list |-> Tail(list)]]
          /\ UNCHANGED <<job, inflight>>

\* The scheduler timer fires and nothing is runnable: poll again while some
\* job is pending.
TimerFindsNothing ==
  /\ timer
  /\ NoMicrotask
  /\ RunnableIds = {}
  /\ timer' = HasPending(job, store)
  /\ UNCHANGED <<job, store, delayTimers, processor, stopped, inflight, tick>>

\* Mutated TimerAfterFiring: schedulerTimer is not reset to null.
TimerStaysArmed == timer

TimerAfterFiring == FALSE

\* The scheduler timer fires: tick t takes its list and calls the first job.
TimerFires(t) ==
  /\ timer
  /\ NoMicrotask
  /\ ~Live(t) /\ \A u \in Ticks : u < t => Live(u)
  /\ RunnableIds # {}
  /\ timer' = TimerAfterFiring
  /\ \E list \in RunnableLists : RunJob(t, list)
  /\ UNCHANGED <<store, delayTimers, processor, stopped>>

\* Mutated HasRetry: one retry too many.
HasRetryOffByOne(n) == job[n].made <= job[n].attempts

HasRetry(n) == job[n].made < job[n].attempts

\* Mutated Unlocked: the id is deleted on success, not in a `finally`.
UnlockedOnSuccess(n, ok) == IF ok THEN inflight \ {job[n].id} ELSE inflight

Unlocked(n, ok) == inflight \ {job[n].id}

\* The processor that tick t awaits settles: the job is completed, goes back
\* to waiting (due at once) or has failed, and its id leaves `inflight`.
ProcessorSettles(t, ok) ==
  /\ Running(t)
  /\ LET n == Current(t)
     IN /\ job' = CASE ok -> [job EXCEPT ![n].state = "completed"]
                    [] ~ok /\ HasRetry(n) ->
                         [job EXCEPT ![n].state = "waiting", ![n].due = TRUE]
                    [] OTHER -> [job EXCEPT ![n].state = "failed"]
        /\ inflight' = Unlocked(n, ok)
  /\ tick' = [tick EXCEPT ![t] = [at |-> "resumed", list |-> Tail(@.list)]]
  /\ UNCHANGED <<store, delayTimers, processor, stopped, timer>>

\* Mutated LoopGoesOn: no `if (!running) break`.
LoopGoesOnAnyway(t) == tick[t].list # <<>>

LoopGoesOn(t) == tick[t].list # <<>> /\ ~stopped

\* Tick t goes on with the next job of the list it took at its start.
NextJob(t) ==
  /\ tick[t].at = "resumed"
  /\ LoopGoesOn(t)
  /\ RunJob(t, tick[t].list)
  /\ UNCHANGED <<store, delayTimers, processor, stopped, timer>>

\* Mutated RearmedAfterLoop: the tick ends without looking for pending jobs.
NotRearmedAfterLoop == timer

RearmedAfterLoop == IF HasPending(job, store) THEN ScheduleTick ELSE timer

\* Tick t leaves its loop, at the end of the list or because of stop(), and
\* arms the scheduler while some job is pending.
TickEnds(t) ==
  /\ tick[t].at = "resumed"
  /\ ~LoopGoesOn(t)
  /\ tick' = [tick EXCEPT ![t] = Idle]
  /\ timer' = RearmedAfterLoop
  /\ UNCHANGED <<job, store, delayTimers, processor, stopped, inflight>>

\* stop(): neither the ticks nor the delay timers nor `inflight` are touched.
Stop ==
  /\ stopped' = TRUE
  /\ timer' = FALSE
  /\ store' = [i \in Ids |-> None]
  /\ processor' = FALSE
  /\ UNCHANGED <<job, delayTimers, inflight, tick>>

TickStep(t) ==
  \/ \E ok \in BOOLEAN : ProcessorSettles(t, ok)
  \/ NextJob(t)
  \/ TickEnds(t)

TimerStep == TimerFindsNothing \/ \E t \in Ticks : TimerFires(t)

Next ==
  \/ Process
  \/ \E i \in Ids, a \in Attempts, d \in BOOLEAN : AddJob(i, a, d)
  \/ \E n \in DOMAIN job : DelayTimerFires(n) \/ BecomesDue(n)
  \/ TimerStep
  \/ \E t \in Ticks : TickStep(t)
  \/ Stop

Spec == Init /\ [][Next]_vars

\* Timers fire, microtasks run, processors settle and the clock goes on.
\* Nothing is assumed of the callers.
Fairness ==
  /\ WF_vars(TimerStep)
  /\ \A t \in Ticks : WF_vars(TickStep(t))
  /\ \A n \in 1..MaxJobs :
       WF_vars(n \in DOMAIN job /\ (DelayTimerFires(n) \/ BecomesDue(n)))

FairSpec == Spec /\ Fairness

-----------------------------------------------------------------------------
\* An object is `active` exactly while one tick, and only one, awaits its
\* processor, and `inflight` holds exactly the ids of those: two ticks never
\* run the same id at a time, and no id stays locked by a job that settled.
OneRunPerId ==
  /\ \A t, u \in Ticks :
       Running(t) /\ Running(u) /\ job[Current(t)].id = job[Current(u)].id => t = u
  /\ inflight = {job[Current(t)].id : t \in {u \in Ticks : Running(u)}}
  /\ \A n \in DOMAIN job :
       job[n].state = "active" <=> \E t \in Ticks : Running(t) /\ Current(t) = n

\* While a job of a running queue is pending, the scheduler timer is armed or
\* a tick is live that arms it when it ends.
NoLostWakeup ==
  ~stopped /\ HasPending(job, store) => timer \/ \E t \in Ticks : Live(t)

\* After stop() no processor is called any more, not even by a tick that was
\* in the middle of its list, or after a late process().
NoStartAfterStop ==
  [][stopped => \A n \in DOMAIN job : job'[n].made = job[n].made]_vars

\* A processor is never called for a job whose delay is not over, not even
\* when a timer of an object that the job replaced made it `waiting`.
StartOnlyWhenDue ==
  [][\A n \in DOMAIN job : job'[n].made # job[n].made => job[n].due]_vars

\* A job fails only after all its attempts, and never keeps a retry it does
\* not have: a waiting job has an attempt left.
RetriesAreCounted ==
  \A n \in DOMAIN job :
    /\ job[n].state = "failed" => job[n].made >= job[n].attempts
    /\ job[n].state \in {"waiting", "delayed"} => job[n].made < job[n].attempts

\* Once a processor is registered, each job is completed or failed in the end
\* unless it is replaced or the queue is stopped.
JobsSettle ==
  \A n \in 1..MaxJobs :
    processor /\ IsStored(n) ~>
      stopped \/ ~IsStored(n) \/ job[n].state \in Terminal

\* As test T-QUEUE-SB-701 has it: a completed job is not run again by a later
\* tick.
CompletedIsFinal ==
  [][\A n \in DOMAIN job : job[n].state = "completed" => job'[n].state = "completed"]_vars

-----------------------------------------------------------------------------
\* The lifecycle that the head comment of the source promises for each job,
\* with `waiting` and `delayed` both seen as queued.
Lifecycle == INSTANCE JobLifecycle WITH
  Jobs <- 1..MaxJobs,
  state <- [n \in 1..MaxJobs |->
              IF n \notin DOMAIN job THEN "none"
              ELSE IF job[n].state \in {"waiting", "delayed"} THEN "queued"
              ELSE IF job[n].state = "active" THEN "running"
              ELSE job[n].state],
  runs <- [n \in 1..MaxJobs |-> IF n \in DOMAIN job THEN job[n].made ELSE 0],
  budget <- [n \in 1..MaxJobs |-> IF n \in DOMAIN job THEN job[n].attempts ELSE 0],
  halted <- stopped

\* While callers leave live ticks alone, the sandbox is a worker of
\* concurrency 1 that runs each job at most `attempts` times and never again
\* once it is completed or failed.
ImplementsLifecycle == Lifecycle!Spec
=============================================================================
