-------------------------------- MODULE Cron --------------------------------
(***************************************************************************)
(* CronScheduler and its CronJobs.  The timer of a job holds at most one    *)
(* pending wait: setting it aborts the one before, whose handler then does  *)
(* nothing.  Its handlers run on the threads of the IoContextPool, while    *)
(* the application schedules, stops, prunes and starts jobs from others.    *)
(* Time is left out: a wait may end whenever it is pending.                 *)
(***************************************************************************)
EXTENDS Integers, Sequences, FiniteSets

CONSTANTS
  Jobs,           \* the jobs an application creates
  Workers,        \* threads of the IoContextPool
  NoJob,          \* no job
  MaxBusy         \* bound: jobs in start(), stop() and unschedule() at a time

CronAssumption == NoJob \notin Jobs /\ IsFiniteSet(Workers)

VARIABLES
  created,        \* jobs that exist
  jobs,           \* jobs_ of the scheduler
  pushing,        \* jobs that schedule() started and has yet to push
  running,        \* is_running_ of each job
  starting,       \* start() of each job, past its compare_exchange: no, or
                  \* check, arm (schedule_next), delay comes next
  wait,           \* the pending wait of each job: none, delay, cron
  queued,         \* handlers of waits that ended, not yet run
  pc,             \* of each worker, the job and the place in its handler
  stopping,       \* jobs in stop(): of each, flag or cancel comes next
  erasing,        \* jobs in unschedule()
  pruning,        \* jobs that prune_stopped() found stopped; it has the mutex
  hasty,          \* jobs that were started again before they came to rest
  orphans,        \* history: run since a start() after they left jobs_
  failed,         \* history: run, but the timer reported an error
  stopped,        \* history: stop() returned and nobody started it again
  lateRuns        \* history: runs that began since then

calls == <<starting, stopping, erasing, pruning>>
past == <<hasty, orphans, failed, stopped, lateRuns>>
vars == <<created, jobs, pushing, running, wait, queued, pc, calls, past>>

Queued(j) == {i \in DOMAIN queued : queued[i].job = j}
Active(j) == {w \in Workers : pc[w].job = j}
(* What goes on for a job: the start() that has yet to arm its timer, the   *)
(* pending wait, the queued handlers and the running handlers.              *)
Chains(j) == Cardinality(Queued(j)) + Cardinality(Active(j))
               + (IF wait[j] = "none" THEN 0 ELSE 1)
               + (IF starting[j] = "no" THEN 0 ELSE 1)

Free == [job |-> NoJob, at |-> "idle"]
MaxLate == 2      \* late runs are counted up to this
At(j, place) == [job |-> j, at |-> place]

(* The decisions of the code; a mutant of one stands before it.             *)
StartsAnyway(j) == TRUE                                        \* mutant
(* start(): compare_exchange_strong lets it start a job that is not running. *)
MayStart(j) == ~running[j]

(* The handler of a wait, and schedule_next, go on only if the job is still  *)
(* running.                                                                  *)
GoesOn(j) == running[j]

(* An exception of the task is logged, and the next time is scheduled.      *)
Continues(threw) == TRUE

OnlyReschedules(kind) == "next"                                \* mutant
(* What the handler of a wait goes on to: after the delay of a new job the  *)
(* first time is scheduled, at a time of the expression the task is called. *)
Resumes(kind) == IF kind = "delay" THEN "next" ELSE "call"

(* prune_stopped keeps a job. *)
Kept(j) == running[j]

-----------------------------------------------------------------------------
(* start() took the flag: with a delay it arms the timer next, without one   *)
(* it calls schedule_next, which looks at the flag first.                    *)
Started(first) == IF first = "delay" THEN "delay" ELSE "check"

(* schedule(): make the job, start it, at once or after a delay... *)
Schedule(j, first) ==
  /\ j \notin created /\ hasty = {}
  /\ created' = created \cup {j}
  /\ running' = [running EXCEPT ![j] = TRUE]
  /\ starting' = [starting EXCEPT ![j] = Started(first)]
  /\ pushing' = pushing \cup {j}
  /\ UNCHANGED <<jobs, wait, queued, pc, stopping, erasing, pruning, past>>

(* ... and push it, under the mutex. *)
Push(j) ==
  /\ j \in pushing /\ starting[j] = "no" /\ pruning = {}
  /\ pushing' = pushing \ {j}
  /\ jobs' = jobs \cup {j}
  /\ UNCHANGED <<created, running, wait, queued, pc, calls, past>>

(* The job was not stopped, or nothing of the stop() and of earlier          *)
(* handlers is left.                                                        *)
Rests(j) == running[j] \/ (Chains(j) = 0 /\ stopping[j] = "no")

(* A hasty start() comes while a start(), a stop() or a handler from before *)
(* has not ended.  Bound: it is made of a job that is alone, once until     *)
(* that job has rested, and no other is scheduled in the meantime.          *)
Alone(j) == created = {j} /\ hasty = {}

(* The scheduler holds the job and no unschedule() or prune_stopped() is     *)
(* about to take it out.                                                    *)
Held(j) == j \in jobs \ (erasing \cup pruning)

(* The jobs that the application is in a call of.  Calls on different jobs  *)
(* share only the mutex, which schedule(), stop_all() and prune_stopped()   *)
(* take meanwhile.                                                          *)
Busy == {i \in Jobs : starting[i] # "no" \/ stopping[i] # "no"} \cup erasing
MayCall(j) == Cardinality(Busy \cup {j}) <= MaxBusy

(* start() of a job that exists already.  It does not put the job back into *)
(* jobs_.  Bound: one thread at a time is in start() of a job.              *)
Start(j, first) ==
  /\ j \in created \ pushing /\ starting[j] = "no" /\ MayCall(j)
  /\ Rests(j) \/ Alone(j)
  /\ MayStart(j)
  /\ running' = [running EXCEPT ![j] = TRUE]
  /\ starting' = [starting EXCEPT ![j] = Started(first)]
  /\ hasty' = IF Rests(j) THEN hasty \ {j} ELSE hasty \cup {j}
  /\ orphans' = IF Held(j) THEN orphans \ {j} ELSE orphans \cup {j}
  /\ stopped' = stopped \ {j}
  /\ lateRuns' = [lateRuns EXCEPT ![j] = 0]
  /\ UNCHANGED <<created, jobs, pushing, wait, queued, pc, stopping, erasing,
                 pruning, failed>>

(* The check of schedule_next, in the thread that starts the job... *)
StartCheck(j) ==
  /\ starting[j] = "check"
  /\ starting' = [starting EXCEPT ![j] = IF GoesOn(j) THEN "arm" ELSE "no"]
  /\ UNCHANGED <<created, jobs, pushing, running, wait, queued, pc, stopping,
                 erasing, pruning, past>>

(* ... and the wait, which aborts the one before: a stop() may have         *)
(* cancelled the timer already, and this wait then stays until it ends.     *)
StartArm(j) ==
  /\ starting[j] \in {"arm", "delay"}
  /\ wait' = [wait EXCEPT ![j] = IF starting[j] = "arm" THEN "cron"
                                 ELSE "delay"]
  /\ starting' = [starting EXCEPT ![j] = "no"]
  /\ UNCHANGED <<created, jobs, pushing, running, queued, pc, stopping, erasing,
                 pruning, past>>

(* The calls of stop(): by the application, which has the handle; by        *)
(* unschedule; and by stop_all, which takes all jobs out first.  Bound: one *)
(* stop() of a job at a time.                                               *)
CallStop(j) ==
  /\ j \in created \ pushing /\ stopping[j] = "no" /\ MayCall(j)
  /\ stopping' = [stopping EXCEPT ![j] = "flag"]
  /\ UNCHANGED <<created, jobs, pushing, running, wait, queued, pc, starting,
                 erasing, pruning, past>>

Unschedule(j) ==
  /\ j \in created \ (pushing \cup erasing)
  /\ stopping[j] = "no" /\ MayCall(j)
  /\ stopping' = [stopping EXCEPT ![j] = "flag"]
  /\ erasing' = erasing \cup {j}
  /\ UNCHANGED <<created, jobs, pushing, running, wait, queued, pc, starting,
                 pruning, past>>

(* ... whose stop() has returned. *)
Erase(j) ==
  /\ j \in erasing /\ stopping[j] = "no" /\ pruning = {}
  /\ erasing' = erasing \ {j}
  /\ jobs' = jobs \ {j}
  /\ UNCHANGED <<created, pushing, running, wait, queued, pc, starting,
                 stopping, pruning, past>>

StopAll ==
  /\ jobs # {} /\ pruning = {}
  /\ jobs' = {}
  /\ stopping' = [j \in Jobs |-> IF j \in jobs /\ stopping[j] = "no"
                                 THEN "flag" ELSE stopping[j]]
  /\ UNCHANGED <<created, pushing, running, wait, queued, pc, starting, erasing,
                 pruning, past>>

(* stop(): first the flag, then timer_.cancel(). *)
StopFlag(j) ==
  /\ stopping[j] = "flag"
  /\ running' = [running EXCEPT ![j] = FALSE]
  /\ stopping' = [stopping EXCEPT ![j] = "cancel"]
  /\ orphans' = orphans \ {j} /\ failed' = failed \ {j}
  /\ UNCHANGED <<created, jobs, pushing, wait, queued, pc, starting, erasing,
                 pruning, hasty, stopped, lateRuns>>

StopCancel(j) ==
  /\ stopping[j] = "cancel"
  /\ wait' = [wait EXCEPT ![j] = "none"]
  /\ stopping' = [stopping EXCEPT ![j] = "no"]
  /\ stopped' = IF running[j] THEN stopped ELSE stopped \cup {j}
  /\ UNCHANGED <<created, jobs, pushing, running, queued, pc, starting, erasing,
                 pruning, hasty, orphans, failed, lateRuns>>

(* prune_stopped(): under the mutex of the scheduler, which start() and      *)
(* stop() do not take, it looks at the jobs...                              *)
PruneStopped ==
  /\ pruning = {}
  /\ pruning' = {j \in jobs : ~Kept(j)}
  /\ UNCHANGED <<created, jobs, pushing, running, wait, queued, pc, starting,
                 stopping, erasing, past>>

(* ... and erases those that it found stopped. *)
PruneErase ==
  /\ pruning # {}
  /\ jobs' = jobs \ pruning
  /\ pruning' = {}
  /\ UNCHANGED <<created, pushing, running, wait, queued, pc, starting,
                 stopping, erasing, past>>

-----------------------------------------------------------------------------
(* A wait ends and its handler joins the queue of the pool. *)
Expire(j) ==
  /\ wait[j] # "none"
  /\ queued' = Append(queued, At(j, wait[j]))
  /\ wait' = [wait EXCEPT ![j] = "none"]
  /\ UNCHANGED <<created, jobs, pushing, running, pc, calls, past>>

(* The handler looks at is_running_ and at the error of the wait: the       *)
(* delay's goes on to schedule_next, the other's to run().  After an error  *)
(* it returns, and the job is left running with nothing pending.            *)
Begin(w) ==
  /\ pc[w] = Free /\ queued # <<>>
  /\ queued' = Tail(queued)
  /\ LET h == Head(queued) IN
     \E ec \in BOOLEAN :
       /\ pc' = [pc EXCEPT ![w] = IF ec \/ ~GoesOn(h.job) THEN Free
                                  ELSE At(h.job, Resumes(h.at))]
       /\ failed' = IF ec /\ running[h.job] THEN failed \cup {h.job} ELSE failed
  /\ UNCHANGED <<created, jobs, pushing, running, wait, calls, hasty, orphans,
                 stopped, lateRuns>>

Run(w) ==
  LET j == pc[w].job IN
  /\ pc[w].at = "call"
  /\ pc' = [pc EXCEPT ![w] = At(j, "run")]
  /\ lateRuns' = [lateRuns EXCEPT ![j] = IF j \in stopped /\ @ < MaxLate
                                         THEN @ + 1 ELSE @]
  /\ UNCHANGED <<created, jobs, pushing, running, wait, queued, calls, hasty,
                 orphans, failed, stopped>>

(* run() returns or throws a std::exception. *)
RunEnds(w) ==
  /\ pc[w].at = "run"
  /\ \E threw \in BOOLEAN :
       pc' = [pc EXCEPT ![w] = IF Continues(threw) THEN At(pc[w].job, "next")
                               ELSE Free]
  /\ UNCHANGED <<created, jobs, pushing, running, wait, queued, calls, past>>

(* The check of is_running_ before schedule_next and in it... *)
Next1(w) ==
  /\ pc[w].at = "next"
  /\ pc' = [pc EXCEPT ![w] = IF GoesOn(pc[w].job) THEN At(pc[w].job, "arm")
                             ELSE Free]
  /\ UNCHANGED <<created, jobs, pushing, running, wait, queued, calls, past>>

(* ... and the wait for the next time. *)
Arm(w) ==
  /\ pc[w].at = "arm"
  /\ wait' = [wait EXCEPT ![pc[w].job] = "cron"]
  /\ pc' = [pc EXCEPT ![w] = Free]
  /\ UNCHANGED <<created, jobs, pushing, running, queued, calls, past>>

-----------------------------------------------------------------------------
Init ==
  /\ created = {} /\ jobs = {} /\ pushing = {} /\ erasing = {}
  /\ pruning = {} /\ hasty = {} /\ orphans = {} /\ failed = {}
  /\ queued = <<>>
  /\ starting = [j \in Jobs |-> "no"]
  /\ running = [j \in Jobs |-> FALSE]
  /\ wait = [j \in Jobs |-> "none"]
  /\ pc = [w \in Workers |-> Free]
  /\ stopping = [j \in Jobs |-> "no"]
  /\ stopped = {} /\ lateRuns = [j \in Jobs |-> 0]

Work(w) == Begin(w) \/ Run(w) \/ RunEnds(w) \/ Next1(w) \/ Arm(w)
EndStart(j) == StartCheck(j) \/ StartArm(j) \/ Push(j)
EndStop(j) == StopFlag(j) \/ StopCancel(j) \/ Erase(j)

Next ==
  \/ \E j \in Jobs : \/ \E first \in {"delay", "cron"} :
                            Schedule(j, first) \/ Start(j, first)
                     \/ CallStop(j) \/ Unschedule(j)
                     \/ EndStart(j) \/ EndStop(j) \/ Expire(j)
  \/ StopAll \/ PruneStopped \/ PruneErase
  \/ \E w \in Workers : Work(w)

Spec == Init /\ [][Next]_vars

(* Waits end, the pool runs its handlers, tasks return, calls return. *)
Fairness ==
  /\ \A w \in Workers : WF_vars(Work(w))
  /\ WF_vars(PruneErase)
  /\ \A j \in Jobs :
       WF_vars(Expire(j)) /\ WF_vars(EndStart(j)) /\ WF_vars(EndStop(j))
FairSpec == Spec /\ Fairness

-----------------------------------------------------------------------------
(* A job has one chain of handlers: it never runs twice at a time, and no   *)
(* two of its handlers use its timer.  (A hasty start adds one.)            *)
OneChain == \A j \in Jobs \ hasty : Chains(j) <= 1

(* is_running() is true of a job that will run again: something is pending, *)
(* queued or running for it.  (The stop() that a hasty start overtakes      *)
(* cancels the wait that the start made; after an error of the timer the    *)
(* flag stays set with nothing pending.)                                    *)
RunningIsScheduled ==
  \A j \in Jobs \ (hasty \cup failed) : running[j] => Chains(j) >= 1

(* A stop does not wait for a handler that has already looked, but at most  *)
(* one run begins after it.                                                 *)
OneLateRun == \A j \in Jobs \ hasty : lateRuns[j] <= 1

(* A job that runs can be stopped by the scheduler: it knows the job, or is *)
(* about to, or has just taken it out to stop it.  (start() does not put a   *)
(* job back: one that was taken out by stop_all(), unschedule() or          *)
(* prune_stopped() and is then started runs unknown to the scheduler.)      *)
NoneLost ==
  \A j \in Jobs \ (hasty \cup orphans) :
    running[j] => j \in jobs \cup pushing \/ stopping[j] # "no"

(* A job that runs has exactly one chain of handlers and is known to the    *)
(* scheduler, and a stop ends it after one run at most; but for the jobs    *)
(* that each part names.                                                    *)
ChainSound == OneChain /\ RunningIsScheduled /\ OneLateRun /\ NoneLost

(* A job runs again and again until it is stopped, whatever std::exception  *)
(* its task throws, unless its timer fails or a hasty start() was made.     *)
KeepsRunning ==
  \A j \in Jobs :
    running[j] ~> \/ ~running[j] \/ j \in hasty \cup failed
                  \/ \E w \in Workers : pc[w] = At(j, "run")
=============================================================================
