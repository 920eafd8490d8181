------------------------------ MODULE MCRuntime ------------------------------
(***************************************************************************)
(* What a server process runs on, in small instances: the Server with the   *)
(* threads of the IoContextPool, the cron jobs on the same threads, and the *)
(* dependency container.  They share the threads but no state, so that each *)
(* behaviour is about one of them while the others rest.                    *)
(***************************************************************************)
EXTENDS Server

CONSTANTS
  Jobs, NoJob, MaxBusy,                 \* of Cron
  Types, Resolvers, MaxEdges, Nobody    \* of DIContainer

VARIABLES
  part,
  created, jobs, pushing, running, wait, queued, pc, starting, stopping,
  erasing, pruning, hasty, orphans, failed, stoppedJobs, lateRuns,
  factories, singletons, resolving, mtx, stack, built

Scheduler == INSTANCE Cron WITH stopped <- stoppedJobs
Container == INSTANCE DIContainer WITH Threads <- Resolvers

ASSUME RuntimeAssumption ==
  Scheduler!CronAssumption /\ Container!DIAssumption

cron == <<created, jobs, pushing, running, wait, queued, pc, starting,
          stopping, erasing, pruning, hasty, orphans, failed, stoppedJobs,
          lateRuns>>
container == <<factories, singletons, resolving, mtx, stack, built>>

MCInit ==
  /\ part \in {"server", "cron", "container"}
  /\ Init /\ Scheduler!Init /\ Container!Init

MCNext ==
  \/ part = "server" /\ Next /\ UNCHANGED <<cron, container, part>>
  \/ part = "cron" /\ Scheduler!Next /\ UNCHANGED <<vars, container, part>>
  \/ part = "container" /\ Container!Next /\ UNCHANGED <<vars, cron, part>>

(* The fairness of each part, for the behaviours that are about it. *)
MCFairness ==
  /\ \A th \in Threads : WF_vars(part = "server" /\ Thread(th))
  /\ \A w \in Workers : WF_cron(part = "cron" /\ Scheduler!Work(w))
  /\ WF_cron(part = "cron" /\ Scheduler!PruneErase)
  /\ \A j \in Jobs :
       /\ WF_cron(part = "cron" /\ Scheduler!Expire(j))
       /\ WF_cron(part = "cron" /\ Scheduler!EndStart(j))
       /\ WF_cron(part = "cron" /\ Scheduler!EndStop(j))
  /\ \A t \in Resolvers :
       WF_container(part = "container" /\ Container!Work(t))

MCSpec ==
  MCInit /\ [][MCNext]_<<vars, cron, container, part>> /\ MCFairness

-----------------------------------------------------------------------------
(* The properties of Cron, about the chain of handlers of each job. *)
ChainSound == Scheduler!ChainSound
KeepsRunning == Scheduler!KeepsRunning

(* Those of DIContainer, about resolve() in several threads. *)
ResolveSound == Container!ResolveSound
ResolveEnds == Container!ResolveEnds
==============================================================================
