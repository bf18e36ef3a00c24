----------------------------- MODULE JobManager -----------------------------
(***************************************************************************)
(* The process-wide job manager of src/async.go (type jobManager): a FIFO  *)
(* queue of named jobs served by at most maxConcurrentJobs worker          *)
(* goroutines, with single-flight per non-empty name.  Every critical      *)
(* section under jobmanager.mu is one step; a job runs outside the mutex.  *)
(***************************************************************************)
EXTENDS Naturals, Sequences, FiniteSets, Functions

CONSTANTS
    Names,              \* the non-empty job names ("obtain:"+name, ...)
    NoName,             \* the empty name "": no duplicate prevention
    Workers,            \* identities for worker goroutines
    MaxConcurrentJobs,  \* jobManager.maxConcurrentJobs (1000 in the code)
    MaxQueue            \* model bound: Submit is not called on a longer queue

ASSUME JobManagerAssumption ==
    /\ NoName \notin Names
    /\ IsFiniteSet(Workers)
    /\ MaxConcurrentJobs \in Nat \ {0}
    /\ Cardinality(Workers) >= MaxConcurrentJobs
    /\ MaxQueue \in Nat \ {0}

JobNames == Names \cup {NoName}

(* Worker program counter: no goroutine / top of the for loop / running a  *)
(* job outside the mutex.                                                   *)
WorkerStates == {"idle", "loop", "run"}

VARIABLES
    queue,          \* jobmanager.queue, as the sequence of the jobs' names
    names,          \* jobmanager.names, the set of in-flight non-empty names
    activeWorkers,  \* jobmanager.activeWorkers
    pc,             \* pc[w]: where worker goroutine w is
    job             \* job[w]: name of the job worker w popped (pc[w] = "run")

vars == <<queue, names, activeWorkers, pc, job>>

-----------------------------------------------------------------------------
Init ==
    /\ queue = <<>>
    /\ names = {}
    /\ activeWorkers = 0
    /\ pc = [w \in Workers |-> "idle"]
    /\ job = [w \in Workers |-> NoName]

(* Submit(name, job), lines 30-48, one critical section.  A duplicate      *)
(* non-empty name returns early and changes nothing (a stuttering step).   *)
(* A new worker goroutine is started when fewer than maxConcurrentJobs are *)
(* active.                                                                  *)
\* Fault variant: the pool bound checked with <= (off by one).
SpawnWorkerOffByOne ==
    IF activeWorkers <= MaxConcurrentJobs
    THEN \E w \in Workers :
            /\ pc[w] = "idle"
            /\ pc' = [pc EXCEPT ![w] = "loop"]
            /\ activeWorkers' = activeWorkers + 1
    ELSE UNCHANGED <<pc, activeWorkers>>

SpawnWorker ==
    IF activeWorkers < MaxConcurrentJobs
    THEN \E w \in Workers :
            /\ pc[w] = "idle"
            /\ pc' = [pc EXCEPT ![w] = "loop"]
            /\ activeWorkers' = activeWorkers + 1
    ELSE UNCHANGED <<pc, activeWorkers>>

\* Fault variant: the empty name is recorded in names like any other.
SubmitNoEmptyCheck(n) ==
    /\ Len(queue) < MaxQueue
    /\ n \notin names
    /\ names' = names \cup {n}
    /\ queue' = Append(queue, n)
    /\ SpawnWorker
    /\ UNCHANGED job

\* Fault variant: the duplicate-name lookup dropped.
SubmitNoDedup(n) ==
    /\ Len(queue) < MaxQueue
    /\ names' = IF n = NoName THEN names ELSE names \cup {n}
    /\ queue' = Append(queue, n)
    /\ SpawnWorker
    /\ UNCHANGED job

Submit(n) ==
    /\ Len(queue) < MaxQueue
    /\ n = NoName \/ n \notin names
    /\ names' = IF n = NoName THEN names ELSE names \cup {n}
    /\ queue' = Append(queue, n)
    /\ SpawnWorker
    /\ UNCHANGED job

(* worker(), lines 52-60: under the mutex, pop the head of a non-empty     *)
(* queue; the job then runs outside the mutex.                              *)
Dequeue(w) ==
    /\ pc[w] = "loop"
    /\ queue # <<>>
    /\ job' = [job EXCEPT ![w] = Head(queue)]
    /\ queue' = Tail(queue)
    /\ pc' = [pc EXCEPT ![w] = "run"]
    /\ UNCHANGED <<names, activeWorkers>>

(* worker(), lines 52-56: on an empty queue the worker decrements          *)
(* activeWorkers under the mutex and returns.                               *)
\* Fault variant: the worker leaves without looking at the queue.
WorkerExitEarly(w) ==
    /\ pc[w] = "loop"
    /\ activeWorkers' = activeWorkers - 1
    /\ pc' = [pc EXCEPT ![w] = "idle"]
    /\ UNCHANGED <<queue, names, job>>

WorkerExit(w) ==
    /\ pc[w] = "loop"
    /\ queue = <<>>
    /\ activeWorkers' = activeWorkers - 1
    /\ pc' = [pc EXCEPT ![w] = "idle"]
    /\ UNCHANGED <<queue, names, job>>

(* worker(), lines 61-68: the job returns (its error is only logged); a    *)
(* non-empty name is then deleted from names under the mutex and the       *)
(* worker goes back to the top of its loop.                                 *)
\* Fault variant: the name is never deleted after the job returns.
FinishKeepName(w) ==
    /\ pc[w] = "run"
    /\ pc' = [pc EXCEPT ![w] = "loop"]
    /\ UNCHANGED <<queue, names, activeWorkers, job>>

Finish(w) ==
    /\ pc[w] = "run"
    /\ names' = IF job[w] # NoName THEN names \ {job[w]} ELSE names
    /\ pc' = [pc EXCEPT ![w] = "loop"]
    /\ UNCHANGED <<queue, activeWorkers, job>>

Next ==
    \/ \E n \in JobNames : Submit(n)
    \/ \E w \in Workers : Dequeue(w) \/ WorkerExit(w) \/ Finish(w)

(* The Go scheduler runs every runnable goroutine and sync.Mutex hands the *)
(* lock to a waiter that has waited over 1ms (starvation mode), so each    *)
(* worker's steps are weakly fair.  Callers of Submit get no fairness.     *)
Fairness ==
    \A w \in Workers :
        /\ WF_vars(Dequeue(w) \/ WorkerExit(w))
        /\ WF_vars(Finish(w))

Spec == Init /\ [][Next]_vars /\ Fairness

-----------------------------------------------------------------------------
Running == {w \in Workers : pc[w] = "run"}

Alive == {w \in Workers : pc[w] # "idle"}

TypeOK ==
    /\ queue \in Seq(JobNames)
    /\ Len(queue) <= MaxQueue
    /\ names \in SUBSET Names
    /\ activeWorkers \in Int
    /\ pc \in [Workers -> WorkerStates]
    /\ job \in [Workers -> JobNames]

(* Single flight (Submit's doc comment, spec 8.6): a job with a non-empty  *)
(* name is never queued twice, never queued while it runs, and never run   *)
(* by two workers at once -- which rests on Submit's lookup in names, on   *)
(* Finish deleting the name only after the job returned, and on Dequeue    *)
(* keeping the name while it moves a job from the queue to a worker.       *)
SingleFlight ==
    /\ \A i, j \in DOMAIN queue :
          i # j /\ queue[i] = queue[j] => queue[i] = NoName
    /\ \A v, w \in Running :
          v # w /\ job[v] = job[w] => job[v] = NoName
    /\ \A w \in Running, i \in DOMAIN queue :
          job[w] = queue[i] => job[w] = NoName

(* The set names is exactly the non-empty names of the queued and the      *)
(* running jobs: a name is neither lost while its job is pending (which    *)
(* would break single flight) nor kept after its job finished (which would *)
(* silently drop every later Submit of that name).                          *)
NamesTracked ==
    names = (Range(queue) \cup {job[w] : w \in Running}) \ {NoName}

(* activeWorkers counts the live worker goroutines and stays within        *)
(* maxConcurrentJobs, and a queued job always has a live worker that will  *)
(* reach it: Submit starts no worker when the pool is full, so a job would *)
(* be stranded if a worker could leave its loop with jobs still queued.    *)
WorkerAccounting ==
    /\ activeWorkers = Cardinality(Alive)
    /\ activeWorkers <= MaxConcurrentJobs
    /\ queue # <<>> => Alive # {}

-----------------------------------------------------------------------------
(* The refinement mapping: the abstract pending jobs are the named jobs   *)
(* in the queue, the abstract running ones those that workers run.        *)
Service == INSTANCE JobService WITH
    pending <- Range(queue) \ {NoName},
    running <- {job[w] : w \in Running} \ {NoName}

(* The job manager implements the single-flight job service: every step  *)
(* of Submit and of the workers is a step of the service or leaves the    *)
(* named jobs as they are, and under the workers' fairness every queued   *)
(* named job is started and every started one completes.                  *)
JobServiceSpec == Service!Spec

=============================================================================
