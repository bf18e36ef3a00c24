-------------------------- MODULE JobManagerProofs --------------------------
(***************************************************************************)
(* Proofs about the job manager of src/async.go (module JobManager), for   *)
(* every set of names and workers and every pool size: the type            *)
(* invariant, single flight per non-empty name, the bookkeeping of names   *)
(* and of live workers, and the refinement of the job service.             *)
(***************************************************************************)
EXTENDS JobManager, SequenceTheorems, FiniteSetTheorems, TLAPS

-----------------------------------------------------------------------------
(* Lemmas on the range of the queue under the two operations the job      *)
(* manager applies to it: append (Submit) and pop of the head (worker).    *)

LEMMA RangeAppend ==
    ASSUME NEW S, NEW s \in Seq(S), NEW e \in S
    PROVE  Range(Append(s, e)) = Range(s) \cup {e}
<1>1. /\ DOMAIN Append(s, e) = 1..Len(s) + 1
      /\ \A i \in 1..Len(s) : Append(s, e)[i] = s[i]
      /\ Append(s, e)[Len(s) + 1] = e
      /\ DOMAIN s = 1..Len(s)
    OBVIOUS
<1>2. QED
    BY <1>1 DEF Range

LEMMA RangeTail ==
    ASSUME NEW S, NEW s \in Seq(S), s # <<>>
    PROVE  Range(s) = Range(Tail(s)) \cup {Head(s)}
<1>1. /\ Len(s) >= 1
      /\ DOMAIN Tail(s) = 1..Len(s) - 1
      /\ \A i \in 1..Len(s) - 1 : Tail(s)[i] = s[i + 1]
      /\ Head(s) = s[1]
      /\ DOMAIN s = 1..Len(s)
    OBVIOUS
<1>2. ASSUME NEW x \in Range(s) PROVE x \in Range(Tail(s)) \cup {Head(s)}
  <2>1. PICK j \in 1..Len(s) : x = s[j]
    BY <1>1 DEF Range
  <2>2. CASE j = 1
    BY <1>1, <2>1, <2>2
  <2>3. CASE j # 1
    <3>1. j - 1 \in 1..Len(s) - 1 /\ Tail(s)[j - 1] = x
      BY <1>1, <2>1, <2>3
    <3>2. QED
      BY <1>1, <3>1 DEF Range
  <2>4. QED
    BY <2>2, <2>3
<1>3. ASSUME NEW x \in Range(Tail(s)) \cup {Head(s)} PROVE x \in Range(s)
  <2>1. CASE x = Head(s)
    BY <1>1, <2>1 DEF Range
  <2>2. CASE x \in Range(Tail(s))
    <3>1. PICK j \in 1..Len(s) - 1 : x = Tail(s)[j]
      BY <1>1, <2>2 DEF Range
    <3>2. j + 1 \in 1..Len(s) /\ x = s[j + 1]
      BY <1>1, <3>1
    <3>3. QED
      BY <1>1, <3>2 DEF Range
  <2>3. QED
    BY <2>1, <2>2
<1>4. QED
    BY <1>2, <1>3

-----------------------------------------------------------------------------
(* The type invariant: Submit appends a job name and may start a worker;   *)
(* a worker pops the head of a non-empty queue.                             *)
LEMMA SpawnWorkerType ==
    ASSUME TypeOK, SpawnWorker
    PROVE  /\ pc' \in [Workers -> WorkerStates]
           /\ activeWorkers' \in Int
           /\ {w \in Workers : pc'[w] = "run"} = Running
BY DEF SpawnWorker, TypeOK, WorkerStates, Running

LEMMA TypeStep == TypeOK /\ [Next]_vars => TypeOK'
<1> SUFFICES ASSUME TypeOK, [Next]_vars PROVE TypeOK'
    OBVIOUS
<1>1. ASSUME NEW n \in JobNames, Submit(n) PROVE TypeOK'
  <2>1. queue' \in Seq(JobNames) /\ Len(queue') <= MaxQueue
    <3>1. queue \in Seq(JobNames) /\ n \in JobNames
      BY DEF TypeOK
    <3>2. Append(queue, n) \in Seq(JobNames)
          /\ Len(Append(queue, n)) = Len(queue) + 1
      BY <3>1, AppendProperties
    <3>3. QED
      BY <1>1, <3>2, JobManagerAssumption DEF Submit
  <2>2. names' \in SUBSET Names
    BY <1>1 DEF Submit, TypeOK, JobNames
  <2>3. pc' \in [Workers -> WorkerStates] /\ activeWorkers' \in Int
    BY <1>1, SpawnWorkerType DEF Submit
  <2>4. QED
    BY <1>1, <2>1, <2>2, <2>3 DEF Submit, TypeOK
<1>2. ASSUME NEW w \in Workers, Dequeue(w) PROVE TypeOK'
  <2>1. queue' \in Seq(JobNames) /\ Len(queue') <= MaxQueue
    <3>1. queue \in Seq(JobNames) /\ queue # <<>>
      BY <1>2 DEF TypeOK, Dequeue
    <3>2. Tail(queue) \in Seq(JobNames) /\ Len(Tail(queue)) = Len(queue) - 1
      BY <3>1, HeadTailProperties
    <3>3. QED
      BY <1>2, <3>2, JobManagerAssumption DEF Dequeue, TypeOK
  <2>2. job' \in [Workers -> JobNames]
    BY <1>2 DEF Dequeue, TypeOK
  <2>3. QED
    BY <1>2, <2>1, <2>2 DEF Dequeue, TypeOK, WorkerStates
<1>3. ASSUME NEW w \in Workers, WorkerExit(w) PROVE TypeOK'
  BY <1>3 DEF WorkerExit, TypeOK, WorkerStates
<1>4. ASSUME NEW w \in Workers, Finish(w) PROVE TypeOK'
  BY <1>4 DEF Finish, TypeOK, WorkerStates
<1>5. CASE UNCHANGED vars
  BY <1>5 DEF vars, TypeOK
<1>6. QED
  BY <1>1, <1>2, <1>3, <1>4, <1>5 DEF Next
THEOREM TypeCorrect == Spec => []TypeOK
<1>1. Init => TypeOK
    BY JobManagerAssumption DEF Init, TypeOK, JobNames, WorkerStates
<1>2. TypeOK /\ [Next]_vars => TypeOK'
    BY TypeStep
<1>3. QED
    BY <1>1, <1>2, PTL DEF Spec

-----------------------------------------------------------------------------
(* Single flight.  SingleFlight alone is not inductive: Submit's lookup in *)
(* names only keeps a name unique if names holds every pending name, so    *)
(* the invariant is strengthened with NamesTracked.                        *)
IInv == TypeOK /\ SingleFlight /\ NamesTracked

(* The jobs pending under the mutex's view: queued or running. *)
Pending == Range(queue) \cup {job[w] : w \in Running}

LEMMA InitIInv == Init => IInv
<1> SUFFICES ASSUME Init PROVE IInv
    OBVIOUS
<1>1. TypeOK
    BY JobManagerAssumption DEF Init, TypeOK, JobNames, WorkerStates
<1>2. Running = {} /\ DOMAIN queue = {}
    BY DEF Init, Running
<1>3. Range(queue) = {}
    BY <1>2 DEF Range
<1>4. QED
    BY <1>1, <1>2, <1>3 DEF Init, IInv, SingleFlight, NamesTracked

LEMMA SubmitIInv ==
    ASSUME IInv, NEW n \in JobNames, Submit(n)
    PROVE  IInv'
<1> USE DEF IInv
<1>1. TypeOK'
    BY TypeStep DEF Next
<1>2. /\ Running' = Running
      /\ job' = job
      /\ queue' = Append(queue, n)
      /\ queue \in Seq(JobNames)
    BY SpawnWorkerType DEF Submit, TypeOK, Running
<1>3. /\ DOMAIN queue' = 1..Len(queue) + 1
      /\ \A i \in 1..Len(queue) : queue'[i] = queue[i]
      /\ queue'[Len(queue) + 1] = n
      /\ DOMAIN queue = 1..Len(queue)
    BY <1>2
<1>4. n # NoName => n \notin Pending
    BY DEF Submit, NamesTracked, Pending
<1>5. n # NoName => \A i \in 1..Len(queue) : queue[i] # n
    BY <1>3, <1>4 DEF Pending, Range
<1>6. SingleFlight'
  <2>1. ASSUME NEW i \in DOMAIN queue', NEW j \in DOMAIN queue',
               i # j, queue'[i] = queue'[j]
        PROVE  queue'[i] = NoName
    BY <2>1, <1>3, <1>5 DEF SingleFlight
  <2>2. ASSUME NEW v \in Running', NEW w \in Running', v # w, job'[v] = job'[w]
        PROVE  job'[v] = NoName
    BY <2>2, <1>2 DEF SingleFlight
  <2>3. ASSUME NEW w \in Running', NEW i \in DOMAIN queue', job'[w] = queue'[i]
        PROVE  job'[w] = NoName
    <3>1. n # NoName => job[w] # n
      BY <1>2, <1>4 DEF Pending
    <3>2. QED
      BY <2>3, <1>2, <1>3, <3>1 DEF SingleFlight
  <2>4. QED
    BY <2>1, <2>2, <2>3 DEF SingleFlight
<1>7. NamesTracked'
  <2>1. Range(queue') = Range(queue) \cup {n}
    BY <1>2, RangeAppend
  <2>2. QED
    BY <1>2, <2>1 DEF Submit, NamesTracked
<1>8. QED
    BY <1>1, <1>6, <1>7

LEMMA DequeueIInv ==
    ASSUME IInv, NEW w \in Workers, Dequeue(w)
    PROVE  IInv'
<1> USE DEF IInv
<1>1. TypeOK'
    BY TypeStep DEF Next
<1>2. /\ w \notin Running
      /\ Running' = Running \cup {w}
      /\ job'[w] = queue[1]
      /\ \A v \in Workers \ {w} : job'[v] = job[v]
      /\ queue' = Tail(queue)
      /\ queue \in Seq(JobNames) /\ queue # <<>>
    BY DEF Dequeue, TypeOK, Running
<1>3. /\ Len(queue) >= 1
      /\ DOMAIN queue' = 1..Len(queue) - 1
      /\ \A i \in 1..Len(queue) - 1 : queue'[i] = queue[i + 1]
      /\ DOMAIN queue = 1..Len(queue)
      /\ Head(queue) = queue[1]
    BY <1>2
<1>4. SingleFlight'
  <2>1. ASSUME NEW i \in DOMAIN queue', NEW j \in DOMAIN queue',
               i # j, queue'[i] = queue'[j]
        PROVE  queue'[i] = NoName
    <3>1. /\ i + 1 \in DOMAIN queue /\ j + 1 \in DOMAIN queue /\ i + 1 # j + 1
          /\ queue[i + 1] = queue[j + 1]
      BY <2>1, <1>3
    <3>2. QED
      BY <2>1, <3>1, <1>3 DEF SingleFlight
  <2>2. ASSUME NEW u \in Running', NEW v \in Running', u # v, job'[u] = job'[v]
        PROVE  job'[u] = NoName
    <3>1. CASE u = w
      <4>1. v \in Running /\ job'[v] = job[v] /\ job'[u] = queue[1]
            /\ 1 \in DOMAIN queue
        BY <2>2, <3>1, <1>2, <1>3 DEF Running
      <4>2. QED
        BY <2>2, <4>1 DEF SingleFlight
    <3>2. CASE v = w
      <4>1. u \in Running /\ job'[u] = job[u] /\ job'[v] = queue[1]
            /\ 1 \in DOMAIN queue
        BY <2>2, <3>2, <1>2, <1>3 DEF Running
      <4>2. QED
        BY <2>2, <4>1 DEF SingleFlight
    <3>3. CASE u # w /\ v # w
      <4>1. u \in Running /\ v \in Running /\ job'[u] = job[u] /\ job'[v] = job[v]
        BY <2>2, <3>3, <1>2 DEF Running
      <4>2. QED
        BY <2>2, <4>1 DEF SingleFlight
    <3>4. QED
      BY <3>1, <3>2, <3>3
  <2>3. ASSUME NEW u \in Running', NEW i \in DOMAIN queue', job'[u] = queue'[i]
        PROVE  job'[u] = NoName
    <3>1. CASE u = w
      <4>1. 1 # i + 1 /\ 1 \in DOMAIN queue /\ i + 1 \in DOMAIN queue
        BY <2>3, <1>3
      <4>2. QED
        BY <2>3, <3>1, <4>1, <1>2, <1>3 DEF SingleFlight
    <3>2. CASE u # w
      <4>1. /\ u \in Running /\ job'[u] = job[u]
            /\ i + 1 \in DOMAIN queue /\ queue'[i] = queue[i + 1]
        BY <2>3, <3>2, <1>2, <1>3 DEF Running
      <4>2. QED
        BY <2>3, <4>1 DEF SingleFlight
    <3>3. QED
      BY <3>1, <3>2
  <2>4. QED
    BY <2>1, <2>2, <2>3 DEF SingleFlight
<1>5. NamesTracked'
  <2>1. Range(queue) = Range(queue') \cup {queue[1]}
    BY <1>2, <1>3, RangeTail
  <2>2. {job'[v] : v \in Running'} = {job[v] : v \in Running} \cup {queue[1]}
    <3>1. \A v \in Running : job'[v] = job[v]
      BY <1>2 DEF Running
    <3>2. QED
      BY <1>2, <3>1
  <2>3. QED
    BY <2>1, <2>2 DEF Dequeue, NamesTracked
<1>6. QED
    BY <1>1, <1>4, <1>5

LEMMA WorkerExitIInv ==
    ASSUME IInv, NEW w \in Workers, WorkerExit(w)
    PROVE  IInv'
<1> USE DEF IInv
<1>1. TypeOK'
    BY TypeStep DEF Next
<1>2. Running' = Running
    BY DEF WorkerExit, Running
<1>3. QED
    BY <1>1, <1>2 DEF WorkerExit, SingleFlight, NamesTracked

LEMMA FinishIInv ==
    ASSUME IInv, NEW w \in Workers, Finish(w)
    PROVE  IInv'
<1> USE DEF IInv
<1>1. TypeOK'
    BY TypeStep DEF Next
<1>2. /\ w \in Running
      /\ Running' = Running \ {w}
      /\ job' = job /\ queue' = queue
    BY DEF Finish, TypeOK, Running
<1>3. SingleFlight'
    BY <1>2 DEF SingleFlight
<1>4. job[w] # NoName =>
        /\ job[w] \notin Range(queue)
        /\ \A v \in Running \ {w} : job[v] # job[w]
    BY <1>2 DEF SingleFlight, Range
<1>5. NamesTracked'
    BY <1>2, <1>4 DEF Finish, NamesTracked
<1>6. QED
    BY <1>1, <1>3, <1>5

LEMMA NextIInv == IInv /\ [Next]_vars => IInv'
<1> SUFFICES ASSUME IInv, [Next]_vars PROVE IInv'
    OBVIOUS
<1>1. CASE UNCHANGED vars
    BY <1>1 DEF vars, IInv, TypeOK, SingleFlight, NamesTracked, Running
<1>2. QED
    BY <1>1, SubmitIInv, DequeueIInv, WorkerExitIInv, FinishIInv DEF Next

(* Spec 8.6 for every instance of the constants: no non-empty job name is *)
(* queued twice, queued while it runs, or run twice at once.              *)
THEOREM SingleFlightHolds == Spec => []SingleFlight
<1>1. Init => IInv
    BY InitIInv
<1>2. IInv /\ [Next]_vars => IInv'
    BY NextIInv
<1>3. IInv => SingleFlight
    BY DEF IInv
<1>4. QED
    BY <1>1, <1>2, <1>3, PTL DEF Spec


(* names is exactly the set of non-empty names of the queued and running   *)
(* jobs, for every instance of the constants: Submit records a name before *)
(* it can be queued again and Finish forgets it only once its job ran.     *)
THEOREM NamesTrackedHolds == Spec => []NamesTracked
<1>1. Init => IInv
    BY InitIInv
<1>2. IInv /\ [Next]_vars => IInv'
    BY NextIInv
<1>3. IInv => NamesTracked
    BY DEF IInv
<1>4. QED
    BY <1>1, <1>2, <1>3, PTL DEF Spec

-----------------------------------------------------------------------------
(* The pool accounting.  WorkerAccounting is inductive with the type       *)
(* invariant: a worker is spawned only while the count is below the pool   *)
(* size, and then there is an idle worker to spawn (there are at least     *)
(* maxConcurrentJobs workers); a worker exits only on an empty queue.      *)
WInv == TypeOK /\ WorkerAccounting

LEMMA AliveFinite == IsFiniteSet(Alive)
BY JobManagerAssumption, FS_Subset DEF Alive

LEMMA SubmitWInv ==
    ASSUME WInv, NEW n \in JobNames, Submit(n)
    PROVE  WInv'
<1>1. TypeOK'
    BY TypeStep DEF WInv, Next
<1>2. queue' # <<>>
    BY DEF Submit
<1>3. CASE activeWorkers < MaxConcurrentJobs
  <2>1. PICK w \in Workers :
            /\ pc[w] = "idle"
            /\ pc' = [pc EXCEPT ![w] = "loop"]
            /\ activeWorkers' = activeWorkers + 1
    BY <1>3 DEF Submit, SpawnWorker
  <2>2. Alive' = Alive \cup {w} /\ w \notin Alive
    BY <2>1 DEF Alive, WInv, TypeOK
  <2>3. Cardinality(Alive') = Cardinality(Alive) + 1
    BY <2>2, AliveFinite, FS_AddElement
  <2>4. activeWorkers' = Cardinality(Alive')
    BY <2>1, <2>3 DEF WInv, WorkerAccounting
  <2>5. activeWorkers' <= MaxConcurrentJobs
    BY <1>3, <2>1, JobManagerAssumption DEF WInv, TypeOK
  <2>6. Alive' # {}
    BY <2>2
  <2>7. QED
    BY <1>1, <2>4, <2>5, <2>6 DEF WInv, WorkerAccounting
<1>4. CASE ~(activeWorkers < MaxConcurrentJobs)
  <2>1. UNCHANGED <<pc, activeWorkers>>
    BY <1>4 DEF Submit, SpawnWorker
  <2>2. Alive' = Alive
    BY <2>1 DEF Alive
  <2>3. Cardinality(Alive) >= 1
    BY <1>4, JobManagerAssumption DEF WInv, WorkerAccounting, TypeOK
  <2>4. Alive # {}
    BY <2>3, FS_EmptySet
  <2>5. QED
    BY <1>1, <2>1, <2>2, <2>4 DEF WInv, WorkerAccounting
<1>5. QED
    BY <1>3, <1>4

LEMMA DequeueWInv ==
    ASSUME WInv, NEW w \in Workers, Dequeue(w)
    PROVE  WInv'
<1>1. TypeOK'
    BY TypeStep DEF WInv, Next
<1>2. Alive' = Alive /\ w \in Alive
    BY DEF Dequeue, Alive, WInv, TypeOK
<1>3. QED
    BY <1>1, <1>2 DEF Dequeue, WInv, WorkerAccounting

LEMMA WorkerExitWInv ==
    ASSUME WInv, NEW w \in Workers, WorkerExit(w)
    PROVE  WInv'
<1>1. TypeOK'
    BY TypeStep DEF WInv, Next
<1>2. Alive' = Alive \ {w} /\ w \in Alive
    BY DEF WorkerExit, Alive, WInv, TypeOK
<1>3. Cardinality(Alive') = Cardinality(Alive) - 1
    BY <1>2, AliveFinite, FS_RemoveElement
<1>4. /\ activeWorkers' = activeWorkers - 1
      /\ activeWorkers = Cardinality(Alive)
      /\ activeWorkers <= MaxConcurrentJobs
      /\ activeWorkers \in Int
      /\ Cardinality(Alive) \in Nat
    BY AliveFinite, FS_CardinalityType DEF WorkerExit, WInv, WorkerAccounting, TypeOK
<1>5. activeWorkers' = Cardinality(Alive') /\ activeWorkers' <= MaxConcurrentJobs
    BY <1>3, <1>4, JobManagerAssumption
<1>6. QED
    BY <1>1, <1>5 DEF WorkerExit, WInv, WorkerAccounting

LEMMA FinishWInv ==
    ASSUME WInv, NEW w \in Workers, Finish(w)
    PROVE  WInv'
<1>1. TypeOK'
    BY TypeStep DEF WInv, Next
<1>2. Alive' = Alive
    BY DEF Finish, Alive, WInv, TypeOK
<1>3. QED
    BY <1>1, <1>2 DEF Finish, WInv, WorkerAccounting

(* For every pool size and number of workers, activeWorkers counts the    *)
(* live worker goroutines and never exceeds maxConcurrentJobs, and queued *)
(* jobs always have a live worker: Submit never strands a job.            *)
THEOREM WorkerAccountingHolds == Spec => []WorkerAccounting
<1>1. Init => WInv
  <2> SUFFICES ASSUME Init PROVE WInv
      OBVIOUS
  <2>1. Alive = {}
      BY DEF Init, Alive
  <2>2. QED
      BY <2>1, FS_EmptySet, JobManagerAssumption
         DEF Init, WInv, TypeOK, JobNames, WorkerStates, WorkerAccounting
<1>2. WInv /\ [Next]_vars => WInv'
  <2> SUFFICES ASSUME WInv, [Next]_vars PROVE WInv'
      OBVIOUS
  <2>1. CASE UNCHANGED vars
      BY <2>1 DEF vars, WInv, TypeOK, WorkerAccounting, Alive
  <2>2. QED
      BY <2>1, SubmitWInv, DequeueWInv, WorkerExitWInv, FinishWInv DEF Next
<1>3. QED
    BY <1>1, <1>2, PTL DEF Spec, WInv

-----------------------------------------------------------------------------
(* Refinement of the job service (module JobService), safety part: under  *)
(* the mapping of JobManager, Init is the service's Init and every step   *)
(* is Accept, Start or Complete of a named job or leaves the named        *)
(* pending and running jobs as they are.  The invariant IInv is what a    *)
(* step needs: NamesTracked makes Submit's lookup in names the service's  *)
(* test for a pending or running name, and SingleFlight makes the popped  *)
(* or finished name leave the set it was in.                              *)
AbsPending == Range(queue) \ {NoName}
AbsRunning == {job[w] : w \in Running} \ {NoName}

LEMMA InitRefines == Init => Service!Init
<1> SUFFICES ASSUME Init PROVE Service!Init
    OBVIOUS
<1>1. Running = {} /\ DOMAIN queue = {}
    BY DEF Init, Running
<1>2. QED
    BY <1>1 DEF Service!Init, Range

LEMMA SubmitRefines ==
    ASSUME IInv, NEW n \in JobNames, Submit(n)
    PROVE  [Service!Next]_Service!vars
<1>1. /\ Running' = Running /\ job' = job
      /\ queue \in Seq(JobNames)
      /\ Range(queue') = Range(queue) \cup {n}
    BY SpawnWorkerType, RangeAppend DEF Submit, IInv, TypeOK, Running
<1>2. AbsRunning' = AbsRunning
    BY <1>1 DEF AbsRunning
<1>3. CASE n = NoName
  <2>1. AbsPending' = AbsPending
    BY <1>1, <1>3 DEF AbsPending
  <2>2. QED
    BY <1>2, <2>1 DEF Service!vars, AbsPending, AbsRunning
<1>4. CASE n # NoName
  <2>1. n \in Names /\ n \notin AbsPending \cup AbsRunning
    BY <1>4 DEF Submit, IInv, NamesTracked, AbsPending, AbsRunning, JobNames
  <2>2. AbsPending' = AbsPending \cup {n}
    BY <1>1, <1>4 DEF AbsPending
  <2>3. Service!Accept(n)
    BY <1>2, <2>1, <2>2 DEF Service!Accept, AbsPending, AbsRunning
  <2>4. QED
    BY <2>1, <2>3 DEF Service!Next
<1>5. QED
    BY <1>3, <1>4

LEMMA DequeueRefines ==
    ASSUME IInv, NEW w \in Workers, Dequeue(w)
    PROVE  [Service!Next]_Service!vars
<1> DEFINE h == queue[1]
<1>1. /\ w \notin Running
      /\ Running' = Running \cup {w}
      /\ job'[w] = h
      /\ \A v \in Running : job'[v] = job[v]
      /\ queue \in Seq(JobNames) /\ queue # <<>>
      /\ queue' = Tail(queue) /\ Head(queue) = h
    BY DEF Dequeue, IInv, TypeOK, Running
<1>2. Range(queue) = Range(queue') \cup {h}
    BY <1>1, RangeTail
<1>3. {job'[v] : v \in Running'} = {job[v] : v \in Running} \cup {h}
    BY <1>1
<1>4. CASE h = NoName
  <2>1. AbsPending' = AbsPending /\ AbsRunning' = AbsRunning
    BY <1>2, <1>3, <1>4 DEF AbsPending, AbsRunning
  <2>2. QED
    BY <2>1 DEF Service!vars, AbsPending, AbsRunning
<1>5. CASE h # NoName
  <2>1. /\ Len(queue) >= 1 /\ DOMAIN queue = 1..Len(queue)
        /\ DOMAIN queue' = 1..Len(queue) - 1
        /\ \A i \in 1..Len(queue) - 1 : queue'[i] = queue[i + 1]
    BY <1>1
  <2>2. h \notin Range(queue')
    <3>1. SUFFICES ASSUME NEW i \in 1..Len(queue) - 1, queue'[i] = h PROVE FALSE
      BY <2>1 DEF Range
    <3>2. i + 1 \in DOMAIN queue /\ 1 \in DOMAIN queue /\ i + 1 # 1
          /\ queue[i + 1] = queue[1]
      BY <2>1, <3>1
    <3>3. QED
      BY <1>5, <3>2 DEF IInv, SingleFlight
  <2>3. h \in Names
    BY <1>1, <1>5 DEF IInv, TypeOK, JobNames
  <2>4. /\ h \in AbsPending
        /\ AbsPending' = AbsPending \ {h}
        /\ AbsRunning' = AbsRunning \cup {h}
    BY <1>2, <1>3, <2>2, <1>5 DEF AbsPending, AbsRunning
  <2>5. QED
    BY <2>3, <2>4 DEF Service!Next, Service!Start, AbsPending, AbsRunning
<1>6. QED
    BY <1>4, <1>5

LEMMA WorkerExitRefines ==
    ASSUME NEW w \in Workers, WorkerExit(w)
    PROVE  [Service!Next]_Service!vars
<1>1. Running' = Running
    BY DEF WorkerExit, Running
<1>2. QED
    BY <1>1 DEF WorkerExit, Service!vars

LEMMA FinishRefines ==
    ASSUME IInv, NEW w \in Workers, Finish(w)
    PROVE  [Service!Next]_Service!vars
<1>1. /\ w \in Running
      /\ Running' = Running \ {w}
      /\ job' = job /\ queue' = queue
    BY DEF Finish, IInv, TypeOK, Running
<1>2. CASE job[w] = NoName
  <2>1. AbsRunning' = AbsRunning
    BY <1>1, <1>2 DEF AbsRunning
  <2>2. QED
    BY <1>1, <2>1 DEF Service!vars, AbsRunning
<1>3. CASE job[w] # NoName
  <2>1. \A v \in Running \ {w} : job[v] # job[w]
    BY <1>1, <1>3 DEF IInv, SingleFlight
  <2>2. /\ job[w] \in AbsRunning
        /\ AbsRunning' = AbsRunning \ {job[w]}
        /\ AbsPending' = AbsPending
    BY <1>1, <1>3, <2>1 DEF AbsRunning, AbsPending
  <2>3. job[w] \in Names
    BY <1>1, <1>3 DEF IInv, TypeOK, JobNames
  <2>4. QED
    BY <2>2, <2>3 DEF Service!Next, Service!Complete, AbsPending, AbsRunning
<1>4. QED
    BY <1>2, <1>3

LEMMA NextRefines == IInv /\ [Next]_vars => [Service!Next]_Service!vars
<1> SUFFICES ASSUME IInv, [Next]_vars PROVE [Service!Next]_Service!vars
    OBVIOUS
<1>1. CASE UNCHANGED vars
    BY <1>1 DEF vars, Service!vars, Running
<1>2. QED
    BY <1>1, SubmitRefines, DequeueRefines, WorkerExitRefines, FinishRefines
       DEF Next

(* The job manager of src/async.go implements the safety part of the job  *)
(* service for every instance of the constants: what Submit and the       *)
(* workers do to named jobs is an accept, a start or a completion of the  *)
(* service, which accepts no name that is pending or running.             *)
THEOREM RefinesJobService ==
    Spec => Service!Init /\ [][Service!Next]_Service!vars
<1>1. Init => IInv
    BY InitIInv
<1>2. IInv /\ [Next]_vars => IInv'
    BY NextIInv
<1>3. Init => Service!Init
    BY InitRefines
<1>4. IInv /\ [Next]_vars => [Service!Next]_Service!vars
    BY NextRefines
<1>5. QED
    BY <1>1, <1>2, <1>3, <1>4, PTL DEF Spec

=============================================================================
