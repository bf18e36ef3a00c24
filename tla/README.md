# TLA+ models of otomatik

This directory holds TLA+ models of the concurrent parts of otomatik, an ACME
certificate-management library (`src/`). It has TLC configurations that check them on
small instances, and TLAPS proofs of the safety invariants of every component, for every
value of the constants, and of the job manager's refinement of an abstract job service. `spec.md` is
the design document. The models are translated from the Go source. Where `spec.md`
describes a component whose code is not under `src/`, the model of it is marked
*spec-modelled* in `PROJECT.json`.

## 1. The system and how its parts interact

| Part (spec id) | Code | State | Operations |
|---|---|---|---|
| Job manager (C5) | `async.go` 11-70 | `queue`, `names`, `activeWorkers`, `mu` | `Submit`; worker loop: dequeue, run, forget name, exit |
| Retry engine (C4) | `async.go` 72-154 | local: `start`, `intervalIndex`, `err`, `attempts` | `doWithRetry` loop: wait interval or cancel, call `f`, classify result |
| HTTP-01 solver (C8) | `solvers.go` 29-88 | global `solvers` table under `solversMu` (count, listener per address) | `Present`, `serve`, `CleanUp` |
| TLS-ALPN-01 solver (C8) | `solvers.go` 90-201 | the same table, plus `certCache` entries | `Present`, `CleanUp` |
| robust listen (C8) | `solvers.go` 334-388 | the OS's sockets | `robustTryListen`, `dialTCPSocket` |
| Distributed solver (C9) | `solvers.go` 230-301 | shared storage: `challenge_tokens/<domain>.json` | `Present` (Store, then inner Present), `CleanUp` (Delete, then inner CleanUp) |
| HTTP challenge handler | `httphandler.go` | reads storage | `HandleHTTPChallenge`, `distributedHTTPChallengeSolver`, `answerHTTPChallenge` |
| ACME client adapter (C10) | `acmeclient.go` | `acmeClients` cache under `acmeClientsMu`, `rateLimiters` | `newACMEClient(WithRetry)`, `initialChallenges`, `nextChallenge`, `throttle`, `revoke` |
| Storage (C1), key builder (C2), rate limiter (C3), user store (C6), cache (C7), lifecycle engine (C11) | not under `src/` | | described in `spec.md` 4.1-4.11 |

How the parts interact:

- The lifecycle engine (C11) obtains or renews a certificate for a name. It first holds
  the storage lock of the name. It then builds an ACME client (C10), which chooses one
  challenge type at a time.
- The ACME library (lego v3) calls the chosen solver's `Present`. It then has the CA
  validate, and calls `CleanUp`, but only if `Present` returned no error.
- Solvers are wrapped in `distributedSolver`. Its `Present` first stores the key
  authorization in shared storage. That lets whichever cluster instance receives the CA's
  request answer it: the HTTP handler and the TLS-ALPN `GetCertificate` both read it from
  storage.
- Listeners are shared among concurrent challenges through a reference-counted table, one
  entry per address.
- Async work, such as renewals, runs as named jobs in the job manager. Operations that
  may fail transiently go through `doWithRetry`.

The behaviours that make this code hard, and that the models reach:

- goroutines interleaving under a mutex: submitters and workers; challenges sharing a
  listener;
- several instances sharing storage;
- partial failure: Store or Delete failing, listen failing after the count was taken;
- other processes taking and releasing ports;
- timers racing cancellation;
- a deadline that is checked twice per iteration.

## 2. Modules

### JobManager.tla: `async.go` 11-70

- **State.** `queue` (a sequence of job names), `names`, `activeWorkers`, and per worker
  goroutine `pc[w]` (idle, at the top of its loop, running a job) and `job[w]`.
- **Jobs and the empty name.** A job is represented by its name. `NoName` stands for the
  empty name, which is never deduplicated.
- **Actions.** Each action is one critical section of the code:
  - `Submit(n)`: lines 30-48. It includes starting a worker (`SpawnWorker`, lines 44-47)
    when fewer than `MaxConcurrentJobs` are active.
  - `Dequeue(w)`: lines 52-60.
  - `WorkerExit(w)`: lines 52-56, on an empty queue.
  - `Finish(w)`: lines 61-68. The job returns, and its name is deleted.
- **Bounds.** `MaxQueue` bounds the queue. It is a model bound: the Go slice is unbounded.

### JobService.tla: the abstract job service (spec 4.5)

- **State.** `pending` and `running`: the sets of named jobs accepted and not started,
  and started and not completed.
- **Actions.** `Accept(n)` (only when `n` is in neither set), `Start(n)`, `Complete(n)`.
  Jobs with the empty name are invisible at this level.
- **Fairness.** `Start` and `Complete` of every name are weakly fair.
- **Refinement.** `JobManager` defines `Service == INSTANCE JobService WITH pending <-
  Range(queue) \ {NoName}, running <- {job[w] : w \in Running} \ {NoName}` and
  `JobServiceSpec == Service!Spec`. Submit of a new name is `Accept`, Dequeue of a named
  head is `Start`, Finish of a named job is `Complete`, and every other step (the empty
  name, WorkerExit, a duplicate Submit) is a stutter of the service.

### Retry.tla: `doWithRetry`, `async.go` 72-114

- **Time.** `now` counts time units since `start`.
- **pc.** It is one of:
  - `loop`: the check at line 80;
  - `wait`: the `select` at line 86;
  - `call`: `f` runs, line 91;
  - `done`.
- **Actions.**
  - `LoopTop`: line 80, or the return at line 113.
  - `WaitCanceled`: lines 86-89.
  - `TimerFires`: line 90.
  - `FReturns(o)`: `f` returns nil, a retryable error, an `ErrNoRetry` or
    `context.Canceled`. It includes the index clamp (line 100), the second deadline
    check (line 103) and its `return nil` (line 109).
  - `Cancel`: the caller cancels the context.
  - `Tick`: time passes.
- **Time bounds.** Time passes only while something really takes time:
  - while the timer is pending;
  - while `f` runs (at most `CallBound`);
  - one unit between the check at line 103 and the check at line 80.
- **Schedule.** `Intervals` is a scaled-down `retryIntervals`.

### ChallengeSolvers.tla: `solvers.go` and `httphandler.go`

- **State.**
  - Shared storage `tokens[d]`: which challenge's token file exists for domain `d`.
  - Per instance:
    - the solver table: `table[i]` is the addresses with an entry, `count[i][a]` the
      entry's count;
    - `listening[i]`: the entries whose `listener` is ours;
    - the TLS-ALPN certificates in `certCache` (`alpnCerts[i][d]`);
    - `port[i][a]`: what else holds the port: nothing, a server that answers dials, or
      something that makes both listen and dial fail.
  - Per challenge: the solve routine's `phase`.
  - `answered`: the challenges whose validation request found their key authorisation.
- **Actions.**
  - `LockName`: the order takes its name's storage lock (spec-modelled).
  - `StoreToken`: `distributedSolver.Present` 253-265.
  - `CacheALPNCert`: `tlsALPNSolver.Present` 105-116.
  - `PresentHTTP` and `PresentALPN`: the solver-table critical section `SolverPresent`,
    lines 36-59 and 123-161. It uses `RobustTryListen`, lines 334-377, whose three
    outcomes are mapped from `port`.
  - `Validate`: the CA's request reaches any instance. It is answered when the address is
    served there and the storage token, or for TLS-ALPN that instance's cached
    certificate, is this challenge's.
  - `DeleteToken`: 276-280.
  - `UncacheALPNCert`: 182-184.
  - `CleanUpHTTP` and `CleanUpALPN`: the critical section `SolverCleanUp`, lines 73-88
    and 186-200.
  - `PortChange`: other processes bind or release ports we do not hold.
- **Assumptions.** The model assumes lego's contract: CleanUp runs only after a Present
  that returned nil. A failed Present or Store ends the routine in `done`.

### AcmeClient.tla: `acmeclient.go`

- **State.**
  - Process-wide: `clients` (the CA URLs with a lego client in `acmeClients`),
    `built[u]` (how many lego clients were made for `u`), `registered` (CA URLs whose
    stored user has a registration), `buckets` (the keys of `rateLimiters`), and
    `providers[u][t]` (which challenge providers `u`'s lego client has).
  - The manager's `CA` and `TestCA` (`mgr`), chosen once from `MgrConfigs`.
  - Per order: `phase`, `tries`, `url` (the client's `caURL`), `avail` (the
    challenge list), `chosen`, `tried` and `result`.
- **URLs.** A CA URL is abstracted to a scheme (`none`, `http`, `https`) and a host.
  `CaURL` (lines 77-96) models the choice between TestCA, the default test CA, CA and
  the default CA, and the `https://` prefix; `Secure` (97-103) the HTTPS check, with
  loopback hosts allowed.
- **Actions.**
  - `NewClient(o)`: one call of `newACMEClient` (68-182) under `acmeClientsMu`, with its
    outcome (success, `lego.NewClient` failing, `Register` failing with or without
    HTTP 429, `saveUser` failing), and the retry decision `RetryClient` of
    `newACMEClientWithRetry` (47-62). A lego client made before a failed registration
    stays cached.
  - `Throttle(o)`: `throttle` (278-296) gets or makes the CA's rate limiter; the wait is
    a step that returns (the limiter is not under `src/`). It starts the list with
    `InitialChallenges` (185-200).
  - `NextChallenge(o)`: 212-228. It ends the order on an empty list, or pops a random
    type and removes every provider from the shared lego client.
  - `SetProvider(o)`: 230-275, installs the chosen type's provider.
  - `Solve(o)`: the ACME library validates with whatever providers the client has; the
    order then succeeds, tries the next challenge, or (with `Faults`) fails. This loop is
    in `tryObtain`, which is not under `src/`, and is spec-modelled (spec 4.11).
- **Atomicity.** `NextChallenge` and `SetProvider` touch the shared lego client
  without a lock. The model makes each of them one step and lets other orders
  interleave between them and with `Solve`. In Go this is also a data race on lego's
  solver map, whose worst outcome (a crash) the model does not represent.

## 3. Runs

| Run | Config | Checks | Result |
|---|---|---|---|
| job_manager | `MCJobManager.cfg` | TypeOK, SingleFlight, NamesTracked, WorkerAccounting, JobServiceSpec | pass |
| solvers_refcount | `MCChallengeSolvers.cfg` | TypeOK, RefCountAccurate, ListenerReleased | pass |
| solvers_faults | `MCChallengeSolversFaults.cfg` | TokenStoredWhilePresented, AlpnCertCachedWhilePresented | pass |
| solvers_listen_fault_leak | `MCChallengeSolversListenFault.cfg` | ListenerReleased | **violation** |
| solvers_delete_fault_leak | `MCChallengeSolversDeleteFault.cfg` | ListenerReleased | **violation** |
| retry_schedule | `MCRetry.cfg` | TypeOK, BackoffSchedule, GivesUpOnlyAtDeadline | pass |
| retry_false_success | `MCRetryFalseSuccess.cfg` | NoFalseSuccess | **violation** |
| acme_client | `MCAcmeClient.cfg` | TypeOK, ChallengesTriedOnce, OneClientPerCA, OrderTerminates | pass |
| acme_shared_client_race | `MCAcmeClientShared.cfg` | OwnSolverUsed | **violation** |
| acme_token_key_mismatch | `MCAcmeClientTokenKey.cfg` | TokenKeyAgrees | **violation** |

### What the properties say

- **SingleFlight.** A named job is never queued twice, never queued while running, and
  never run by two workers at once.
- **NamesTracked.** `names` is exactly the names of queued and running jobs. A leaked name
  would silently drop every later submission of it.
- **WorkerAccounting.** `activeWorkers` equals the number of live workers and stays
  within the pool, and queued work always has a live worker.
- **JobServiceSpec.** The job manager implements the abstract job service, checked as a
  temporal property: every step maps to a step of the service or a stutter, and, under
  weak fairness of each worker's steps, every accepted named job starts and every started
  one completes.
- **RefCountAccurate.** On every instance and address, the table entry exists exactly
  while challenges are in flight there and counts exactly them.
- **ListenerReleased.** With no challenge in flight, the entry is gone and our listener is
  closed (spec 8.4).
- **TokenStoredWhilePresented.** A presented challenge's token is in shared storage until
  its validation, so every instance can answer (spec 4.9).
- **AlpnCertCachedWhilePresented.** From Present to the start of CleanUp, a TLS-ALPN-01
  challenge's own instance has its certificate in `certCache` under its domain
  (`solvers.go` 111 and 183). Meanwhile, challenges of other domains sharing the `:443`
  listener cache and delete their own certificates. The faults run checks it, with every
  Store, Delete and listen fault enabled.
- **BackoffSchedule.** This is an action property. Each retry comes at least the scheduled
  interval after the failed call, and the last interval repeats.
- **GivesUpOnlyAtDeadline.** A retryable error ends the loop only once `maxRetryDuration`
  has elapsed.
- **NoFalseSuccess.** `doWithRetry` reports success only if `f` succeeded (spec 4.4 rule 5).
- **ChallengesTriedOnce.** An order tries each type of `initialChallenges` at most once,
  and the types it has not tried are exactly those left in its list.
- **OneClientPerCA.** Exactly one lego client is made per CA URL, however the orders and
  the failures interleave.
- **OrderTerminates.** Every order ends: the client retries and the challenge loop are
  bounded.
- **OwnSolverUsed.** While an order validates, its lego client has a provider for
  exactly the type the order chose (spec 4.10).
- **TokenKeyAgrees.** An HTTP-01 token is stored under the CA URL that the HTTP handler
  will look it up under, `manager.CA` (spec 4.9).

### Findings (the violation runs)

1. **`async.go:109`.** When the last retryable error comes back after the deadline,
   `doWithRetry` returns `nil`. The caller sees success. The spec says the last error is
   returned, which is what line 113 does when the first check fails.
2. **`solvers.go:41/51`, and 127/137 for TLS-ALPN.** `Present` counts the challenge
   before `robustTryListen`, and returns its error with the count kept. lego does not
   call CleanUp after a failed Present, so the entry never reaches 0. TLC's trace shows the
   table entry kept after the last challenge finished. That a listener a later challenge
   binds there is never closed follows from the code: the count stays above 0, so the
   last-one-out test of line 78 never passes.
3. **`solvers.go:279`.** `distributedSolver.CleanUp` returns the `Storage.Delete` error
   before the embedded CleanUp, with the same leak.
4. **`acmeclient.go:226`.** Orders on the same CA and email share one cached lego
   client, and `nextChallenge` removes all providers and sets one on it without a lock.
   With two orders, one order's `nextChallenge` removes the provider of the other while
   that order is validating, so its validation finds no solver or one for a type it did
   not choose.
5. **`httphandler.go:62`.** The HTTP handler looks a token up under `manager.CA`, but the
   solver stored it under the client's `caURL`. For an order on the test CA (Let's
   Encrypt staging by default) or a CA given without a scheme, the two differ, so another
   instance cannot answer the challenge. The solver's own HTTP listener serves through the
   same handler (`solvers.go:64`), so the instance that stored the token misses it too.

### Mutants

Every property of a passing run has a mutant in `PROJECT.json`: a fault variant defined
just before the action it replaces, which TLC must then find violating the property. The
mutants are:

- a dropped dedup;
- a kept name;
- `<=` for `<`;
- a worker exiting with jobs queued;
- an index never advanced, or clamped one too far;
- retries stopped when the schedule is exhausted;
- a Store error ignored;
- a certificate delete that empties the instance's whole cache;
- the count taken late;
- the last-one-out test off by one;
- the listener not closed;
- one client-creation retry too many;
- a lego client built even when one is cached;
- the chosen challenge not popped;
- an empty challenge list not ending the loop.

### Bounds and why they suffice

- **job_manager.** Two names plus the empty name, three workers, a pool of 2 and a queue of
  3. This reaches a full pool with an idle worker left over, duplicate submissions while
  a job is queued and while it runs, and a worker exiting just before a Submit.
- **solvers.** Two instances and four challenges:
  - two HTTP-01 challenges share instance i1's `:80`;
  - two TLS-ALPN-01 challenges share instance i2's `:443`;
  - each domain has one challenge on each instance, so the lock serialises them and
    validation can land on the other instance.

  Every port state can occur initially and change later. Each cfg enables the faults it
  is about.
- **retry.** Schedule `<<1,2,3>>` with `maxRetryDuration = 7`. This exhausts the schedule
  and repeats its last interval before the deadline. With 5 the schedule never runs out,
  and a give-up-at-exhaustion bug goes unseen. `CallBound = 1` lets a call straddle the
  deadline.

- **acme_client.** Two orders, one of them on the test CA, and four manager settings:
  - the default CA;
  - a custom CA without a scheme (prefixed with `https://`);
  - a custom CA over `http://` (refused, then retried once);
  - a loopback `http://` CA with the default CA as test CA.

  This puts the two orders on the same or on different lego clients. With `Faults`,
  every `newACMEClient` outcome and every validation failure occurs. `MaxTries = 2` is
  the code's constant. The run stops when every order is done, so deadlock is not
  checked.
- **acme_shared_client_race.** Two orders on the default CA, no faults: the smallest
  instance with two orders on one client.
- **acme_token_key_mismatch.** One order on the test CA, with the default CA or a
  scheme-less one.

### Fairness

- **Job manager.** Only its liveness property needs fairness. Each worker's steps are
  weakly fair, because the Go scheduler runs every runnable goroutine and `sync.Mutex`
  switches to starvation mode for waiters blocked over 1 ms.
- **Submit.** Callers of `Submit` get no fairness: nothing obliges anyone to submit.
- **ACME client.** Each order runs in a goroutine of its own, which the Go scheduler
  keeps running, so every order's steps are weakly fair together.
- **Job service.** `Start` and `Complete` are weakly fair per name. The refinement
  check shows the workers' fairness implies them.
- **The other modules.** They check only safety, so they assume no fairness.

## 4. Proofs

Four modules hold the proofs: `JobManagerProofs`, `RetryProofs`,
`ChallengeSolversProofs` and `AcmeClientProofs`. Each EXTENDS its component and TLAPS.
tlapm checks every obligation. Each invariant theorem has the same shape: an inductive
invariant with `Init => Inv`, one lemma per action for `Inv /\ [Next]_vars => Inv'`,
and a last step `BY ..., PTL DEF Spec`. Every strengthening was checked by TLC as an
invariant of the component's run before it was proved.

### JobManagerProofs.tla

- **`TypeCorrect`: `Spec => []TypeOK`.**
  - It rests on `TypeStep`, with one step per action.
  - Lemmas about `Range` of `Append` and `Tail` support it.
  - `activeWorkers` is typed `Int`, so TypeOK is inductive on its own. The bound on it is
    part of WorkerAccounting.
- **`SingleFlightHolds` and `NamesTrackedHolds`.**
  - Both are proved through `IInv == TypeOK /\ SingleFlight /\ NamesTracked`.
  - SingleFlight alone is not inductive. Submit's guard `n \notin names` excludes
    duplicates only because `names` covers every queued and running name, which is
    NamesTracked.
  - There is one lemma per action (`SubmitIInv`, `DequeueIInv`, `WorkerExitIInv`,
    `FinishIInv`), combined in `NextIInv`.
- **`WorkerAccountingHolds`: `Spec => []WorkerAccounting`.**
  - It is proved through `WInv == TypeOK /\ WorkerAccounting`.
  - The proof counts the live workers (`Alive`) with the cardinality facts of
    `FiniteSetTheorems`. A Submit that spawns a worker adds one to both sides. A
    WorkerExit on an empty queue removes one from both.
- **`RefinesJobService`: `Spec => Service!Init /\ [][Service!Next]_Service!vars`.**
  - This is the safety part of the refinement of `JobService`.
  - `InitRefines` shows an empty queue and no running worker map to empty sets.
  - One lemma per action maps it to a service step, using `IInv`:
    - a Submit of a new name is `Accept`, because `NamesTracked` makes `n \notin names`
      the service's test;
    - a Dequeue of a named head is `Start`, because `SingleFlight` keeps the head out of
      the rest of the queue;
    - a Finish of a named job is `Complete`, because no other worker runs that name;
    - every other step leaves both sets unchanged.

These hold for every set of names and workers, every pool size and every queue bound
allowed by `JobManagerAssumption`.

### RetryProofs.tla

- **`TypeCorrect`, `GivesUpOnlyAtDeadlineHolds` and `BackoffScheduleHolds`.** These
  hold for every schedule, every `maxRetryDuration` and every time bound allowed by
  `RetryAssumption`.
- **The inductive invariant** is `RInv == NumInv /\ CtlInv /\ GivesUpOnlyAtDeadline`.
  `NumInv` adds three facts about the loop:
  - the previous call ended in the past (`callEnd <= now`);
  - while the loop runs, `intervalIndex + 1` is the number of calls made, clamped at the
    schedule's length (`Scheduled`);
  - a pending timer was set at least the scheduled interval after the previous call ended.
- **Why it is needed.** `BackoffSchedule` is an action property about the timer firing.
  It follows from the last two facts and the guard `now >= deadline`. Without the
  index fact, the clamp at lines 100-102 could pick the wrong interval.

### ChallengeSolversProofs.tla

- **`TypeCorrect`, `TokenStoredWhilePresentedHolds` and
  `AlpnCertCachedWhilePresentedHolds`.** These hold for every cluster
  and every fault configuration. The first two are proved through
  `SInv == TypeOK /\ LockExclusive /\ TokenHeld /\ CountCovers`.
  - `LockExclusive`: a name's storage lock has at most one holder, the challenge in
    flight for it.
  - `TokenHeld`: a challenge from stored to checked holds that lock, and its token file
    is its own.
  - `CountCovers`: a solver entry's count is at least the challenges in flight at its
    address.
  - Together these show that no other challenge can overwrite or delete the token of a
    presented one.
  - `AlpnCertCachedWhilePresentedHolds` adds `CertHeld`, giving `CInv == SInv /\ CertHeld`.
    `CertHeld` says a TLS-ALPN challenge from caching to its removal has its certificate in
    its instance's cache. Another challenge writes or deletes only its own instance and
    domain (`CertOthers`). A challenge of the same domain would hold the same storage lock,
    which `LockExclusive` rules out.
- **`RefCountAccurateHolds` and `ListenerReleasedHolds`.** These are proved under the
  hypothesis `NoLeaks`: `Storage.Delete` cannot fail, and no port is in the `failing`
  state. This matches the `solvers_refcount` cfg. The two leak violation runs show that
  each half of the hypothesis is needed.
  - The inductive invariant is `RInv == SInv /\ RefCountAccurate`.
  - The count is the cardinality of the in-flight set (`InFlight`). `CountPresent` and
    `CountCleanUp` carry it through the steps that change it.
  - `ListenerReleased` follows from `RefCountAccurate` in each state.

### AcmeClientProofs.tla

- **`TypeCorrect`, `OneClientPerCAHolds` and `ChallengesTriedOnceHolds`.** These hold
  for every manager configuration, every number of orders and every challenge setting.
- **The inductive invariant** is `AInv == TypeOK /\ ClientInv /\ ThrottleInv /\
  URLInv /\ OneClientPerCA /\ ChallengesTriedOnce`.
  - `ClientInv`: an order still making its client has no URL and has tried nothing.
  - `URLInv`: an order's URL is the one `CaURL` gives for the manager's configuration.
  - Because of these two, the cache lookup of line 113 and the store of line 136 under
    the mutex make at most one client per URL.
- **Lemmas about the model's operators.**
  - `RemoveAtElems`: the length and elements of the slice pop of line 223.
  - `PopKeepsElems`: moving `a[i]` to `tried` keeps `tried \o avail` duplicate-free, with
    the same elements.
  - `InitialChallengesProps`: the initial list is a duplicate-free sequence of types.
- **`InitialChallenges`.** It is written with `\o` of conditional singletons, the way
  lines 185-200 append. The provers cannot reason about `SelectSeq`, so a filter would
  have been out of their reach.

### Only model-checked

- **Liveness and fairness.** This covers `OrderTerminates` and the fairness part of
  `JobServiceSpec`. TLAPS does not prove liveness from fairness or reason about ENABLED
  here.
- **The violation properties.** These are false of the code, which is what the runs show.
- **`ChallengeSolvers` with faults.** `RefCountAccurate` and `ListenerReleased` are
  proved only under `NoLeaks`. With faults they are false, and the violation runs show
  it.

## 5. Not modelled, and the plan

- **ACME client adapter (C10), partly.** `revoke` and the user agent string do not
  change state the properties see. The `tryObtain`/`tryRenew` loops are not under
  `src/`; their challenge loop is spec-modelled as `Solve`.
- **Rate limiter (C3), partly.** Only the map of limiters per CA and email is modelled.
  The ring buffer's `Wait` is not under `src/`, and is a step that always returns.
- **Spec-only components.** Storage, the key builder, the user store, the certificate
  cache and the lifecycle engine are not under `src/`. They are modelled only as far as
  the solvers use them.
- **Logging and formatting.** These are left out, including the `closed` flag set on the
  wrong struct at `solvers.go:80`, which only changes what is logged.
- **Further proofs.** The next candidates are the liveness properties, which need a
  prover for fairness, and the refinement of `JobService` with its fairness.
