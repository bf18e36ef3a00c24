------------------------------- MODULE Retry --------------------------------
(***************************************************************************)
(* doWithRetry of src/async.go (lines 72-114): call f, and on a retryable  *)
(* error wait the next interval of retryIntervals (the last one repeats)   *)
(* and call it again, until f succeeds, returns context.Canceled or an     *)
(* ErrNoRetry, the context is cancelled, or maxRetryDuration has elapsed.  *)
(* Time is explicit: now counts time units since start.                    *)
(***************************************************************************)
EXTENDS Integers, Sequences

CONSTANTS
    Intervals,         \* retryIntervals, in time units
    MaxRetryDuration,  \* maxRetryDuration
    CallBound          \* model bound: a call of f takes at most this long

ASSUME RetryAssumption ==
    /\ Intervals \in Seq(Nat \ {0})
    /\ Len(Intervals) > 0
    /\ MaxRetryDuration \in Nat \ {0}
    /\ CallBound \in Nat

LastInterval == Intervals[Len(Intervals)]

(* Time never needs to pass beyond the last wait of the last attempt.     *)
TimeBound == MaxRetryDuration + LastInterval + CallBound

(* What a call of f returns: nil, a retryable error, an ErrNoRetry, or    *)
(* context.Canceled.                                                       *)
Outcomes == {"ok", "err", "noretry", "canceled"}

VARIABLES
    now,       \* time.Since(start)
    pc,        \* "loop" (line 80), "wait" (select, 86), "call" (f, 91), "done"
    index,     \* intervalIndex, -1 before the first attempt
    deadline,  \* when the timer of the current wait fires
    callEnd,   \* when the previous call of f returned (0 before any)
    attempts,  \* the attempt counter handed to f through the context
    err,       \* the last value f returned, "none" before any call
    result,    \* what doWithRetry returned, "none" while it runs
    canceled   \* ctx.Done() is closed

vars == <<now, pc, index, deadline, callEnd, attempts, err, result, canceled>>

-----------------------------------------------------------------------------
(* retryIntervals[intervalIndex], 0 for the first attempt (lines 81-84). *)
WaitFor(i) == IF i >= 0 THEN Intervals[i + 1] ELSE 0

Init ==
    /\ now = 0
    /\ pc = "loop"
    /\ index = -1
    /\ deadline = 0
    /\ callEnd = 0
    /\ attempts = 0
    /\ err = "none"
    /\ result = "none"
    /\ canceled = FALSE

(* Line 80: while less than maxRetryDuration elapsed, start the timer of  *)
(* the next wait; otherwise return the last error (line 113).             *)
LoopTop ==
    /\ pc = "loop"
    /\ IF now < MaxRetryDuration
       THEN /\ pc' = "wait"
            /\ deadline' = now + WaitFor(index)
            /\ UNCHANGED result
       ELSE /\ pc' = "done"
            /\ result' = err
            /\ UNCHANGED deadline
    /\ UNCHANGED <<now, index, callEnd, attempts, err, canceled>>

(* Lines 86-89: the context is done first; stop the timer and return     *)
(* context.Canceled.                                                       *)
WaitCanceled ==
    /\ pc = "wait"
    /\ canceled
    /\ pc' = "done"
    /\ result' = "canceled"
    /\ UNCHANGED <<now, index, deadline, callEnd, attempts, err, canceled>>

(* Lines 90-91: the timer fires and f is called. *)
TimerFires ==
    /\ pc = "wait"
    /\ now >= deadline
    /\ pc' = "call"
    /\ UNCHANGED <<now, index, deadline, callEnd, attempts, err, result, canceled>>

\* Fault variant: the interval index is never advanced.
FReturnsNoAdvance(o) ==
    /\ pc = "call"
    /\ o = "canceled" => canceled
    /\ attempts' = attempts + 1
    /\ err' = o
    /\ callEnd' = now
    /\ IF o \in {"ok", "canceled", "noretry"}
       THEN /\ pc' = "done"
            /\ result' = o
       ELSE IF now < MaxRetryDuration
            THEN /\ pc' = "loop"
                 /\ UNCHANGED result
            ELSE /\ pc' = "done"
                 /\ result' = "ok"
    /\ UNCHANGED <<now, index, deadline, canceled>>

\* Fault variant: the index is clamped one past the last interval.
FReturnsNoClamp(o) ==
    /\ pc = "call"
    /\ o = "canceled" => canceled
    /\ attempts' = attempts + 1
    /\ err' = o
    /\ callEnd' = now
    /\ IF o \in {"ok", "canceled", "noretry"}
       THEN /\ pc' = "done"
            /\ result' = o
            /\ UNCHANGED index
       ELSE /\ index' = IF index < Len(Intervals) THEN index + 1 ELSE index
            /\ IF now < MaxRetryDuration
               THEN /\ pc' = "loop"
                    /\ UNCHANGED result
               ELSE /\ pc' = "done"
                    /\ result' = "ok"
    /\ UNCHANGED <<now, deadline, canceled>>

\* Fault variant: the retries stop once the schedule is exhausted.
FReturnsStopWhenExhausted(o) ==
    /\ pc = "call"
    /\ o = "canceled" => canceled
    /\ attempts' = attempts + 1
    /\ err' = o
    /\ callEnd' = now
    /\ IF o \in {"ok", "canceled", "noretry"} \/ index = Len(Intervals) - 1
       THEN /\ pc' = "done"
            /\ result' = o
            /\ UNCHANGED index
       ELSE /\ index' = index + 1
            /\ IF now < MaxRetryDuration
               THEN /\ pc' = "loop"
                    /\ UNCHANGED result
               ELSE /\ pc' = "done"
                    /\ result' = "ok"
    /\ UNCHANGED <<now, deadline, canceled>>

(* Lines 91-110: f returns o.  nil and context.Canceled are returned, as  *)
(* is an ErrNoRetry; otherwise the interval index advances up to the last *)
(* one, and the loop goes on while less than maxRetryDuration elapsed --  *)
(* else doWithRetry logs "giving up" and returns nil (line 109).          *)
FReturns(o) ==
    /\ pc = "call"
    /\ o = "canceled" => canceled
    /\ attempts' = attempts + 1
    /\ err' = o
    /\ callEnd' = now
    /\ IF o \in {"ok", "canceled", "noretry"}
       THEN /\ pc' = "done"
            /\ result' = o
            /\ UNCHANGED index
       ELSE /\ index' = IF index < Len(Intervals) - 1 THEN index + 1 ELSE index
            /\ IF now < MaxRetryDuration
               THEN /\ pc' = "loop"
                    /\ UNCHANGED result
               ELSE /\ pc' = "done"
                    /\ result' = "ok"
    /\ UNCHANGED <<now, deadline, canceled>>

(* The caller cancels the context. *)
Cancel ==
    /\ ~canceled
    /\ pc # "done"
    /\ canceled' = TRUE
    /\ UNCHANGED <<now, pc, index, deadline, callEnd, attempts, err, result>>

(* Time passes: while f runs (at most CallBound after the timer fired),   *)
(* while the timer is pending, or for one unit between the check of line  *)
(* 103 and the check of line 80.                                           *)
Tick ==
    /\ pc # "done"
    /\ now < TimeBound
    /\ pc = "loop" => attempts > 0 /\ now = callEnd
    /\ pc = "wait" => now < deadline
    /\ pc = "call" => now < deadline + CallBound
    /\ now' = now + 1
    /\ UNCHANGED <<pc, index, deadline, callEnd, attempts, err, result, canceled>>

Next ==
    \/ LoopTop \/ WaitCanceled \/ TimerFires \/ Cancel \/ Tick
    \/ \E o \in Outcomes : FReturns(o)

Spec == Init /\ [][Next]_vars

-----------------------------------------------------------------------------
TypeOK ==
    /\ now \in 0..TimeBound
    /\ pc \in {"loop", "wait", "call", "done"}
    /\ index \in -1..(Len(Intervals) - 1)
    /\ deadline \in Nat
    /\ callEnd \in Nat
    /\ attempts \in Nat
    /\ err \in Outcomes \cup {"none"}
    /\ result \in Outcomes \cup {"none"}
    /\ canceled \in BOOLEAN

(* Spec 4.4 rule 5: doWithRetry reports success only when the last call  *)
(* of f succeeded -- when the duration runs out between attempts it       *)
(* returns the last error.                                                 *)
NoFalseSuccess ==
    pc = "done" /\ result = "ok" => err = "ok"

(* Spec 4.4 rule 2: before the k-th retry doWithRetry has waited, since   *)
(* the failed call returned, at least the k-th interval of the schedule   *)
(* -- the last one once the schedule is exhausted.                        *)
BackoffSchedule ==
    [][pc = "wait" /\ pc' = "call" /\ attempts > 0 =>
         now - callEnd >= Intervals[IF attempts < Len(Intervals)
                                    THEN attempts ELSE Len(Intervals)]]_vars

(* A retryable error ends the retries only once maxRetryDuration has      *)
(* elapsed: the engine does not give up when the schedule runs out.       *)
GivesUpOnlyAtDeadline ==
    pc = "done" /\ err = "err" /\ result # "canceled" => now >= MaxRetryDuration

=============================================================================
