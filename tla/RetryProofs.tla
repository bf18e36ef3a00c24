----------------------------- MODULE RetryProofs -----------------------------
(***************************************************************************)
(* Proofs about doWithRetry of src/async.go (module Retry), for every      *)
(* schedule retryIntervals, every maxRetryDuration and every bound on the  *)
(* length of a call: the type invariant, that a retryable error ends the   *)
(* retries only at the deadline, and that every retry waits its interval.  *)
(***************************************************************************)
EXTENDS Retry, TLAPS

(* The interval the next wait uses, once attempts calls have been made:   *)
(* retryIntervals[intervalIndex] with the index clamped at the last one.   *)
Scheduled(k) == IF k < Len(Intervals) THEN k ELSE Len(Intervals)

(* The inductive invariant, in a numeric and a control part.  Besides    *)
(* the types, GivesUpOnlyAtDeadline and the backoff need three facts      *)
(* about the loop: the previous call ended in the past; while the loop    *)
(* runs, intervalIndex is one less than the clamped number of calls made; *)
(* and a pending timer was set, at the check of line 80, at least the     *)
(* scheduled interval after the previous call ended.                      *)
NumInv ==
    /\ now \in 0..TimeBound
    /\ index \in -1..(Len(Intervals) - 1)
    /\ deadline \in Nat /\ callEnd \in Nat /\ attempts \in Nat
    /\ callEnd <= now
    /\ pc # "done" => index + 1 = Scheduled(attempts)
    /\ pc = "wait" /\ attempts > 0 =>
          deadline >= callEnd + Intervals[index + 1]

CtlInv ==
    /\ pc \in {"loop", "wait", "call", "done"}
    /\ err \in Outcomes \cup {"none"}
    /\ result \in Outcomes \cup {"none"}
    /\ canceled \in BOOLEAN

RInv == NumInv /\ CtlInv /\ GivesUpOnlyAtDeadline

LEMMA RInvTypeOK == RInv => TypeOK
BY DEF RInv, NumInv, CtlInv, TypeOK

LEMMA IntervalsType ==
    /\ Len(Intervals) \in Nat \ {0}
    /\ \A k \in 1..Len(Intervals) : Intervals[k] \in Nat \ {0}
    /\ TimeBound \in Nat
BY RetryAssumption DEF LastInterval, TimeBound

LEMMA InitRInv == Init => RInv
<1> SUFFICES ASSUME Init PROVE RInv
    OBVIOUS
<1>1. NumInv
    BY IntervalsType DEF Init, NumInv, Scheduled
<1>2. CtlInv
    BY DEF Init, CtlInv, Outcomes
<1>3. QED
    BY <1>1, <1>2 DEF Init, RInv, GivesUpOnlyAtDeadline

LEMMA LoopTopRInv == RInv /\ LoopTop => RInv'
<1> SUFFICES ASSUME RInv, LoopTop PROVE RInv'
    OBVIOUS
<1>1. CtlInv'
    BY DEF LoopTop, RInv, CtlInv
<1>2. CASE now < MaxRetryDuration
  <2>1. /\ index \in -1..(Len(Intervals) - 1) /\ now \in Nat
        /\ attempts \in Nat /\ callEnd <= now
        /\ index + 1 = Scheduled(attempts)
    BY DEF RInv, NumInv, LoopTop
  <2>2. WaitFor(index) \in Nat
    BY <2>1, IntervalsType DEF WaitFor
  <2>3. attempts > 0 => /\ index + 1 \in 1..Len(Intervals)
                        /\ WaitFor(index) = Intervals[index + 1]
    BY <2>1, IntervalsType DEF Scheduled, WaitFor
  <2>4. /\ deadline' = now + WaitFor(index) /\ pc' = "wait"
        /\ UNCHANGED <<now, index, callEnd, attempts>>
    BY <1>2 DEF LoopTop
  <2>5. NumInv'
    BY <2>1, <2>2, <2>3, <2>4, IntervalsType DEF RInv, NumInv
  <2>6. GivesUpOnlyAtDeadline'
    BY <2>4 DEF GivesUpOnlyAtDeadline
  <2>7. QED
    BY <1>1, <2>5, <2>6 DEF RInv
<1>3. CASE ~(now < MaxRetryDuration)
  <2>1. pc' = "done" /\ UNCHANGED <<now, index, deadline, callEnd, attempts, err>>
    BY <1>3 DEF LoopTop
  <2>2. NumInv'
    BY <2>1 DEF RInv, NumInv
  <2>3. now >= MaxRetryDuration
    BY <1>3, IntervalsType, RetryAssumption DEF RInv, NumInv
  <2>4. GivesUpOnlyAtDeadline'
    BY <2>1, <2>3 DEF GivesUpOnlyAtDeadline
  <2>5. QED
    BY <1>1, <2>2, <2>4 DEF RInv
<1>4. QED
    BY <1>2, <1>3

LEMMA FReturnsRInv ==
    ASSUME RInv, NEW o \in Outcomes, FReturns(o) PROVE RInv'
<1>1. /\ attempts' = attempts + 1 /\ callEnd' = now /\ err' = o
      /\ UNCHANGED <<now, deadline, canceled>>
    BY DEF FReturns
<1>2. CtlInv'
    BY <1>1 DEF FReturns, RInv, CtlInv, Outcomes
<1>3. CASE o \in {"ok", "canceled", "noretry"}
  <2>1. pc' = "done" /\ index' = index /\ err' # "err"
    BY <1>1, <1>3 DEF FReturns
  <2>2. NumInv'
    BY <1>1, <2>1 DEF RInv, NumInv
  <2>3. GivesUpOnlyAtDeadline'
    BY <2>1 DEF GivesUpOnlyAtDeadline
  <2>4. QED
    BY <1>2, <2>2, <2>3 DEF RInv
<1>4. CASE o = "err"
  <2>1. /\ index + 1 = Scheduled(attempts) /\ attempts \in Nat
        /\ index \in -1..(Len(Intervals) - 1) /\ now \in 0..TimeBound
        /\ deadline \in Nat
    BY DEF FReturns, RInv, NumInv
  <2>2. index' = IF index < Len(Intervals) - 1 THEN index + 1 ELSE index
    BY <1>4 DEF FReturns
  <2>3. index' + 1 = Scheduled(attempts') /\ index' \in -1..(Len(Intervals) - 1)
    BY <1>1, <2>1, <2>2, IntervalsType DEF Scheduled
  <2>4. pc' \in {"loop", "done"}
    BY <1>4 DEF FReturns
  <2>5. NumInv'
    BY <1>1, <2>1, <2>3, <2>4 DEF NumInv
  <2>6. pc' = "done" => now >= MaxRetryDuration
    <3>1. pc' = "done" => ~(now < MaxRetryDuration)
      BY <1>4 DEF FReturns
    <3>2. QED
      BY <3>1, <2>1, IntervalsType, RetryAssumption
  <2>7. GivesUpOnlyAtDeadline'
    BY <1>1, <2>6 DEF GivesUpOnlyAtDeadline
  <2>8. QED
    BY <1>2, <2>5, <2>7 DEF RInv
<1>5. QED
    BY <1>3, <1>4 DEF Outcomes

LEMMA TickRInv == RInv /\ Tick => RInv'
<1> SUFFICES ASSUME RInv, Tick PROVE RInv'
    OBVIOUS
<1>1. /\ now' = now + 1 /\ now < TimeBound /\ pc # "done"
      /\ UNCHANGED <<pc, index, deadline, callEnd, attempts, err, result, canceled>>
    BY DEF Tick
<1>2. NumInv'
    BY <1>1, IntervalsType DEF RInv, NumInv
<1>3. QED
    BY <1>1, <1>2 DEF RInv, CtlInv, GivesUpOnlyAtDeadline

LEMMA NextRInv == RInv /\ [Next]_vars => RInv'
<1> SUFFICES ASSUME RInv, [Next]_vars PROVE RInv'
    OBVIOUS
<1>1. CASE LoopTop
    BY <1>1, LoopTopRInv
<1>2. CASE WaitCanceled
  <2>1. /\ pc' = "done" /\ result' = "canceled"
        /\ UNCHANGED <<now, index, deadline, callEnd, attempts, err, canceled>>
    BY <1>2 DEF WaitCanceled
  <2>2. NumInv'
    BY <2>1 DEF RInv, NumInv
  <2>3. QED
    BY <2>1, <2>2 DEF RInv, CtlInv, Outcomes, GivesUpOnlyAtDeadline
<1>3. CASE TimerFires
    BY <1>3 DEF TimerFires, RInv, NumInv, CtlInv, GivesUpOnlyAtDeadline
<1>4. CASE Cancel
    BY <1>4 DEF Cancel, RInv, NumInv, CtlInv, GivesUpOnlyAtDeadline
<1>5. CASE Tick
    BY <1>5, TickRInv
<1>6. CASE \E o \in Outcomes : FReturns(o)
    BY <1>6, FReturnsRInv
<1>7. CASE UNCHANGED vars
    BY <1>7 DEF vars, RInv, NumInv, CtlInv, GivesUpOnlyAtDeadline
<1>8. QED
    BY <1>1, <1>2, <1>3, <1>4, <1>5, <1>6, <1>7 DEF Next

(* The type invariant of doWithRetry's state, for every schedule. *)
THEOREM TypeCorrect == Spec => []TypeOK
<1>1. Init => RInv
    BY InitRInv
<1>2. RInv /\ [Next]_vars => RInv'
    BY NextRInv
<1>3. RInv => TypeOK
    BY RInvTypeOK
<1>4. QED
    BY <1>1, <1>2, <1>3, PTL DEF Spec

(* For every schedule and duration, a retryable error makes doWithRetry   *)
(* give up (with nil at line 109, or with the error at line 113) only     *)
(* once maxRetryDuration has elapsed: exhausting the schedule does not    *)
(* end the retries.                                                        *)
THEOREM GivesUpOnlyAtDeadlineHolds == Spec => []GivesUpOnlyAtDeadline
<1>1. Init => RInv
    BY InitRInv
<1>2. RInv /\ [Next]_vars => RInv'
    BY NextRInv
<1>3. RInv => GivesUpOnlyAtDeadline
    BY DEF RInv
<1>4. QED
    BY <1>1, <1>2, <1>3, PTL DEF Spec

(* For every schedule, the timer of line 90 fires for a retry only after  *)
(* the scheduled interval has passed since the failed call returned, the  *)
(* last interval repeating once the schedule is exhausted.                *)
THEOREM BackoffScheduleHolds == Spec => BackoffSchedule
<1> DEFINE A == pc = "wait" /\ pc' = "call" /\ attempts > 0 =>
                  now - callEnd >= Intervals[IF attempts < Len(Intervals)
                                             THEN attempts
                                             ELSE Len(Intervals)]
<1>1. Init => RInv
    BY InitRInv
<1>2. RInv /\ [Next]_vars => RInv'
    BY NextRInv
<1>3. RInv /\ [Next]_vars => [A]_vars
  <2> SUFFICES ASSUME RInv, [Next]_vars, pc = "wait", pc' = "call", attempts > 0
               PROVE  now - callEnd >= Intervals[Scheduled(attempts)]
    BY DEF Scheduled
  <2>1. TimerFires
    BY DEF Next, LoopTop, WaitCanceled, Cancel, Tick, FReturns, vars
  <2>2. /\ now >= deadline
        /\ deadline >= callEnd + Intervals[index + 1]
        /\ index + 1 = Scheduled(attempts)
        /\ now \in Int /\ deadline \in Int /\ callEnd \in Int
        /\ attempts \in Nat
    BY <2>1 DEF TimerFires, RInv, NumInv
  <2>3. Intervals[Scheduled(attempts)] \in Int
    BY <2>2, IntervalsType DEF Scheduled
  <2>4. QED
    BY <2>2, <2>3
<1>4. QED
    BY <1>1, <1>2, <1>3, PTL DEF Spec, BackoffSchedule

=============================================================================
