----------------------------- MODULE JobService -----------------------------
(***************************************************************************)
(* What the job manager promises its callers (spec 4.5, 5): named jobs    *)
(* are accepted unless one of that name is pending or running, a pending  *)
(* job is eventually started and a started job eventually completes;     *)
(* jobs of the same name never overlap.  Jobs without a name are          *)
(* invisible at this level.                                                *)
(***************************************************************************)
CONSTANT Names

VARIABLES
    pending,  \* named jobs accepted and not yet started
    running   \* named jobs started and not yet completed

vars == <<pending, running>>

Init == pending = {} /\ running = {}

(* submit(name): a name that is pending or running is dropped. *)
Accept(n) ==
    /\ n \notin pending \cup running
    /\ pending' = pending \cup {n}
    /\ UNCHANGED running

Start(n) ==
    /\ n \in pending
    /\ pending' = pending \ {n}
    /\ running' = running \cup {n}

Complete(n) ==
    /\ n \in running
    /\ running' = running \ {n}
    /\ UNCHANGED pending

Next == \E n \in Names : Accept(n) \/ Start(n) \/ Complete(n)

Spec ==
    /\ Init /\ [][Next]_vars
    /\ \A n \in Names : WF_vars(Start(n)) /\ WF_vars(Complete(n))

(* A name is never both waiting and running. *)
Exclusive == pending \cap running = {}

=============================================================================
