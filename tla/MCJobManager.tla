---------------------------- MODULE MCJobManager ----------------------------
(* Two job names, three worker identities and a pool of two: the pool     *)
(* fills, a third identity is there for a worker too many, and a name can  *)
(* be queued while the same name runs.                                     *)
EXTENDS JobManager

MCNames == {"n1", "n2"}
MCWorkers == {"w1", "w2", "w3"}
=============================================================================
