-------------------------- MODULE MCLiveWriterLock --------------------------
(***************************************************************************)
(* Two processes contend for the lock of one account (the state of two     *)
(* accounts is disjoint but for the mutex, which one account already       *)
(* occupies).  One of them passes two service names, so that it refuses    *)
(* its own second service; the other passes one.  With three lock objects, *)
(* the smallest number at which an object being released, its successor in *)
(* the same process and a rival coexist, every pair of windows of the      *)
(* protocol can be open at once.  One call of enforce between the lock and *)
(* _STATE is enough: with one account a second one writes the same value.  *)
(***************************************************************************)
EXTENDS LiveWriterLock

CONSTANTS p1, p2, s1, s2

TwoProcs == {p1, p2}
TwoServices == {s1, s2}
MCServicesOf == [p \in TwoProcs |-> IF p = p1 THEN TwoServices ELSE {s1}]
=============================================================================
