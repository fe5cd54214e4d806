----------------------------- MODULE ProcessJob -----------------------------
(***************************************************************************)
(* What a pool of workers promises: every process taken into the job is    *)
(* processed once, and when the job is over none is left.  SystemDump and  *)
(* SystemHashes implement it.                                              *)
(***************************************************************************)
EXTENDS Naturals

CONSTANT Pids

VARIABLES
  taken,     \* pids that belong to the job
  processed, \* per pid: how many times it has been processed
  over       \* the job has ended

vars == <<taken, processed, over>>

TypeOK ==
  /\ taken \subseteq Pids
  /\ processed \in [Pids -> 0..1]
  /\ over \in BOOLEAN

Init == taken = {} /\ processed = [p \in Pids |-> 0] /\ over = FALSE

Take(p) ==
  /\ ~over /\ p \notin taken
  /\ taken' = taken \cup {p}
  /\ UNCHANGED <<processed, over>>

Finish(p) ==
  /\ p \in taken /\ processed[p] = 0
  /\ processed' = [processed EXCEPT ![p] = 1]
  /\ UNCHANGED <<taken, over>>

End ==
  /\ ~over /\ \A p \in taken : processed[p] = 1
  /\ over' = TRUE
  /\ UNCHANGED <<taken, processed>>

Next == (\E p \in Pids : Take(p) \/ Finish(p)) \/ End

Spec == Init /\ [][Next]_vars

\* What is taken gets finished, and the job ends.
Fairness == WF_vars(End) /\ \A p \in Pids : WF_vars(Finish(p))

FairSpec == Spec /\ Fairness
=============================================================================
