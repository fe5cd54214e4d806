---------------------------- MODULE DumpOnClose -----------------------------
(***************************************************************************)
(* What the close monitor promises, without threads, queue or dumpers: a   *)
(* watched process is paused when it asks to terminate, dumped, and only   *)
(* then let go; and when the tool has finished, nothing is watched or      *)
(* paused any more.  CloseWatcher implements it.                           *)
(***************************************************************************)
CONSTANT Pids

VARIABLES
  stage,     \* per pid: what the tool has made of its process
  quitting,  \* the user has asked the tool to end
  over       \* the tool has ended

vars == <<stage, quitting, over>>

Stages == {"gone", "free", "watched", "paused", "dumped"}

TypeOK ==
  /\ stage \in [Pids -> Stages]
  /\ quitting \in BOOLEAN /\ over \in BOOLEAN

Init ==
  /\ stage \in [Pids -> {"gone", "free"}]
  /\ quitting = FALSE /\ over = FALSE

Move(p, from, to) ==
  /\ stage[p] \in from
  /\ stage' = [stage EXCEPT ![p] = to]
  /\ UNCHANGED <<quitting, over>>

Start(p)   == Move(p, {"gone"}, "free")
Vanish(p)  == Move(p, Stages, "gone")
Watch(p)   == ~over /\ Move(p, {"free"}, "watched")
Pause(p)   == Move(p, {"watched"}, "paused")
Dump(p)    == ~over /\ Move(p, {"paused"}, "dumped")
Release(p) == ~over /\ Move(p, {"dumped"}, "free")
\* Shutting down, the tool lets go of what it has not dumped.
Unwatch(p) == ~over /\ quitting /\ Move(p, {"watched", "paused"}, "free")

Quit == quitting' = TRUE /\ UNCHANGED <<stage, over>>

Finish ==
  /\ quitting /\ \A p \in Pids : stage[p] \in {"gone", "free"}
  /\ over' = TRUE
  /\ UNCHANGED <<stage, quitting>>

Next ==
  \/ \E p \in Pids :
       \/ Start(p) \/ Vanish(p) \/ Watch(p) \/ Pause(p)
       \/ Dump(p) \/ Release(p) \/ Unwatch(p)
  \/ Quit \/ Finish

Spec == Init /\ [][Next]_vars

\* Until it is told to stop, the tool dumps what has paused and lets go of
\* what it has dumped.
Fairness ==
  \A p \in Pids : /\ WF_vars(~quitting /\ Dump(p))
                  /\ WF_vars(~quitting /\ Release(p))

FairSpec == Spec /\ Fairness
=============================================================================
