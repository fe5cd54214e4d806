---------------------------- MODULE SystemHashes ----------------------------
(***************************************************************************)
(* add_system_hashes: the job of "-db gen" and "-db genquick" that adds    *)
(* the hashes of all running processes to the clean-hash database.         *)
(***************************************************************************)
EXTENDS WorkerPool

vars == poolVars

Init == PoolInit

\* The loop condition: the queue is read, then the last count.
LoopTest ==
  /\ mainPc = "loop"
  /\ mainPc' = IF queue # <<>> \/ runningCount > 0 THEN "count" ELSE "join"
  /\ UNCHANGED <<todo, taken, runningCount, processVars, workerVars, clean>>

Main ==
  \/ TakeSnapshot \/ (\E p \in Pids : FillQueue(p)) \/ SpawnWorkers
  \/ LoopTest \/ CountRunning("loop") \/ JoinWorkers

\* add_process_hashes_worker.
Worker(w) == WorkerTest(w) \/ WorkerPop(w, "gather") \/ CollectHashes(w)

Next == System \/ Main \/ \E w \in Workers : Worker(w)

Spec == Init /\ [][Next]_vars

\* The threads of the tool are scheduled; nothing is assumed of the
\* processes, nor of the order in which waiting workers get the lock.
Fairness == WF_vars(Main) /\ \A w \in Workers : WF_vars(Worker(w))

FairSpec == Spec /\ Fairness
-----------------------------------------------------------------------------
TypeOK == PoolTypeOK

\* When the job is done, the modules of every process it has processed and
\* that still runs are in the database, whichever of the workers that met
\* the same module at the same time has added it.  (Nothing can be said of
\* modules that are loaded while the job runs.)
AllCollected ==
  mainPc = "done" =>
    \A p \in Pids \ Loaders : processed[p] > 0 => Readable(p) \subseteq clean

\* The job does process what it has taken, and ends.
FulfilsJob == Job!FairSpec
=============================================================================
