----------------------------- MODULE SystemDump -----------------------------
(***************************************************************************)
(* dump_system: the job of "-system", which dumps the modules of all       *)
(* running processes that are not in the clean-hash database.  When the    *)
(* queue runs empty, main takes a second snapshot and adds the processes   *)
(* that were started meanwhile; a worker adds the hashes of a process to   *)
(* the database as soon as it has dumped it, so that the same module is    *)
(* not dumped again from every other process.                              *)
(***************************************************************************)
EXTENDS WorkerPool

CONSTANTS
  BadImage,  \* whether the disk image of a module may fail to be rebuilt
  RacyReads, \* whether a lookup may miss while another thread inserts
  NoHash

ASSUME SystemDumpAssumption ==
  BadImage \in BOOLEAN /\ RacyReads \in BOOLEAN /\ NoHash \notin Hashes

VARIABLES
  added,    \* added_new_processes
  walk,     \* per worker: modules of the process that are still ahead
  module,   \* per worker: the module found missing in the database
  written   \* <<pid, hash>> of every file written

dumpVars == <<walk, module, written>>
vars == <<poolVars, added, dumpVars>>

Init ==
  /\ PoolInit
  /\ added = FALSE
  /\ walk = [w \in Workers |-> {}]
  /\ module = [w \in Workers |-> NoHash]
  /\ written = {}

-----------------------------------------------------------------------------
(* Main's loop.                                                            *)

\* The loop condition: the queue is read, then the last count and the flag.
LoopTest ==
  /\ mainPc = "loop"
  /\ mainPc' = IF queue # <<>> \/ runningCount > 0 \/ ~added
               THEN "count" ELSE "join"
  /\ UNCHANGED <<todo, taken, runningCount, added, processVars, workerVars,
                 clean, dumpVars>>

\* Mutant of CheckRescan: dumping_pids is not looked at.
CheckRescanAll ==
  /\ mainPc = "check"
  /\ \/ /\ ~added /\ queue = <<>> /\ runningCount > 0
        /\ todo' \in Snapshot
        /\ mainPc' = "refill"
     \/ /\ added \/ queue # <<>> \/ runningCount = 0
        /\ mainPc' = "loop" /\ UNCHANGED todo
  /\ UNCHANGED <<taken, runningCount, added, processVars, workerVars, clean,
                 dumpVars>>

\* The second snapshot, when the queue is empty and workers are running.
\* Only main changes dumping_pids, so all entries are looked up here.
CheckRescan ==
  /\ mainPc = "check"
  /\ \/ /\ ~added /\ queue = <<>> /\ runningCount > 0
        /\ \E found \in Snapshot : todo' = found \ taken
        /\ mainPc' = "refill"
     \/ /\ added \/ queue # <<>> \/ runningCount = 0
        /\ mainPc' = "loop" /\ UNCHANGED todo
  /\ UNCHANGED <<taken, runningCount, added, processVars, workerVars, clean,
                 dumpVars>>

RefillQueue(p) ==
  /\ mainPc = "refill"
  /\ Push(p, IF runningCount < Cardinality(Workers) THEN "respawn" ELSE "refill")
  /\ UNCHANGED <<runningCount, added, processVars, wPc, holding, newHashes,
                 processed, clean, dumpVars>>

\* The first thread found to have ended is joined and replaced, if any is.
Respawn ==
  /\ mainPc = "respawn"
  /\ \/ \E w \in Workers : wPc[w] = "ended" /\ Goto(w, "test")
     \/ (\A w \in Workers : wPc[w] # "ended") /\ UNCHANGED wPc
  /\ mainPc' = "refill"
  /\ UNCHANGED <<todo, taken, runningCount, added, processVars, queue, holding,
                 newHashes, processed, clean, dumpVars>>

EndRefill ==
  /\ mainPc = "refill" /\ todo = {}
  /\ added' = TRUE
  /\ mainPc' = "loop"
  /\ UNCHANGED <<todo, taken, runningCount, processVars, workerVars, clean,
                 dumpVars>>

Main ==
  \/ /\ TakeSnapshot \/ (\E p \in Pids : FillQueue(p)) \/ SpawnWorkers
        \/ CountRunning("check") \/ JoinWorkers
     /\ UNCHANGED <<added, dumpVars>>
  \/ LoopTest \/ CheckRescan \/ (\E p \in Pids : RefillQueue(p))
  \/ Respawn \/ EndRefill

-----------------------------------------------------------------------------
(* A worker: dump_process_worker.                                          *)

\* dump_all opens the process and starts to walk its address space.  A
\* module loaded during the walk counts as loaded before or after it.
BeginDump(w) ==
  /\ wPc[w] = "dump"
  /\ walk' = [walk EXCEPT ![w] = Readable(holding[w])]
  /\ Goto(w, "walk")
  /\ UNCHANGED <<queue, holding, newHashes, processed, processVars, mainVars,
                 clean, added, module, written>>

\* pe_hash_database::contains, which takes no lock.
Lookup(w, h) ==
  {h \in clean} \cup
    (IF RacyReads /\ \E v \in Workers \ {w} : wPc[v] = "insert"
     THEN {FALSE} ELSE {})

\* Mutant of CheckModule: the database is not looked at.
CheckNothing(w, h) ==
  /\ wPc[w] = "walk" /\ h \in walk[w]
  /\ walk' = [walk EXCEPT ![w] = @ \ {h}]
  /\ Goto(w, "write") /\ module' = [module EXCEPT ![w] = h]
  /\ UNCHANGED <<queue, holding, newHashes, processed, processVars, mainVars,
                 clean, added, written>>

\* One module of the walk: gone with its process, known, or to be written.
CheckModule(w, h) ==
  /\ wPc[w] = "walk" /\ h \in walk[w]
  /\ walk' = [walk EXCEPT ![w] = @ \ {h}]
  /\ \/ /\ h \in modules[holding[w]] /\ FALSE \in Lookup(w, h)
        /\ Goto(w, "write") /\ module' = [module EXCEPT ![w] = h]
     \/ /\ h \notin modules[holding[w]] \/ TRUE \in Lookup(w, h)
        /\ UNCHANGED <<wPc, module>>
  /\ UNCHANGED <<queue, holding, newHashes, processed, processVars, mainVars,
                 clean, added, written>>

\* process_disk_image and write_image, from what has been read before.
WriteModule(w) ==
  /\ wPc[w] = "write"
  /\ \/ written' = written \cup {<<holding[w], module[w]>>}
     \/ BadImage /\ UNCHANGED written
  /\ module' = [module EXCEPT ![w] = NoHash]
  /\ Goto(w, "walk")
  /\ UNCHANGED <<queue, holding, newHashes, processed, processVars, mainVars,
                 clean, added, walk>>

\* Mutant of EndDump: the walk stops at the first module.
EndDumpEarly(w) ==
  /\ wPc[w] = "walk"
  /\ walk' = [walk EXCEPT ![w] = {}]
  /\ Goto(w, "gather")
  /\ UNCHANGED <<queue, holding, newHashes, processed, processVars, mainVars,
                 clean, added, module, written>>

EndDump(w) ==
  /\ wPc[w] = "walk" /\ walk[w] = {}
  /\ Goto(w, "gather")
  /\ UNCHANGED <<queue, holding, newHashes, processed, processVars, mainVars,
                 clean, added, dumpVars>>

Worker(w) ==
  \/ /\ WorkerTest(w) \/ WorkerPop(w, "dump") \/ CollectHashes(w)
     /\ UNCHANGED <<added, dumpVars>>
  \/ BeginDump(w) \/ (\E h \in Hashes : CheckModule(w, h))
  \/ WriteModule(w) \/ EndDump(w)

Next ==
  \/ System /\ UNCHANGED <<added, dumpVars>>
  \/ Main \/ \E w \in Workers : Worker(w)

Spec == Init /\ [][Next]_vars

\* As in SystemHashes.
Fairness == WF_vars(Main) /\ \A w \in Workers : WF_vars(Worker(w))

FairSpec == Spec /\ Fairness
-----------------------------------------------------------------------------
(* Properties.                                                             *)

TypeOK ==
  /\ PoolTypeOK
  /\ added \in BOOLEAN
  /\ walk \in [Workers -> SUBSET Hashes]
  /\ module \in [Workers -> Hashes \cup {NoHash}]
  /\ written \subseteq Pids \X Hashes

\* A hash the job has put into the database, where it keeps the module from
\* being dumped, is that of a module the job has dumped ("Exclude these
\* hashes from the next dumps", of what dump_all was called for).
ExcludedWasDumped ==
  \A h \in clean \ Known : \E p \in Pids : <<p, h>> \in written

\* A module is written once for each worker that was at it before its hash
\* was in the database, and no more.  (A process that ended before its
\* hashes were collected does not count: its modules stay unknown.)
BoundedCopies ==
  \A h \in Hashes :
    Cardinality({p \in Pids : h \in modules[p] /\ <<p, h>> \in written})
      <= Cardinality(Workers)

\* The two ways in which the loop of dump_system never ends: all workers had
\* ended before main saw the queue empty with one of them running; all ended
\* after main counted them and before it pushed a new process.
NeverRescanned ==
  /\ ~added /\ queue = <<>> /\ mainPc \in {"loop", "count", "check"}
  /\ \A w \in Workers : wPc[w] = "ended"
Unserved ==
  /\ added /\ queue # <<>> /\ mainPc \in {"loop", "count", "check"}
  /\ \A w \in Workers : wPc[w] = "ended"

\* The job ends, but for these two.
EndsOrHangs == <>(mainPc = "done" \/ []NeverRescanned \/ []Unserved)

\* "Add any newly started processes at the very end".  Refuted, with one process
\* and one worker, by NeverRescanned.
RescanHappens == <>added
=============================================================================
