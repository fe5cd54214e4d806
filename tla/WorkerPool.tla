----------------------------- MODULE WorkerPool -----------------------------
(***************************************************************************)
(* What dump_system and add_system_hashes (pd.cpp) have in common: a job   *)
(* over all running processes.  Main fills a work queue from a snapshot,   *)
(* starts the worker threads and watches them; a worker takes processes    *)
(* off the queue until it finds it empty, and at the end of each one adds  *)
(* the hashes of its modules to the clean-hash database.                   *)
(*                                                                         *)
(* SystemDump and SystemHashes extend this module with main's loop and     *)
(* with what a worker does to a process before it collects its hashes.     *)
(***************************************************************************)
EXTENDS Naturals, SequencesExt

CONSTANTS
  Pids,        \* process ids; each is used by one process at most
  Workers,     \* worker threads, options->NumberOfThreads of them
  Hashes,      \* module hashes
  Known,       \* hashes in the clean-hash database when the job starts
  Protected,   \* pids that OpenProcess is refused for
  Loaders,     \* pids whose processes load modules while they run
  BadSnapshot, \* whether CreateToolhelp32Snapshot may fail
  NoPid

ASSUME WorkerPoolAssumption ==
  /\ Workers # {} /\ IsFiniteSet(Workers)
  /\ Known \subseteq Hashes /\ Protected \subseteq Pids
  /\ Loaders \subseteq Pids /\ BadSnapshot \in BOOLEAN
  /\ NoPid \notin Pids

VARIABLES
  \* --- the processes ---
  proc,        \* per pid: "unborn", "running" or "exited"
  modules,     \* per pid: the hashes of the modules mapped now
  \* --- main ---
  mainPc,
  todo,        \* entries of the snapshot still to be visited
  taken,       \* pids pushed so far (dumping_pids)
  runningCount,
  \* --- the workers ---
  queue, wPc, holding,
  newHashes,   \* per worker: collected hashes not yet in the database
  processed,   \* per pid: how many times a worker has been through with it
  \* --- the database ---
  clean        \* _clean_hashes

processVars  == <<proc, modules>>
mainVars     == <<mainPc, todo, taken, runningCount>>
workerVars   == <<queue, wPc, holding, newHashes, processed>>
poolVars     == <<processVars, mainVars, workerVars, clean>>

Running == {p \in Pids : proc[p] = "running"}
Queued  == ToSet(queue)
Held    == {holding[w] : w \in Workers} \ {NoPid}

\* What the handle of a dumper lets the tool read of a process.
Readable(p) == IF p \in Protected THEN {} ELSE modules[p]

PoolInit ==
  /\ proc \in [Pids -> {"unborn", "running"}]
  /\ modules \in [Pids -> SUBSET Hashes]
  /\ \A p \in Pids : proc[p] = "unborn" => modules[p] = {}
  /\ mainPc = "snapshot" /\ todo = {} /\ taken = {} /\ runningCount = 1
  /\ queue = <<>>
  /\ wPc = [w \in Workers |-> "none"]
  /\ holding = [w \in Workers |-> NoPid]
  /\ newHashes = [w \in Workers |-> {}]
  /\ processed = [p \in Pids |-> 0]
  /\ clean = Known

-----------------------------------------------------------------------------
(* The processes of the system.                                            *)

StartProcess(p) ==
  /\ proc[p] = "unborn"
  /\ proc' = [proc EXCEPT ![p] = "running"]
  /\ \E hs \in SUBSET Hashes : modules' = [modules EXCEPT ![p] = hs]
  /\ UNCHANGED <<mainVars, workerVars, clean>>

LoadModule(p, h) ==
  /\ p \in Loaders /\ proc[p] = "running" /\ h \notin modules[p]
  /\ modules' = [modules EXCEPT ![p] = @ \cup {h}]
  /\ UNCHANGED <<proc, mainVars, workerVars, clean>>

ExitProcess(p) ==
  /\ proc[p] = "running"
  /\ proc' = [proc EXCEPT ![p] = "exited"]
  /\ modules' = [modules EXCEPT ![p] = {}]
  /\ UNCHANGED <<mainVars, workerVars, clean>>

System ==
  \E p \in Pids : \/ StartProcess(p) \/ ExitProcess(p)
                  \/ \E h \in Hashes : LoadModule(p, h)

-----------------------------------------------------------------------------
(* Main: from the snapshot to the join.                                    *)

\* The processes found by a snapshot; none when it fails.  (Its first entry
\* is passed over: it is the idle process, which is not one of Pids.)
Snapshot == {Running} \cup (IF BadSnapshot THEN {{}} ELSE {})

TakeSnapshot ==
  /\ mainPc = "snapshot"
  /\ todo' \in Snapshot
  /\ mainPc' = "fill"
  /\ UNCHANGED <<taken, runningCount, processVars, workerVars, clean>>

\* work_queue.push and dumping_pids.insert of one entry, then goto l.
Push(p, l) ==
  /\ p \in todo
  /\ queue' = Append(queue, p)
  /\ taken' = taken \cup {p}
  /\ todo' = todo \ {p}
  /\ mainPc' = l

FillQueue(p) ==
  /\ mainPc = "fill" /\ Push(p, "fill")
  /\ UNCHANGED <<runningCount, processVars, wPc, holding, newHashes, processed,
                 clean>>

SpawnWorkers ==
  /\ mainPc = "fill" /\ todo = {}
  /\ wPc' = [w \in Workers |-> "test"]
  /\ mainPc' = "loop"
  /\ UNCHANGED <<todo, taken, runningCount, processVars, queue, holding,
                 newHashes, processed, clean>>

\* Mutant of CountRunning: threads that have ended are counted too.
CountAll(l) ==
  /\ mainPc = "count"
  /\ runningCount' = Cardinality(Workers)
  /\ mainPc' = l
  /\ UNCHANGED <<todo, taken, processVars, workerVars, clean>>

\* A zero wait on every thread counts those still running.  Threads only
\* end meanwhile, so the sum is the number that ran at some one moment.
CountRunning(l) ==
  /\ mainPc = "count"
  /\ runningCount' = Cardinality({w \in Workers : wPc[w] # "ended"})
  /\ mainPc' = l
  /\ UNCHANGED <<todo, taken, processVars, workerVars, clean>>

JoinWorkers ==
  /\ mainPc = "join" /\ \A w \in Workers : wPc[w] = "ended"
  /\ mainPc' = "done"
  /\ UNCHANGED <<todo, taken, runningCount, processVars, workerVars, clean>>

-----------------------------------------------------------------------------
(* A worker.                                                               *)

Goto(w, l) == wPc' = [wPc EXCEPT ![w] = l]

WorkerTest(w) ==
  /\ wPc[w] = "test"
  /\ Goto(w, IF queue # <<>> THEN "pop" ELSE "ended")
  /\ UNCHANGED <<queue, holding, newHashes, processed, processVars, mainVars,
                 clean>>

\* Mutant of WorkerPop: front and pop are not under one lock, and the entry
\* another worker has just read is read again.
WorkerPopStale(w, l) ==
  /\ wPc[w] = "pop"
  /\ \/ /\ queue # <<>>
        /\ holding' = [holding EXCEPT ![w] = Head(queue)]
        /\ queue' \in {queue, Tail(queue)}
        /\ Goto(w, l)
     \/ /\ queue = <<>>
        /\ Goto(w, "test")
        /\ UNCHANGED <<queue, holding>>
  /\ UNCHANGED <<newHashes, processed, processVars, mainVars, clean>>

\* The non-blocking pop; another worker may have taken the last entry.
WorkerPop(w, l) ==
  /\ wPc[w] = "pop"
  /\ \/ /\ queue # <<>>
        /\ holding' = [holding EXCEPT ![w] = Head(queue)]
        /\ queue' = Tail(queue)
        /\ Goto(w, l)
     \/ /\ queue = <<>>
        /\ Goto(w, "test")
        /\ UNCHANGED <<queue, holding>>
  /\ UNCHANGED <<newHashes, processed, processVars, mainVars, clean>>

\* get_all_hashes: what the process has mapped and the database lacks.
GetAllHashes(w) ==
  /\ wPc[w] = "gather"
  /\ newHashes' = [newHashes EXCEPT ![w] = Readable(holding[w]) \ clean]
  /\ Goto(w, "lock")
  /\ UNCHANGED <<queue, holding, processed, processVars, mainVars, clean>>

\* add_hashes: the lock is held by the worker at "insert" ...
LockDatabase(w) ==
  /\ wPc[w] = "lock" /\ \A v \in Workers : wPc[v] # "insert"
  /\ Goto(w, "insert")
  /\ UNCHANGED <<queue, holding, newHashes, processed, processVars, mainVars,
                 clean>>

\* ... while it inserts one hash after the other.
InsertHash(w, h) ==
  /\ wPc[w] = "insert" /\ h \in newHashes[w]
  /\ clean' = clean \cup {h}
  /\ newHashes' = [newHashes EXCEPT ![w] = @ \ {h}]
  /\ UNCHANGED <<queue, wPc, holding, processed, processVars, mainVars>>

\* Mutant of FinishProcess: the loop over the hashes is left early.
FinishEarly(w) ==
  /\ wPc[w] = "insert"
  /\ processed' = [processed EXCEPT ![holding[w]] = @ + 1]
  /\ holding' = [holding EXCEPT ![w] = NoPid]
  /\ newHashes' = [newHashes EXCEPT ![w] = {}]
  /\ Goto(w, "test")
  /\ UNCHANGED <<queue, processVars, mainVars, clean>>

\* The lock is left and the dumper deleted.
FinishProcess(w) ==
  /\ wPc[w] = "insert" /\ newHashes[w] = {}
  /\ processed' = [processed EXCEPT ![holding[w]] = @ + 1]
  /\ holding' = [holding EXCEPT ![w] = NoPid]
  /\ Goto(w, "test")
  /\ UNCHANGED <<queue, newHashes, processVars, mainVars, clean>>

CollectHashes(w) ==
  \/ GetAllHashes(w) \/ LockDatabase(w)
  \/ (\E h \in Hashes : InsertHash(w, h)) \/ FinishProcess(w)

-----------------------------------------------------------------------------
PoolTypeOK ==
  /\ proc \in [Pids -> {"unborn", "running", "exited"}]
  /\ modules \in [Pids -> SUBSET Hashes]
  /\ mainPc \in {"snapshot", "fill", "loop", "count", "check", "refill",
                 "respawn", "join", "done"}
  /\ todo \subseteq Pids /\ taken \subseteq Pids 
  /\ processed \in [Pids -> Nat]
  /\ runningCount \in Nat
  /\ queue \in Seq(Pids)
  /\ wPc \in [Workers -> {"none", "test", "pop", "dump", "walk", "write",
                          "gather", "lock", "insert", "ended"}]
  /\ holding \in [Workers -> Pids \cup {NoPid}]
  /\ newHashes \in [Workers -> SUBSET Hashes]
  /\ clean \subseteq Hashes

Job == INSTANCE ProcessJob WITH over <- mainPc = "done"

\* Every process pushed is processed by one worker, once, and none is left
\* when the job is over.
KeepsJob == Job!Spec
=============================================================================
