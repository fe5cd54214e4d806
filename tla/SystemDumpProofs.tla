-------------------------- MODULE SystemDumpProofs --------------------------
(***************************************************************************)
(* Theorems about SystemDump, for every set of processes, workers and      *)
(* hashes and every choice of what may fail.                               *)
(***************************************************************************)
EXTENDS SystemDump, FiniteSetTheorems, TLAPS

(* The work queue: what push and pop do to the set of its entries.         *)

\* What Queue::push does to the set of entries.
LEMMA AppendElements ==
  ASSUME NEW S, NEW q \in Seq(S), NEW e \in S
  PROVE  /\ Append(q, e) \in Seq(S)
         /\ ToSet(Append(q, e)) = ToSet(q) \cup {e}
         /\ IsInjective(q) /\ e \notin ToSet(q) => IsInjective(Append(q, e))
<1>1. /\ Append(q, e) \in Seq(S)
      /\ Len(Append(q, e)) = Len(q) + 1
      /\ \A i \in 1..Len(q) : Append(q, e)[i] = q[i]
      /\ Append(q, e)[Len(q) + 1] = e
  OBVIOUS
<1>2. Len(q) \in Nat
  OBVIOUS
<1>3. ToSet(Append(q, e)) = ToSet(q) \cup {e}
  BY <1>1, <1>2 DEF ToSet
<1>4. ASSUME IsInjective(q), e \notin ToSet(q)
      PROVE  IsInjective(Append(q, e))
  BY <1>1, <1>2, <1>4 DEF ToSet, IsInjective
<1> QED BY <1>1, <1>3, <1>4

\* What Queue::pop does: the head is in no other place of the queue.
LEMMA TailElements ==
  ASSUME NEW S, NEW q \in Seq(S), q # <<>>, IsInjective(q)
  PROVE  /\ Tail(q) \in Seq(S) /\ Head(q) \in S
         /\ Head(q) \in ToSet(q)
         /\ ToSet(Tail(q)) = ToSet(q) \ {Head(q)}
         /\ IsInjective(Tail(q))
<1>1. /\ Tail(q) \in Seq(S) /\ Head(q) \in S
      /\ Head(q) = q[1]
      /\ Len(q) \in Nat /\ Len(q) >= 1
      /\ Len(Tail(q)) = Len(q) - 1
      /\ \A i \in 1..Len(q) - 1 : Tail(q)[i] = q[i + 1]
  OBVIOUS
<1>2. ToSet(Tail(q)) \subseteq ToSet(q) \ {Head(q)}
  BY <1>1 DEF ToSet, IsInjective
<1>3. ASSUME NEW x \in ToSet(q) \ {Head(q)} PROVE x \in ToSet(Tail(q))
  <2>1. PICK i \in 1..Len(q) : x = q[i]
    BY DEF ToSet
  <2>2. i - 1 \in 1..Len(Tail(q)) /\ Tail(q)[i - 1] = x
    BY <1>1, <1>3, <2>1
  <2>3. DOMAIN Tail(q) = 1..Len(Tail(q))
    BY <1>1
  <2> QED BY <2>2, <2>3 DEF ToSet
<1>4. IsInjective(Tail(q))
  BY <1>1 DEF IsInjective
<1>5. ToSet(Tail(q)) = ToSet(q) \ {Head(q)}
  BY <1>2, <1>3
<1>6. Head(q) \in ToSet(q)
  BY <1>1 DEF ToSet
<1> QED BY <1>1, <1>4, <1>5, <1>6

-----------------------------------------------------------------------------
-----------------------------------------------------------------------------
(* Type correctness.                                                       *)

Busy == {"dump", "walk", "write", "gather", "lock", "insert"}

\* A worker that is at a process holds its dumper, and at "write" a module.
TypeInv ==
  /\ TypeOK
  /\ \A w \in Workers : /\ wPc[w] \in Busy => holding[w] \in Pids
                        /\ wPc[w] = "write" => module[w] \in Hashes

LEMMA CountIsNat ==
  ASSUME NEW S \in SUBSET Workers PROVE IsFiniteSet(S) /\ Cardinality(S) \in Nat
BY FS_Subset, FS_CardinalityType, WorkerPoolAssumption

LEMMA MainType ==
  ASSUME TypeInv, (System /\ UNCHANGED <<added, dumpVars>>) \/ Main
  PROVE  TypeInv'
<1> USE DEF TypeInv, Busy, TypeOK, PoolTypeOK
<1>1. CASE System /\ UNCHANGED <<added, dumpVars>>
  <2> USE <1>1 DEF mainVars, workerVars, dumpVars
  <2>1. ASSUME NEW p \in Pids, StartProcess(p) PROVE TypeInv'
    BY <2>1 DEF StartProcess
  <2>2. ASSUME NEW p \in Pids, ExitProcess(p) PROVE TypeInv'
    BY <2>2 DEF ExitProcess
  <2>3. ASSUME NEW p \in Pids, NEW h \in Hashes, LoadModule(p, h) PROVE TypeInv'
    BY <2>3 DEF LoadModule
  <2> QED BY <2>1, <2>2, <2>3 DEF System
<1>2. ASSUME TakeSnapshot, UNCHANGED <<added, dumpVars>> PROVE TypeInv'
  BY <1>2 DEF TakeSnapshot, Snapshot, Running, processVars, workerVars, dumpVars
<1>3. ASSUME NEW p \in Pids, FillQueue(p), UNCHANGED <<added, dumpVars>>
      PROVE  TypeInv'
  <2>1. Append(queue, p) \in Seq(Pids)
    OBVIOUS
  <2> QED BY <1>3, <2>1 DEF FillQueue, Push, processVars, dumpVars
<1>4. ASSUME SpawnWorkers, UNCHANGED <<added, dumpVars>> PROVE TypeInv'
  BY <1>4 DEF SpawnWorkers, processVars, dumpVars
<1>5. ASSUME CountRunning("check"), UNCHANGED <<added, dumpVars>> PROVE TypeInv'
  BY <1>5, CountIsNat DEF CountRunning, processVars, workerVars, dumpVars
<1>6. ASSUME JoinWorkers, UNCHANGED <<added, dumpVars>> PROVE TypeInv'
  BY <1>6 DEF JoinWorkers, processVars, workerVars, dumpVars
<1>7. CASE LoopTest
  BY <1>7 DEF LoopTest, processVars, workerVars, dumpVars
<1>8. CASE CheckRescan
  BY <1>8 DEF CheckRescan, Snapshot, Running, processVars, workerVars, dumpVars
<1>9. ASSUME NEW p \in Pids, RefillQueue(p) PROVE TypeInv'
  <2>1. Append(queue, p) \in Seq(Pids)
    OBVIOUS
  <2> QED BY <1>9, <2>1 DEF RefillQueue, Push, processVars, dumpVars
<1>10. CASE Respawn
  BY <1>10 DEF Respawn, Goto, processVars, dumpVars
<1>11. CASE EndRefill
  BY <1>11 DEF EndRefill, processVars, workerVars, dumpVars
<1> QED
  BY <1>1, <1>2, <1>3, <1>4, <1>5, <1>6, <1>7, <1>8, <1>9, <1>10, <1>11 DEF Main

LEMMA AtProcess ==
  ASSUME TypeInv, NEW w \in Workers
  PROVE  /\ wPc[w] \in Busy => holding[w] \in Pids
         /\ wPc[w] = "write" => module[w] \in Hashes
BY DEF TypeInv

LEMMA WorkerType ==
  ASSUME TypeInv, NEW w \in Workers, Worker(w) PROVE TypeInv'
<1> USE DEF TypeInv, Busy, TypeOK, PoolTypeOK, Goto
<1>1. ASSUME WorkerTest(w), UNCHANGED <<added, dumpVars>> PROVE TypeInv'
  BY <1>1 DEF WorkerTest, processVars, mainVars, dumpVars
<1>2. ASSUME WorkerPop(w, "dump"), UNCHANGED <<added, dumpVars>> PROVE TypeInv'
  <2>1. queue # <<>> => Tail(queue) \in Seq(Pids) /\ Head(queue) \in Pids
    OBVIOUS
  <2>2. holding' \in [Workers -> Pids \cup {NoPid}] /\ queue' \in Seq(Pids)
    <3>1. \/ /\ queue # <<>> /\ queue' = Tail(queue)
             /\ holding' = [holding EXCEPT ![w] = Head(queue)]
          \/ UNCHANGED <<queue, holding>>
      BY <1>2 DEF WorkerPop
    <3>2. queue \in Seq(Pids) /\ holding \in [Workers -> Pids \cup {NoPid}]
      OBVIOUS
    <3> HIDE DEF TypeInv, TypeOK, PoolTypeOK, Goto
    <3>3. holding' \in [Workers -> Pids \cup {NoPid}]
      BY <2>1, <3>1, <3>2
    <3>4. queue' \in Seq(Pids)
      BY <2>1, <3>1, <3>2
    <3> QED BY <3>3, <3>4
  <2>3. PICK l \in {"dump", "test"} : wPc' = [wPc EXCEPT ![w] = l]
    BY <1>2 DEF WorkerPop
  <2>4. \A v \in Workers : wPc'[v] \in Busy => holding'[v] \in Pids
    BY <1>2, <2>1, <2>3 DEF WorkerPop
  <2>5. wPc[w] = "pop" /\ UNCHANGED <<newHashes, processed, clean, processVars, mainVars>>
    BY <1>2 DEF WorkerPop
  <2>6. PoolTypeOK'
    BY <2>2, <2>3, <2>5 DEF processVars, mainVars
  <2>7. \A v \in Workers : wPc'[v] = "write" => wPc[v] = "write"
    BY <2>3, <2>5
  <2>8. UNCHANGED <<added, walk, module, written>>
    BY <1>2 DEF dumpVars
  <2> QED
    BY <2>4, <2>6, <2>7, <2>8
<1>3. ASSUME CollectHashes(w), UNCHANGED <<added, dumpVars>> PROVE TypeInv'
  <2>1. CASE GetAllHashes(w)
    <3>1. holding[w] \in Pids
      BY <2>1, AtProcess DEF GetAllHashes
    <3>2. Readable(holding[w]) \in SUBSET Hashes
      BY <3>1 DEF Readable
    <3> QED BY <1>3, <2>1, <3>2 DEF GetAllHashes, processVars, mainVars, dumpVars
  <2>2. CASE LockDatabase(w)
    BY <1>3, <2>2 DEF LockDatabase, processVars, mainVars, dumpVars
  <2>3. ASSUME NEW h \in Hashes, InsertHash(w, h) PROVE TypeInv'
    BY <1>3, <2>3 DEF InsertHash, processVars, mainVars, dumpVars
  <2>4. CASE FinishProcess(w)
    <3>1. holding[w] \in Pids
      BY <2>4, AtProcess DEF FinishProcess
    <3>2. processed' \in [Pids -> Nat]
      BY <2>4, <3>1 DEF FinishProcess
    <3> QED
      BY <1>3, <2>4, <3>2 DEF FinishProcess, processVars, mainVars, dumpVars
  <2> QED BY <1>3, <2>1, <2>2, <2>3, <2>4 DEF CollectHashes
<1>4. CASE BeginDump(w)
  <2>1. holding[w] \in Pids
    BY <1>4, AtProcess DEF BeginDump
  <2>2. Readable(holding[w]) \in SUBSET Hashes
    BY <2>1 DEF Readable
  <2> QED BY <1>4, <2>2 DEF BeginDump, processVars, mainVars
<1>5. ASSUME NEW h \in Hashes, CheckModule(w, h) PROVE TypeInv'
  <2>1. walk' \in [Workers -> SUBSET Hashes]
    BY <1>5 DEF CheckModule
  <2>2. \/ /\ wPc' = [wPc EXCEPT ![w] = "write"]
           /\ module' = [module EXCEPT ![w] = h]
        \/ UNCHANGED <<wPc, module>>
    BY <1>5 DEF CheckModule
  <2>3. wPc[w] = "walk" /\ holding[w] \in Pids
    BY <1>5 DEF CheckModule
  <2>4. UNCHANGED <<queue, holding, newHashes, processed, clean, added, written, processVars, mainVars>>
    BY <1>5 DEF CheckModule
  <2>5. TypeOK'
    <3>1. wPc' \in [Workers -> {"none", "test", "pop", "dump", "walk", "write",
                               "gather", "lock", "insert", "ended"}]
      BY <2>2
    <3>2. module' \in [Workers -> Hashes \cup {NoHash}]
      BY <2>2
    <3> QED BY <2>1, <2>4, <3>1, <3>2, SMTT(30) DEF processVars, mainVars
  <2>6. \A v \in Workers : wPc'[v] \in Busy => holding'[v] \in Pids
    BY <2>2, <2>3, <2>4
  <2>7. \A v \in Workers : wPc'[v] = "write" => module'[v] \in Hashes
    BY <2>2, <2>3
  <2> QED BY <2>5, <2>6, <2>7
<1>6. CASE WriteModule(w)
  <2>1. holding[w] \in Pids /\ module[w] \in Hashes
    BY <1>6, AtProcess DEF WriteModule
  <2>2. written' \subseteq Pids \X Hashes
    BY <1>6, <2>1 DEF WriteModule
  <2> QED BY <1>6, <2>2 DEF WriteModule, processVars, mainVars
<1>7. CASE EndDump(w)
  BY <1>7 DEF EndDump, processVars, mainVars, dumpVars
<1> QED BY <1>1, <1>2, <1>3, <1>4, <1>5, <1>6, <1>7 DEF Worker

-----------------------------------------------------------------------------
(* The job: every process taken is in one place, and is processed once.    *)

\* p waits in the queue or is in the hands of a worker.
AtWork(p) == p \in Queued \/ \E w \in Workers : holding[w] = p

PlaceInv ==
  /\ IsInjective(queue)
  /\ Queued \subseteq taken /\ todo \cap taken = {}
  /\ \A w \in Workers : /\ holding[w] # NoPid <=> wPc[w] \in Busy
                        /\ holding[w] # NoPid => holding[w] \in taken \ Queued
  /\ \A v, w \in Workers : v # w /\ holding[v] = holding[w] => holding[w] = NoPid
  /\ \A p \in Pids : processed[p] = IF p \in taken /\ ~AtWork(p) THEN 1 ELSE 0

\* What main has done and what is left when it is over.
PhaseInv ==
  /\ mainPc = "snapshot" => taken = {}
  /\ mainPc \in {"snapshot", "fill"} => \A w \in Workers : wPc[w] = "none"
  /\ mainPc \in {"join", "done"} => queue = <<>>
  /\ mainPc = "done" => \A w \in Workers : wPc[w] = "ended"

JobInv == PlaceInv /\ PhaseInv

\* A step that moves no process between the queue and the workers.
LEMMA NothingMoved ==
  ASSUME PlaceInv, UNCHANGED <<queue, taken, holding, processed>>,
         todo' \cap taken = {},
         \A w \in Workers : wPc'[w] \in Busy <=> wPc[w] \in Busy
  PROVE  PlaceInv'
BY DEF PlaceInv, AtWork, Queued

LEMMA PushKeeps ==
  ASSUME TypeInv, PlaceInv, NEW p \in Pids, NEW l, Push(p, l),
         UNCHANGED <<wPc, holding, processed>>
  PROVE  PlaceInv' /\ (mainPc # "done" /\ l # "done" => Job!Take(p))
<1>1. p \notin taken /\ p \in todo /\ p \notin Queued
  BY DEF Push, PlaceInv
<1>2. /\ queue' = Append(queue, p) /\ queue \in Seq(Pids)
      /\ taken' = taken \cup {p} /\ todo' = todo \ {p} /\ mainPc' = l
  BY DEF Push, TypeInv, TypeOK, PoolTypeOK
<1>3. IsInjective(queue') /\ Queued' = Queued \cup {p}
  BY <1>1, <1>2, AppendElements DEF PlaceInv, Queued
<1>4. \A w \in Workers : holding[w] # p
  BY <1>1, WorkerPoolAssumption DEF PlaceInv
<1>5. \A q \in Pids : AtWork(q)' <=> AtWork(q) \/ q = p
  BY <1>3 DEF AtWork
<1>6. \A q \in Pids : processed'[q] =
         IF q \in taken' /\ ~AtWork(q)' THEN 1 ELSE 0
  BY <1>1, <1>2, <1>5 DEF PlaceInv
<1>7. PlaceInv'
  BY <1>1, <1>2, <1>3, <1>4, <1>6 DEF PlaceInv
<1>8. ASSUME mainPc # "done", l # "done" PROVE Job!Take(p)
  BY <1>1, <1>2, <1>8 DEF Job!Take
<1> QED BY <1>7, <1>8

LEMMA PopKeeps ==
  ASSUME TypeInv, PlaceInv, NEW w \in Workers, WorkerPop(w, "dump")
  PROVE  PlaceInv'
<1>0. /\ wPc[w] = "pop" /\ "pop" \notin Busy /\ "dump" \in Busy /\ "test" \notin Busy
      /\ UNCHANGED <<taken, todo, processed>>
  BY DEF WorkerPop, Busy, mainVars
<1>1. /\ queue \in Seq(Pids) /\ DOMAIN wPc = Workers
      /\ holding \in [Workers -> Pids \cup {NoPid}]
      /\ taken \subseteq Pids
  BY DEF WorkerPop, Goto, TypeInv, TypeOK, PoolTypeOK
<1>2. CASE queue = <<>>
  <2>1. UNCHANGED <<queue, holding>> /\ wPc' = [wPc EXCEPT ![w] = "test"]
    BY <1>2 DEF WorkerPop, Goto
  <2>2. \A v \in Workers : wPc'[v] \in Busy <=> wPc[v] \in Busy
    BY <1>0, <1>1, <2>1
  <2> QED BY <1>0, <2>1, <2>2, NothingMoved DEF PlaceInv
<1>3. CASE queue # <<>>
  <2> DEFINE p == Head(queue)
  <2>1. /\ holding' = [holding EXCEPT ![w] = p] /\ queue' = Tail(queue)
        /\ wPc' = [wPc EXCEPT ![w] = "dump"]
    BY <1>3 DEF WorkerPop, Goto
  <2>2. /\ p \in Pids /\ p \in Queued /\ Queued' = Queued \ {p}
        /\ IsInjective(queue')
    BY <1>1, <1>3, <2>1, TailElements DEF PlaceInv, Queued
  <2>3. holding[w] = NoPid /\ p # NoPid /\ \A v \in Workers : holding[v] # p
    BY <1>0, <2>2, WorkerPoolAssumption DEF PlaceInv
  <2> HIDE DEF p
  <2>4. \A q \in Pids : AtWork(q)' <=> AtWork(q)
    BY <1>1, <2>1, <2>2, <2>3, WorkerPoolAssumption DEF AtWork
  <2>5. \A q \in Pids : processed'[q] =
         IF q \in taken' /\ ~AtWork(q)' THEN 1 ELSE 0
    BY <1>0, <2>4 DEF PlaceInv
  <2>6. Queued' \subseteq taken' /\ todo' \cap taken' = {}
    BY <1>0, <2>2 DEF PlaceInv
  <2>7. \A v \in Workers :
          /\ holding'[v] # NoPid <=> wPc'[v] \in Busy
          /\ holding'[v] # NoPid => holding'[v] \in taken' \ Queued'
    BY <1>0, <1>1, <2>1, <2>2, <2>3 DEF PlaceInv
  <2>8. \A u, v \in Workers :
          u # v /\ holding'[u] = holding'[v] => holding'[v] = NoPid
    BY <1>1, <2>1, <2>3 DEF PlaceInv
  <2> QED BY <2>2, <2>5, <2>6, <2>7, <2>8 DEF PlaceInv
<1> QED BY <1>2, <1>3

LEMMA FinishKeeps ==
  ASSUME TypeInv, PlaceInv, NEW w \in Workers, FinishProcess(w),
         UNCHANGED taken
  PROVE  PlaceInv' /\ Job!Finish(holding[w])
<1> DEFINE p == holding[w]
<1>1. /\ wPc[w] = "insert" /\ "insert" \in Busy /\ "test" \notin Busy
      /\ UNCHANGED <<taken, todo, queue, mainPc>>
      /\ processed' = [processed EXCEPT ![p] = processed[p] + 1]
      /\ holding' = [holding EXCEPT ![w] = NoPid]
      /\ wPc' = [wPc EXCEPT ![w] = "test"]
  BY DEF FinishProcess, Goto, Busy, mainVars
<1>2. /\ DOMAIN wPc = Workers /\ DOMAIN processed = Pids
      /\ holding \in [Workers -> Pids \cup {NoPid}]
      /\ taken \subseteq Pids
  BY DEF TypeInv, TypeOK, PoolTypeOK
<1>3. p \in Pids /\ p # NoPid
  BY <1>1, AtProcess, WorkerPoolAssumption
<1>4. p \in taken /\ p \notin Queued
  BY <1>1, <1>3 DEF PlaceInv
<1>5. \A v \in Workers : v # w => holding[v] # p
  BY <1>3 DEF PlaceInv
<1> HIDE DEF p
<1>6. \A q \in Pids : AtWork(q)' <=> AtWork(q) /\ q # p
  <2>1. w \in Workers /\ holding[w] = p
    BY DEF p
  <2> QED BY <1>1, <1>2, <1>3, <1>4, <1>5, <2>1, WorkerPoolAssumption DEF AtWork, Queued
<1>7. processed[p] = 0 /\ processed' = [processed EXCEPT ![p] = 1]
  <2>1. AtWork(p)
    BY DEF AtWork, p
  <2>2. processed[p] = 0
    BY <1>3, <2>1 DEF PlaceInv
  <2> QED BY <1>1, <2>2
<1>8. \A q \in Pids : processed'[q] =
         IF q \in taken' /\ ~AtWork(q)' THEN 1 ELSE 0
  BY <1>1, <1>2, <1>3, <1>4, <1>6, <1>7 DEF PlaceInv
<1>9. IsInjective(queue)' /\ Queued' \subseteq taken' /\ todo' \cap taken' = {}
  BY <1>1 DEF PlaceInv, Queued
<1>10. \A v \in Workers :
         /\ holding'[v] # NoPid <=> wPc'[v] \in Busy
         /\ holding'[v] # NoPid => holding'[v] \in taken' \ Queued'
  BY <1>1, <1>2 DEF PlaceInv, Queued
<1>11. \A u, v \in Workers :
         u # v /\ holding'[u] = holding'[v] => holding'[v] = NoPid
  BY <1>1, <1>2 DEF PlaceInv
<1>12. Job!Finish(p)
  BY <1>1, <1>4, <1>7 DEF Job!Finish
<1> QED BY <1>8, <1>9, <1>10, <1>11, <1>12 DEF PlaceInv, p

LEMMA MainJob ==
  ASSUME TypeInv, JobInv, Main
  PROVE  JobInv' /\ (Job!Next \/ UNCHANGED Job!vars)
<1> USE DEF JobInv, Job!vars, processVars, workerVars
<1>1. ASSUME TakeSnapshot, UNCHANGED <<added, dumpVars>>
      PROVE  JobInv' /\ UNCHANGED Job!vars
  <2>1. taken = {} /\ UNCHANGED <<queue, wPc, taken, holding, processed>>
        /\ mainPc' = "fill" /\ mainPc = "snapshot"
    BY <1>1 DEF TakeSnapshot, PhaseInv
  <2> QED BY <2>1, NothingMoved DEF PhaseInv
<1>2. ASSUME NEW p \in Pids, NEW l,
             \/ FillQueue(p) /\ l = "fill"
             \/ RefillQueue(p) /\ l \in {"refill", "respawn"},
             Push(p, l)
      PROVE  JobInv' /\ Job!Next
  <2>1. /\ mainPc \notin {"snapshot", "done"} /\ mainPc' = l /\ l # "done"
        /\ UNCHANGED <<wPc, holding, processed>>
        /\ l \notin {"snapshot", "join"} /\ (l = "fill" => mainPc = "fill")
    BY <1>2 DEF FillQueue, RefillQueue, Push
  <2>2. PlaceInv' /\ Job!Take(p)
    BY <1>2, <2>1, PushKeeps
  <2>3. PhaseInv'
    BY <2>1 DEF PhaseInv
  <2> QED BY <2>2, <2>3 DEF Job!Next
<1>3. ASSUME SpawnWorkers PROVE JobInv' /\ UNCHANGED Job!vars
  <2>1. /\ mainPc = "fill" /\ mainPc' = "loop"
        /\ wPc' = [v \in Workers |-> "test"]
        /\ UNCHANGED <<todo, queue, taken, holding, processed>>
    BY <1>3 DEF SpawnWorkers
  <2>2. \A v \in Workers : wPc'[v] \in Busy <=> wPc[v] \in Busy
    BY <2>1 DEF PhaseInv, Busy
  <2>3. todo' \cap taken = {}
    BY <2>1 DEF PlaceInv
  <2> QED BY <2>1, <2>2, <2>3, NothingMoved DEF PhaseInv
<1>4. ASSUME CountRunning("check") \/ LoopTest \/ EndRefill
      PROVE  JobInv' /\ UNCHANGED Job!vars
  <2>1. /\ mainPc \in {"loop", "count", "refill"}
        /\ mainPc' \in {"loop", "count", "check", "join"}
        /\ (mainPc' = "join" => queue = <<>>)
        /\ UNCHANGED <<todo, queue, wPc, taken, holding, processed>>
    BY <1>4 DEF CountRunning, LoopTest, EndRefill
  <2>2. todo' \cap taken = {}
    BY <2>1 DEF PlaceInv
  <2> QED BY <2>1, <2>2, NothingMoved DEF PhaseInv
<1>5. ASSUME CheckRescan PROVE JobInv' /\ UNCHANGED Job!vars
  <2>1. /\ mainPc = "check" /\ mainPc' \in {"refill", "loop"}
        /\ todo' \cap taken = {}
        /\ UNCHANGED <<queue, wPc, taken, holding, processed>>
    BY <1>5 DEF CheckRescan, PlaceInv
  <2> QED BY <2>1, NothingMoved DEF PhaseInv
<1>6. ASSUME Respawn PROVE JobInv' /\ UNCHANGED Job!vars
  <2>1. /\ mainPc = "respawn" /\ mainPc' = "refill"
        /\ UNCHANGED <<todo, queue, taken, holding, processed>>
    BY <1>6 DEF Respawn
  <2>2. \A v \in Workers : wPc'[v] \in Busy <=> wPc[v] \in Busy
    BY <1>6 DEF Respawn, Goto, Busy, TypeInv, TypeOK, PoolTypeOK
  <2>3. todo' \cap taken = {}
    BY <2>1 DEF PlaceInv
  <2> QED BY <2>1, <2>2, <2>3, NothingMoved DEF PhaseInv
<1>7. ASSUME JoinWorkers PROVE JobInv' /\ Job!Next
  <2>1. /\ mainPc = "join" /\ mainPc' = "done" /\ queue = <<>>
        /\ \A v \in Workers : wPc[v] = "ended"
        /\ UNCHANGED <<todo, queue, wPc, taken, holding, processed>>
    BY <1>7 DEF JoinWorkers, PhaseInv
  <2>2. todo' \cap taken = {}
    BY <2>1 DEF PlaceInv
  <2>3. JobInv'
    BY <2>1, <2>2, NothingMoved DEF PhaseInv
  <2>4. \A p \in taken : processed[p] = 1
    <3>1. Queued = {} /\ \A v \in Workers : holding[v] = NoPid
      BY <2>1 DEF PlaceInv, Busy, Queued, ToSet
    <3>2. taken \subseteq Pids
      BY DEF TypeInv, TypeOK, PoolTypeOK
    <3> QED BY <3>1, <3>2, WorkerPoolAssumption DEF PlaceInv, AtWork
  <2>5. Job!End
    BY <2>1, <2>4 DEF Job!End
  <2> QED BY <2>3, <2>5 DEF Job!Next
<1>8. ASSUME NEW p \in Pids, FillQueue(p) \/ RefillQueue(p)
      PROVE  JobInv' /\ Job!Next
  <2>1. PICK l : \/ FillQueue(p) /\ l = "fill" /\ Push(p, l)
                 \/ /\ RefillQueue(p) /\ Push(p, l)
                    /\ l \in {"refill", "respawn"}
    BY <1>8 DEF FillQueue, RefillQueue
  <2> QED BY <1>2, <2>1
<1> QED BY <1>1, <1>3, <1>4, <1>5, <1>6, <1>7, <1>8 DEF Main

LEMMA WorkerJob ==
  ASSUME TypeInv, JobInv, NEW w \in Workers, Worker(w)
  PROVE  JobInv' /\ (Job!Next \/ UNCHANGED Job!vars)
<1> USE DEF JobInv, Job!vars, processVars, mainVars
<1>1. /\ wPc[w] \notin {"none", "ended"} /\ DOMAIN wPc = Workers
      /\ PhaseInv => mainPc \notin {"snapshot", "fill", "done"}
  BY DEF Worker, WorkerTest, WorkerPop, CollectHashes, GetAllHashes,
         LockDatabase, InsertHash, FinishProcess, BeginDump, CheckModule,
         WriteModule, EndDump, PhaseInv, TypeInv, TypeOK, PoolTypeOK
<1>2. ASSUME UNCHANGED mainVars, queue = <<>> => queue' = <<>>
      PROVE  PhaseInv'
  BY <1>1, <1>2 DEF PhaseInv
<1>3. ASSUME UNCHANGED <<mainVars, queue, holding, processed>>,
             wPc' = wPc \/ \E l : /\ wPc' = [wPc EXCEPT ![w] = l]
                                  /\ l \in Busy <=> wPc[w] \in Busy
      PROVE  JobInv' /\ UNCHANGED Job!vars
  <2>1. \A v \in Workers : wPc'[v] \in Busy <=> wPc[v] \in Busy
    BY <1>1, <1>3
  <2>2. todo' \cap taken = {}
    BY <1>3 DEF PlaceInv
  <2> QED BY <1>2, <1>3, <2>1, <2>2, NothingMoved
<1>4. CASE WorkerTest(w)
  <2>1. PICK l \in {"pop", "ended"} : wPc' = [wPc EXCEPT ![w] = l]
    BY <1>4 DEF WorkerTest, Goto
  <2>2. /\ UNCHANGED <<mainVars, queue, holding, processed>>
        /\ l \in Busy <=> wPc[w] \in Busy
    BY <1>4 DEF WorkerTest, Busy
  <2> QED BY <1>3, <2>1, <2>2
<1>5. CASE WorkerPop(w, "dump")
  <2>1. UNCHANGED <<mainVars, processed>> /\ (queue = <<>> => queue' = <<>>)
    BY <1>5 DEF WorkerPop
  <2> QED BY <1>2, <1>5, <2>1, PopKeeps
<1>6. CASE FinishProcess(w)
  <2>1. UNCHANGED <<mainVars, queue>> /\ wPc[w] = "insert"
    BY <1>6 DEF FinishProcess
  <2>2. PlaceInv' /\ Job!Finish(holding[w])
    BY <1>6, <2>1, FinishKeeps
  <2>3. holding[w] \in Pids
    BY <2>1, AtProcess DEF Busy
  <2> QED BY <1>2, <2>1, <2>2, <2>3 DEF Job!Next
<1>7. CASE \/ GetAllHashes(w) \/ LockDatabase(w) \/ BeginDump(w)
           \/ WriteModule(w) \/ EndDump(w)
           \/ \E h \in Hashes : InsertHash(w, h) \/ CheckModule(w, h)
  <2>1. /\ UNCHANGED <<mainVars, queue, holding, processed>>
        /\ wPc' = wPc \/ \E l : /\ wPc' = [wPc EXCEPT ![w] = l]
                                /\ l \in Busy <=> wPc[w] \in Busy
    BY <1>7 DEF GetAllHashes, LockDatabase, BeginDump, WriteModule, EndDump,
                InsertHash, CheckModule, Goto, Busy
  <2> QED BY <1>3, <2>1
<1> QED BY <1>4, <1>5, <1>6, <1>7 DEF Worker, CollectHashes

\* The inductive invariant: types, the place of every process, the phases.
THEOREM Invariance == Spec => [](TypeInv /\ JobInv)
<1>1. Init => TypeInv /\ JobInv
  <2> SUFFICES ASSUME Init PROVE TypeInv /\ JobInv
    OBVIOUS
  <2>1. TypeInv
    <3>1. PoolTypeOK
      <4>1. proc \in [Pids -> {"unborn", "running", "exited"}]
        BY DEF Init, PoolInit
      <4>2. clean \subseteq Hashes
        BY WorkerPoolAssumption DEF Init, PoolInit
      <4>3. queue \in Seq(Pids)
        BY DEF Init, PoolInit
      <4> QED BY <4>1, <4>2, <4>3 DEF Init, PoolInit, PoolTypeOK
    <3> QED BY <3>1 DEF Init, PoolInit, TypeInv, TypeOK, Busy
  <2>2. /\ queue = <<>> /\ todo = {} /\ taken = {} /\ mainPc = "snapshot"
        /\ wPc = [w \in Workers |-> "none"]
        /\ holding = [w \in Workers |-> NoPid]
        /\ processed = [p \in Pids |-> 0]
    BY DEF Init, PoolInit
  <2>3. IsInjective(queue) /\ Queued = {}
    BY <2>2 DEF IsInjective, Queued, ToSet
  <2>4. PlaceInv
    BY <2>2, <2>3 DEF PlaceInv, Busy
  <2>5. PhaseInv
    BY <2>2 DEF PhaseInv
  <2> QED BY <2>1, <2>4, <2>5 DEF JobInv
<1>2. TypeInv /\ JobInv /\ [Next]_vars => (TypeInv /\ JobInv)'
  <2> SUFFICES ASSUME TypeInv, JobInv, [Next]_vars
               PROVE  TypeInv' /\ JobInv'
    OBVIOUS
  <2>1. CASE UNCHANGED vars
    BY <2>1 DEF vars, poolVars, processVars, mainVars, workerVars, dumpVars,
       TypeInv, TypeOK, PoolTypeOK, JobInv, PlaceInv, PhaseInv, AtWork, Queued
  <2>2. CASE System /\ UNCHANGED <<added, dumpVars>>
    <3>1. TypeInv'
      BY <2>2, MainType
    <3>2. UNCHANGED <<mainVars, workerVars>>
      BY <2>2 DEF System, StartProcess, LoadModule, ExitProcess
    <3> QED
      BY <3>1, <3>2 DEF mainVars, workerVars, JobInv, PlaceInv, PhaseInv, AtWork,
                        Queued
  <2>3. CASE Main
    BY <2>3, MainType, MainJob
  <2>4. ASSUME NEW w \in Workers, Worker(w) PROVE TypeInv' /\ JobInv'
    BY <2>4, WorkerType, WorkerJob
  <2> QED BY <2>1, <2>2, <2>3, <2>4 DEF Next
<1> QED BY <1>1, <1>2, PTL DEF Spec

\* Type correctness, for every set of processes, workers and hashes.
THEOREM TypeCorrect == Spec => []TypeOK
<1>1. TypeInv => TypeOK
  BY DEF TypeInv
<1> QED BY <1>1, Invariance, PTL

\* dump_system implements ProcessJob: every process pushed is processed by
\* one worker, once, and the job is over only when none is left.
THEOREM Refinement == Spec => KeepsJob
<1>1. Init => Job!Init
  BY DEF Init, PoolInit, Job!Init
<1>2. TypeInv /\ JobInv /\ [Next]_vars => [Job!Next]_(Job!vars)
  <2> SUFFICES ASSUME TypeInv, JobInv, [Next]_vars
               PROVE  Job!Next \/ UNCHANGED Job!vars
    OBVIOUS
  <2>1. CASE UNCHANGED vars
    BY <2>1 DEF vars, poolVars, mainVars, workerVars, Job!vars
  <2>2. CASE System /\ UNCHANGED <<added, dumpVars>>
    <3>1. UNCHANGED <<mainVars, workerVars>>
      BY <2>2 DEF System, StartProcess, LoadModule, ExitProcess
    <3> QED BY <3>1 DEF mainVars, workerVars, Job!vars
  <2>3. CASE Main
    BY <2>3, MainJob
  <2>4. ASSUME NEW w \in Workers, Worker(w)
        PROVE  Job!Next \/ UNCHANGED Job!vars
    BY <2>4, WorkerJob
  <2> QED BY <2>1, <2>2, <2>3, <2>4 DEF Next
<1> QED BY <1>1, <1>2, Invariance, PTL DEF Spec, KeepsJob, Job!Spec

-----------------------------------------------------------------------------
(* How often a module is written, when a lookup never misses.              *)

\* A process in the job has been started, and is never started again.
BirthInv ==
  /\ \A p \in todo \cup taken : proc[p] # "unborn"
  /\ \A p \in Pids : proc[p] = "exited" => modules[p] = {}

\* p has h, unless it has ended.
Has(p, h) == h \in modules[p] \/ proc[p] = "exited"

\* What is written, or about to be, was read in a process of the job.
SourceInv ==
  /\ \A p \in Pids, h \in Hashes : <<p, h>> \in written =>
       p \in taken /\ p \notin Protected /\ Has(p, h)
  /\ \A w \in Workers :
       /\ wPc[w] \in {"walk", "write"} /\ walk[w] # {} => holding[w] \notin Protected
       /\ wPc[w] = "write" => /\ holding[w] \notin Protected
                              /\ Has(holding[w], module[w])

\* A dumped module gets into the database before the worker is through with
\* the process.
CollectInv ==
  \A h \in Hashes \ clean, p \in Pids :
    h \in modules[p] /\ <<p, h>> \in written =>
      \E w \in Workers : /\ holding[w] = p
                         /\ wPc[w] \in {"lock", "insert"} => h \in newHashes[w]

\* The processes h has been dumped from, or is about to be.
Copies(h) ==
  {p \in Pids : \/ h \in modules[p] /\ <<p, h>> \in written
                \/ \E w \in Workers :
                     holding[w] = p /\ wPc[w] = "write" /\ module[w] = h}

Few(S) == IsFiniteSet(S) /\ Cardinality(S) <= Cardinality(Workers)

CopyInv ==
  /\ BirthInv /\ SourceInv /\ CollectInv
  /\ \A h \in Hashes : Few(Copies(h))

LEMMA HeldAreFew ==
  ASSUME TypeInv, NEW S, \A p \in S : \E w \in Workers : holding[w] = p
  PROVE  Few(S)
<1> DEFINE T == {holding[w] : w \in Workers}
           f == [w \in Workers |-> holding[w]]
<1>1. f \in Surjection(Workers, T)
  BY DEF Surjection
<1>2. IsFiniteSet(T) /\ Cardinality(T) <= Cardinality(Workers)
  BY <1>1, FS_Surjection, WorkerPoolAssumption
<1>3. IsFiniteSet(S) /\ Cardinality(S) <= Cardinality(T)
  <2>1. S \in SUBSET T
    OBVIOUS
  <2> QED BY <1>2, <2>1, FS_Subset
<1>4. Cardinality(S) \in Nat /\ Cardinality(T) \in Nat /\ Cardinality(Workers) \in Nat
  BY <1>2, <1>3, FS_CardinalityType, WorkerPoolAssumption
<1> QED BY <1>2, <1>3, <1>4 DEF Few

LEMMA FewerAreFew ==
  ASSUME NEW S, NEW T \in SUBSET S, Few(S) PROVE Few(T)
<1>1. IsFiniteSet(T) /\ Cardinality(T) <= Cardinality(S)
  BY FS_Subset DEF Few
<1>2. Cardinality(S) \in Nat /\ Cardinality(T) \in Nat /\ Cardinality(Workers) \in Nat
  BY <1>1, FS_CardinalityType, WorkerPoolAssumption DEF Few
<1> QED BY <1>1, <1>2 DEF Few

LEMMA SystemCopy ==
  ASSUME TypeInv, JobInv, CopyInv, System, UNCHANGED <<added, dumpVars>>
  PROVE  CopyInv'
<1> USE DEF dumpVars, mainVars, workerVars
<1>0. /\ proc \in [Pids -> {"unborn", "running", "exited"}]
      /\ modules \in [Pids -> SUBSET Hashes] /\ taken \subseteq Pids /\ todo \subseteq Pids
      /\ \A w \in Workers : wPc[w] \in Busy => holding[w] \in taken
  BY AtProcess, WorkerPoolAssumption
  DEF TypeInv, TypeOK, PoolTypeOK, JobInv, PlaceInv
<1>1. /\ UNCHANGED <<mainVars, workerVars, clean>>
      /\ \A p \in Pids : proc[p] = "exited" => proc'[p] = "exited"
      /\ \A p \in Pids : proc'[p] = "unborn" => proc[p] = "unborn"
      /\ \A p \in Pids : proc'[p] = "exited" => modules'[p] = {}
  BY <1>0 DEF System, StartProcess, LoadModule, ExitProcess, CopyInv, BirthInv
<1>2. \A p \in Pids, h \in Hashes : proc[p] # "unborn" =>
        /\ Has(p, h) => Has(p, h)'
        /\ Has(p, h) /\ h \in modules'[p] => h \in modules[p]
  BY <1>0 DEF System, StartProcess, LoadModule, ExitProcess, CopyInv, BirthInv, Has
<1>3. BirthInv'
  BY <1>0, <1>1 DEF CopyInv, BirthInv
<1>4. \A p \in taken : p \in Pids /\ proc[p] # "unborn"
  BY <1>0 DEF CopyInv, BirthInv
<1>5. SourceInv'
  <2>1. ASSUME NEW w \in Workers, wPc[w] = "write"
        PROVE  Has(holding[w], module[w])'
    <3>1. /\ holding[w] \in taken /\ Has(holding[w], module[w])
          /\ module[w] \in Hashes
      BY <1>0, <2>1, AtProcess DEF CopyInv, SourceInv, Busy
    <3> QED BY <1>1, <1>2, <1>4, <3>1 DEF Has
  <2>2. ASSUME NEW p \in Pids, NEW h \in Hashes, <<p, h>> \in written
        PROVE  p \in taken /\ p \notin Protected /\ Has(p, h)'
    BY <1>2, <1>4, <2>2 DEF CopyInv, SourceInv
  <2> QED BY <1>1, <2>1, <2>2 DEF CopyInv, SourceInv
<1>6. \A p \in Pids, h \in Hashes : <<p, h>> \in written /\ h \in modules'[p] =>
        h \in modules[p]
  BY <1>2, <1>4 DEF CopyInv, SourceInv
<1>7. CollectInv'
  BY <1>1, <1>6 DEF CopyInv, CollectInv
<1>8. ASSUME NEW h \in Hashes PROVE Few(Copies(h))'
  <2>1. Copies(h)' \subseteq Copies(h)
    BY <1>1, <1>6 DEF Copies
  <2>2. Few(Copies(h)')
    BY <2>1, FewerAreFew DEF CopyInv
  <2> QED BY <2>2 DEF Few
<1> QED BY <1>3, <1>5, <1>7, <1>8 DEF CopyInv

LEMMA MainCopy ==
  ASSUME TypeInv, JobInv, CopyInv, Main PROVE CopyInv'
<1>1. /\ UNCHANGED <<processVars, newHashes, holding, clean, dumpVars>>
      /\ taken \subseteq taken'
      /\ todo' \cup taken' \subseteq todo \cup taken \cup Running
  BY DEF Main, TakeSnapshot, FillQueue, RefillQueue, Push, SpawnWorkers,
         CountRunning, JoinWorkers, LoopTest, CheckRescan, Respawn, EndRefill,
         Snapshot, workerVars
<1>2. \A w \in Workers : wPc'[w] \in {wPc[w], "test"}
  BY DEF Main, TakeSnapshot, FillQueue, RefillQueue, Push, SpawnWorkers,
         CountRunning, JoinWorkers, LoopTest, CheckRescan, Respawn, EndRefill,
         workerVars, Goto, TypeInv, TypeOK, PoolTypeOK
<1>3. UNCHANGED <<proc, modules, walk, module, written>>
  BY <1>1 DEF processVars, dumpVars
<1>4. BirthInv'
  BY <1>1, <1>3 DEF CopyInv, BirthInv, Running
<1>5. SourceInv'
  BY <1>1, <1>2, <1>3 DEF CopyInv, SourceInv, Has
<1>6. CollectInv'
  BY <1>1, <1>2, <1>3 DEF CopyInv, CollectInv
<1>7. ASSUME NEW h \in Hashes PROVE Few(Copies(h))'
  <2>1. Copies(h)' \subseteq Copies(h)
    BY <1>1, <1>2, <1>3 DEF Copies
  <2>2. Few(Copies(h)')
    BY <2>1, FewerAreFew DEF CopyInv
  <2> QED BY <2>2 DEF Few
<1> QED BY <1>4, <1>5, <1>6, <1>7 DEF CopyInv

\* All who have an unknown module to themselves are held by workers.
LEMMA UnknownIsHeld ==
  ASSUME TypeInv, CopyInv, NEW h \in Hashes \ clean, NEW p \in Copies(h)
  PROVE  \E w \in Workers : holding[w] = p
BY DEF CopyInv, CollectInv, Copies

LEMMA WorkerCopy ==
  ASSUME RacyReads = FALSE,
         TypeInv, JobInv, CopyInv, NEW w \in Workers, Worker(w)
  PROVE  CopyInv'
<1>1. /\ UNCHANGED <<proc, modules, taken, todo>> /\ clean \subseteq clean'
      /\ DOMAIN wPc = Workers /\ DOMAIN holding = Workers
      /\ DOMAIN walk = Workers /\ DOMAIN module = Workers
      /\ DOMAIN newHashes = Workers
      /\ taken \subseteq Pids /\ clean \subseteq Hashes
      /\ walk \in [Workers -> SUBSET Hashes] /\ modules \in [Pids -> SUBSET Hashes]
  BY DEF Worker, WorkerTest, WorkerPop, CollectHashes, GetAllHashes,
         LockDatabase, InsertHash, FinishProcess, BeginDump, CheckModule,
         WriteModule, EndDump, processVars, mainVars, TypeInv, TypeOK, PoolTypeOK
<1>2. BirthInv'
  BY <1>1 DEF CopyInv, BirthInv
<1>3. ASSUME SourceInv', CollectInv',
             \A h \in Hashes : Copies(h)' \subseteq Copies(h)
      PROVE  CopyInv'
  <2>1. ASSUME NEW h \in Hashes PROVE Few(Copies(h))'
    <3>1. Few(Copies(h)')
      BY <1>3, FewerAreFew DEF CopyInv
    <3> QED BY <3>1 DEF Few
  <2> QED BY <1>2, <1>3, <2>1 DEF CopyInv
<1>4. wPc[w] \in Busy => holding[w] \in Pids /\ holding[w] \in taken
  BY AtProcess, WorkerPoolAssumption DEF JobInv, PlaceInv
\* Steps between two processes.
<1>5. ASSUME WorkerTest(w) \/ WorkerPop(w, "dump"), UNCHANGED dumpVars
      PROVE  CopyInv'
  <2>1. /\ UNCHANGED <<walk, module, written, newHashes, clean>>
        /\ wPc[w] \in {"test", "pop"} /\ holding[w] = NoPid
        /\ \A v \in Workers : v # w => wPc'[v] = wPc[v] /\ holding'[v] = holding[v]
        /\ wPc'[w] \in {"pop", "ended", "dump", "test"}
    BY <1>1, <1>5
    DEF WorkerTest, WorkerPop, Goto, dumpVars, JobInv, PlaceInv, Busy
  <2>2. SourceInv'
    BY <1>1, <2>1 DEF CopyInv, SourceInv, Has
  <2>3. CollectInv'
    BY <1>1, <2>1, WorkerPoolAssumption DEF CopyInv, CollectInv
  <2>4. \A h \in Hashes : Copies(h)' \subseteq Copies(h)
    BY <1>1, <2>1 DEF Copies
  <2> QED BY <1>3, <2>2, <2>3, <2>4
\* Steps of the collection of hashes.
<1>6. ASSUME GetAllHashes(w) \/ LockDatabase(w), UNCHANGED dumpVars PROVE CopyInv'
  <2>1. /\ UNCHANGED <<walk, module, written, holding, clean>>
        /\ \A v \in Workers : v # w => wPc'[v] = wPc[v] /\ newHashes'[v] = newHashes[v]
        /\ wPc'[w] \in {"lock", "insert"} /\ wPc[w] \in Busy
    BY <1>1, <1>6 DEF GetAllHashes, LockDatabase, Goto, dumpVars, Busy
  <2>2. SourceInv'
    BY <1>1, <2>1 DEF CopyInv, SourceInv, Has
  <2>3. ASSUME NEW h \in Hashes \ clean, NEW p \in Pids,
               h \in modules[p], <<p, h>> \in written, holding[w] = p
        PROVE  (wPc[w] = "lock" /\ h \in newHashes[w]) \/ h \in newHashes'[w]
    <3>1. p \notin Protected
      BY <2>3 DEF CopyInv, SourceInv
    <3>2. CASE GetAllHashes(w)
      BY <1>1, <2>3, <3>1, <3>2 DEF GetAllHashes, Readable
    <3>3. CASE LockDatabase(w)
      <4>1. PICK v \in Workers :
              holding[v] = p /\ (wPc[v] \in {"lock", "insert"} => h \in newHashes[v])
        BY <2>3 DEF CopyInv, CollectInv
      <4>2. v = w
        BY <2>3, <4>1, WorkerPoolAssumption DEF JobInv, PlaceInv
      <4> QED BY <3>3, <4>1, <4>2 DEF LockDatabase
    <3> QED BY <1>6, <3>2, <3>3
  <2>4. UNCHANGED newHashes \/ wPc[w] # "lock"
    BY <1>6 DEF LockDatabase, GetAllHashes
  <2>5. CollectInv'
    BY <1>1, <2>1, <2>3, <2>4 DEF CopyInv, CollectInv
  <2>6. \A h \in Hashes : Copies(h)' \subseteq Copies(h)
    BY <1>1, <2>1 DEF Copies
  <2> QED BY <1>3, <2>2, <2>5, <2>6
<1>7. ASSUME NEW h \in Hashes, InsertHash(w, h), UNCHANGED dumpVars PROVE CopyInv'
  <2>1. /\ UNCHANGED <<walk, module, written, holding, wPc>>
        /\ clean' = clean \cup {h}
        /\ \A v \in Workers : newHashes'[v] \cup {h} = newHashes[v] \cup {h}
    BY <1>1, <1>7 DEF InsertHash, dumpVars
  <2>2. SourceInv'
    BY <1>1, <2>1 DEF CopyInv, SourceInv, Has
  <2>3. CollectInv'
    BY <1>1, <2>1 DEF CopyInv, CollectInv
  <2>4. \A g \in Hashes : Copies(g)' \subseteq Copies(g)
    BY <1>1, <2>1 DEF Copies
  <2> QED BY <1>3, <2>2, <2>3, <2>4
<1>8. ASSUME FinishProcess(w), UNCHANGED dumpVars PROVE CopyInv'
  <2>1. /\ UNCHANGED <<walk, module, written, newHashes, clean>>
        /\ wPc[w] = "insert" /\ newHashes[w] = {}
        /\ \A v \in Workers : v # w => wPc'[v] = wPc[v] /\ holding'[v] = holding[v]
        /\ wPc'[w] = "test"
    BY <1>1, <1>8 DEF FinishProcess, Goto, dumpVars
  <2>2. SourceInv'
    BY <1>1, <2>1 DEF CopyInv, SourceInv, Has
  <2>3. CollectInv'
    BY <1>1, <2>1 DEF CopyInv, CollectInv
  <2>4. \A h \in Hashes : Copies(h)' \subseteq Copies(h)
    BY <1>1, <2>1 DEF Copies
  <2> QED BY <1>3, <2>2, <2>3, <2>4
\* Steps of the dump.
<1>9. ASSUME BeginDump(w) \/ EndDump(w) PROVE CopyInv'
  <2>1. /\ UNCHANGED <<module, written, newHashes, clean, holding>>
        /\ wPc[w] \in Busy
        /\ \A v \in Workers : v # w => wPc'[v] = wPc[v] /\ walk'[v] = walk[v]
        /\ wPc'[w] \in {"walk", "gather"}
        /\ wPc'[w] = "walk" => walk'[w] = Readable(holding[w])
    BY <1>1, <1>9 DEF BeginDump, EndDump, Goto, dumpVars, Busy
  <2>2. SourceInv'
    BY <1>1, <2>1 DEF CopyInv, SourceInv, Has, Readable
  <2>3. CollectInv'
    BY <1>1, <2>1 DEF CopyInv, CollectInv
  <2>4. \A h \in Hashes : Copies(h)' \subseteq Copies(h)
    BY <1>1, <2>1 DEF Copies
  <2> QED BY <1>3, <2>2, <2>3, <2>4
<1>10. ASSUME NEW h \in Hashes, CheckModule(w, h) PROVE CopyInv'
  <2>1. /\ UNCHANGED <<written, newHashes, clean, holding>>
        /\ wPc[w] = "walk" /\ h \in walk[w] /\ holding[w] \in Pids
        /\ walk' = [walk EXCEPT ![w] = walk[w] \ {h}]
        /\ \A v \in Workers : v # w => wPc'[v] = wPc[v] /\ module'[v] = module[v]
    BY <1>1, <1>4, <1>10 DEF CheckModule, Goto, Busy
  <2>2. CASE UNCHANGED <<wPc, module>>
    <3>1. SourceInv'
      BY <1>1, <2>1, <2>2 DEF CopyInv, SourceInv, Has
    <3>2. CollectInv'
      BY <1>1, <2>1, <2>2 DEF CopyInv, CollectInv
    <3>3. \A g \in Hashes : Copies(g)' \subseteq Copies(g)
      BY <1>1, <2>1, <2>2 DEF Copies
    <3> QED BY <1>3, <3>1, <3>2, <3>3
  <2>3. CASE /\ h \in modules[holding[w]] /\ FALSE \in Lookup(w, h)
             /\ wPc' = [wPc EXCEPT ![w] = "write"]
             /\ module' = [module EXCEPT ![w] = h]
    <3>1. h \notin clean
      BY <2>3 DEF Lookup
    <3>2. wPc'[w] = "write" /\ module'[w] = h
      BY <1>1, <2>3
    <3>3. holding[w] \notin Protected
      BY <2>1 DEF CopyInv, SourceInv
    <3>4. SourceInv'
      BY <1>1, <2>1, <2>3, <3>2, <3>3 DEF CopyInv, SourceInv, Has
    <3>5. CollectInv'
      BY <1>1, <2>1, <3>2 DEF CopyInv, CollectInv
    <3>6. ASSUME NEW g \in Hashes PROVE Few(Copies(g))'
      <4>1. CASE g # h
        <5>1. Copies(g)' \subseteq Copies(g)
          BY <1>1, <2>1, <3>2, <4>1 DEF Copies
        <5>2. Few(Copies(g)')
          BY <5>1, FewerAreFew DEF CopyInv
        <5> QED BY <5>2 DEF Few
      <4>2. CASE g = h
        <5>1. \A p \in Copies(h)' : p \in Copies(h) \/ p = holding[w]
          BY <1>1, <2>1 DEF Copies
        <5>2. \A p \in Copies(h)' : \E v \in Workers : holding[v] = p
          BY <3>1, <5>1, UnknownIsHeld
        <5>3. Few(Copies(h)')
          BY <5>2, HeldAreFew
        <5> QED BY <4>2, <5>3 DEF Few
      <4> QED BY <4>1, <4>2
    <3> QED BY <1>2, <3>4, <3>5, <3>6 DEF CopyInv
  <2> QED BY <1>10, <2>2, <2>3 DEF CheckModule, Goto
<1>11. CASE WriteModule(w)
  <2> DEFINE p == holding[w]
             h == module[w]
  <2>1. /\ UNCHANGED <<newHashes, clean, holding, walk>>
        /\ wPc[w] = "write" /\ p \in Pids /\ p \in taken /\ h \in Hashes
        /\ wPc'[w] = "walk"
        /\ \A v \in Workers : v # w => wPc'[v] = wPc[v] /\ module'[v] = module[v]
        /\ written \subseteq written' /\ written' \subseteq written \cup {<<p, h>>}
    BY <1>1, <1>4, <1>11, AtProcess DEF WriteModule, Goto, Busy
  <2>2. p \notin Protected /\ Has(p, h)
    BY <2>1 DEF CopyInv, SourceInv
  <2>3. SourceInv'
    BY <1>1, <2>1, <2>2 DEF CopyInv, SourceInv, Has
  <2>4. CollectInv'
    BY <1>1, <2>1 DEF CopyInv, CollectInv
  <2>5. \A g \in Hashes : Copies(g)' \subseteq Copies(g)
    BY <1>1, <2>1 DEF Copies
  <2> QED BY <1>3, <2>3, <2>4, <2>5
<1> QED
  BY <1>5, <1>6, <1>7, <1>8, <1>9, <1>10, <1>11 DEF Worker, CollectHashes

\* Where lookups do not miss, a module is dumped once for each worker at most,
\* from processes that still have it mapped.
THEOREM CopiesBounded ==
  ASSUME RacyReads = FALSE PROVE Spec => []BoundedCopies
<1>1. Init => CopyInv
  <2> SUFFICES ASSUME Init PROVE CopyInv
    OBVIOUS
  <2>1. /\ proc \in [Pids -> {"unborn", "running"}]
        /\ todo = {} /\ taken = {} /\ written = {}
        /\ \A w \in Workers : wPc[w] = "none"
    BY DEF Init, PoolInit
  <2>2. ASSUME NEW h \in Hashes PROVE Few(Copies(h))
    <3>1. Copies(h) = {}
      BY <2>1 DEF Copies
    <3>2. Cardinality(Workers) \in Nat
      BY FS_CardinalityType, WorkerPoolAssumption
    <3> QED BY <3>1, <3>2, FS_EmptySet DEF Few
  <2> QED BY <2>1, <2>2 DEF CopyInv, BirthInv, SourceInv, CollectInv
<1>2. TypeInv /\ JobInv /\ CopyInv /\ [Next]_vars => CopyInv'
  <2> SUFFICES ASSUME TypeInv, JobInv, CopyInv, [Next]_vars PROVE CopyInv'
    OBVIOUS
  <2>1. CASE UNCHANGED vars
    BY <2>1 DEF vars, poolVars, processVars, mainVars, workerVars, dumpVars,
       CopyInv, BirthInv, SourceInv, CollectInv, Has, Copies, Few
  <2>2. CASE System /\ UNCHANGED <<added, dumpVars>>
    BY <2>2, SystemCopy
  <2>3. CASE Main
    BY <2>3, MainCopy
  <2>4. ASSUME NEW w \in Workers, Worker(w) PROVE CopyInv'
    BY <2>4, WorkerCopy
  <2> QED BY <2>1, <2>2, <2>3, <2>4 DEF Next
<1>3. TypeInv /\ CopyInv => BoundedCopies
  <2> SUFFICES ASSUME TypeInv, CopyInv, NEW h \in Hashes
               PROVE  Cardinality({p \in Pids : h \in modules[p] /\ <<p, h>> \in written})
                        <= Cardinality(Workers)
    BY DEF BoundedCopies
  <2>1. {p \in Pids : h \in modules[p] /\ <<p, h>> \in written} \in SUBSET Copies(h)
    BY DEF Copies
  <2> QED BY <2>1, FewerAreFew DEF CopyInv, Few
<1> QED BY <1>1, <1>2, <1>3, Invariance, PTL DEF Spec

-----------------------------------------------------------------------------
(* What is excluded has been dumped, when processes load no modules in     *)
(* between and every image can be rebuilt.                                 *)

Dumped(h) == \E p \in Pids : <<p, h>> \in written

\* A module of a process being dumped is known, dumped, or still to come; what
\* is collected from it has been dumped.
WalkInv(w) ==
  /\ wPc[w] \in {"walk", "write", "gather"} =>
       \A h \in Readable(holding[w]) :
         \/ h \in clean \/ Dumped(h)
         \/ h \in walk[w] /\ wPc[w] # "gather"
         \/ wPc[w] = "write" /\ module[w] = h
  /\ wPc[w] \in {"lock", "insert"} => \A h \in newHashes[w] : Dumped(h)

DumpedInv == BirthInv /\ (\A w \in Workers : WalkInv(w)) /\ ExcludedWasDumped

LEMMA SystemDumped ==
  ASSUME Loaders = {}, TypeInv, JobInv, DumpedInv, System,
         UNCHANGED <<added, dumpVars>>
  PROVE  DumpedInv'
<1>0. /\ proc \in [Pids -> {"unborn", "running", "exited"}]
      /\ modules \in [Pids -> SUBSET Hashes] /\ taken \subseteq Pids /\ todo \subseteq Pids
      /\ \A w \in Workers : wPc[w] \in Busy => holding[w] \in taken
  BY AtProcess, WorkerPoolAssumption
  DEF TypeInv, TypeOK, PoolTypeOK, JobInv, PlaceInv
<1>1. /\ UNCHANGED <<todo, taken, wPc, holding, newHashes, clean>>
      /\ UNCHANGED <<walk, module, written>>
      /\ \A p \in Pids : proc'[p] = "unborn" => proc[p] = "unborn"
      /\ \A p \in Pids : proc'[p] = "exited" => modules'[p] = {}
      /\ \A p \in Pids : proc[p] # "unborn" => modules'[p] \subseteq modules[p]
  BY <1>0 DEF System, StartProcess, LoadModule, ExitProcess, DumpedInv, BirthInv,
              mainVars, workerVars, dumpVars
<1>2. BirthInv'
  BY <1>0, <1>1 DEF DumpedInv, BirthInv
<1>3. \A h : Dumped(h)' <=> Dumped(h)
  BY <1>1 DEF Dumped
<1>4. ASSUME NEW w \in Workers, wPc[w] \in Busy
      PROVE  Readable(holding[w])' \subseteq Readable(holding[w])
  <2>1. holding[w] \in Pids /\ proc[holding[w]] # "unborn"
    BY <1>0, <1>4 DEF DumpedInv, BirthInv
  <2> QED BY <1>1, <2>1 DEF Readable
<1>5. \A w \in Workers : WalkInv(w)'
  BY <1>1, <1>3, <1>4 DEF DumpedInv, WalkInv, Busy
<1>6. ExcludedWasDumped'
  BY <1>1 DEF DumpedInv, ExcludedWasDumped
<1> QED BY <1>2, <1>5, <1>6 DEF DumpedInv

LEMMA MainDumped ==
  ASSUME TypeInv, JobInv, DumpedInv, Main PROVE DumpedInv'
<1>1. /\ UNCHANGED <<processVars, newHashes, holding, clean, dumpVars>>
      /\ todo' \cup taken' \subseteq todo \cup taken \cup Running
  BY DEF Main, TakeSnapshot, FillQueue, RefillQueue, Push, SpawnWorkers,
         CountRunning, JoinWorkers, LoopTest, CheckRescan, Respawn, EndRefill,
         Snapshot, workerVars
<1>2. \A w \in Workers : wPc'[w] \in {wPc[w], "test"}
  BY DEF Main, TakeSnapshot, FillQueue, RefillQueue, Push, SpawnWorkers,
         CountRunning, JoinWorkers, LoopTest, CheckRescan, Respawn, EndRefill,
         workerVars, Goto, TypeInv, TypeOK, PoolTypeOK
<1>3. UNCHANGED <<proc, modules, walk, module, written>>
  BY <1>1 DEF processVars, dumpVars
<1>4. BirthInv'
  BY <1>1, <1>3 DEF DumpedInv, BirthInv, Running
<1>5. \A w \in Workers : wPc'[w] = "test" \/ wPc'[w] = wPc[w]
  BY <1>2
<1>6. \A w \in Workers : WalkInv(w)'
  BY <1>1, <1>3, <1>5 DEF DumpedInv, WalkInv, Readable, Dumped
<1>7. ExcludedWasDumped'
  BY <1>1, <1>3 DEF DumpedInv, ExcludedWasDumped
<1> QED BY <1>4, <1>6, <1>7 DEF DumpedInv

LEMMA WorkerDumped ==
  ASSUME BadImage = FALSE, TypeInv, JobInv, DumpedInv,
         NEW w \in Workers, Worker(w)
  PROVE  DumpedInv'
<1>1. /\ UNCHANGED <<proc, modules, taken, todo>> /\ clean \subseteq clean'
      /\ written \subseteq written'
      /\ DOMAIN wPc = Workers /\ DOMAIN holding = Workers
      /\ DOMAIN walk = Workers /\ DOMAIN module = Workers
      /\ DOMAIN newHashes = Workers
      /\ \A v \in Workers \ {w} :
           UNCHANGED <<wPc[v], holding[v], walk[v], module[v], newHashes[v]>>
  BY ZenonT(30) DEF Worker, WorkerTest, WorkerPop, CollectHashes, GetAllHashes, Goto,
         LockDatabase, InsertHash, FinishProcess, BeginDump, CheckModule, dumpVars,
         WriteModule, EndDump, processVars, mainVars, TypeInv, TypeOK, PoolTypeOK
<1>2. BirthInv'
  BY <1>1 DEF DumpedInv, BirthInv
<1>3. \A h : Dumped(h) => Dumped(h)'
  BY <1>1 DEF Dumped
<1>4. ASSUME WalkInv(w)', ExcludedWasDumped' PROVE DumpedInv'
  <2>1. ASSUME NEW v \in Workers, v # w PROVE WalkInv(v)'
    <3>1. WalkInv(v)
      BY DEF DumpedInv
    <3>2. /\ wPc'[v] = wPc[v] /\ walk'[v] = walk[v] /\ module'[v] = module[v]
          /\ newHashes'[v] = newHashes[v]
          /\ Readable(holding[v])' = Readable(holding[v])
      BY <1>1, <2>1 DEF Readable
    <3> QED BY <1>1, <1>3, <3>1, <3>2 DEF WalkInv
  <2> QED BY <1>2, <1>4, <2>1 DEF DumpedInv
<1>5. WalkInv(w) /\ ExcludedWasDumped
  BY DEF DumpedInv
<1>6. UNCHANGED clean => ExcludedWasDumped'
  BY <1>1, <1>5 DEF ExcludedWasDumped
<1>7. ASSUME \/ WorkerTest(w) \/ WorkerPop(w, "dump") \/ LockDatabase(w)
             \/ FinishProcess(w),
             UNCHANGED dumpVars
      PROVE  DumpedInv'
  <2>1. /\ UNCHANGED <<clean, newHashes>>
        /\ wPc'[w] \in {"test", "pop", "ended", "dump", "insert"}
        /\ wPc'[w] = "insert" => wPc[w] = "lock"
    BY <1>1, <1>7 DEF WorkerTest, WorkerPop, LockDatabase, FinishProcess, Goto
  <2>2. WalkInv(w)'
    BY <1>3, <1>5, <2>1 DEF WalkInv
  <2> QED BY <1>4, <1>6, <2>1, <2>2
<1>8. ASSUME GetAllHashes(w), UNCHANGED dumpVars PROVE DumpedInv'
  <2>1. /\ UNCHANGED clean /\ wPc[w] = "gather" /\ wPc'[w] = "lock"
        /\ newHashes'[w] = Readable(holding[w]) \ clean
    BY <1>1, <1>8 DEF GetAllHashes, Goto
  <2>2. WalkInv(w)'
    BY <1>3, <1>5, <2>1 DEF WalkInv
  <2> QED BY <1>4, <1>6, <2>1, <2>2
<1>9. ASSUME NEW h \in Hashes, InsertHash(w, h), UNCHANGED dumpVars
      PROVE  DumpedInv'
  <2>1. /\ clean' = clean \cup {h} /\ wPc[w] = "insert" /\ wPc' = wPc
        /\ h \in newHashes[w] /\ newHashes'[w] \subseteq newHashes[w]
        /\ UNCHANGED written
    BY <1>1, <1>9 DEF InsertHash, dumpVars
  <2>2. WalkInv(w)'
    BY <1>3, <1>5, <2>1 DEF WalkInv
  <2>3. ExcludedWasDumped'
    BY <1>5, <2>1 DEF WalkInv, Dumped, ExcludedWasDumped
  <2> QED BY <1>4, <2>2, <2>3
<1>10. CASE BeginDump(w)
  <2>1. /\ UNCHANGED <<clean, holding, modules>> /\ wPc'[w] = "walk"
        /\ walk'[w] = Readable(holding[w])
    BY <1>1, <1>10 DEF BeginDump, Goto, processVars
  <2>2. WalkInv(w)'
    BY <2>1 DEF WalkInv, Readable
  <2> QED BY <1>4, <1>6, <2>1, <2>2
<1>11. CASE EndDump(w)
  <2>1. /\ UNCHANGED <<clean, holding, modules>> /\ wPc'[w] = "gather"
        /\ wPc[w] = "walk" /\ walk[w] = {}
    BY <1>1, <1>11 DEF EndDump, Goto, processVars
  <2>2. WalkInv(w)'
    BY <1>3, <1>5, <2>1 DEF WalkInv, Readable
  <2> QED BY <1>4, <1>6, <2>1, <2>2
<1>12. CASE WriteModule(w)
  <2>1. /\ UNCHANGED <<clean, holding, modules, walk>>
        /\ wPc'[w] = "walk" /\ wPc[w] = "write"
        /\ <<holding[w], module[w]>> \in written' /\ holding[w] \in Pids
    BY <1>1, <1>12, AtProcess DEF WriteModule, Goto, processVars, Busy
  <2>2. \A h : h = module[w] => Dumped(h)'
    BY <2>1 DEF Dumped
  <2>3. WalkInv(w)'
    BY <1>3, <1>5, <2>1, <2>2 DEF WalkInv, Readable
  <2> QED BY <1>4, <1>6, <2>1, <2>3
<1>13. ASSUME NEW h \in Hashes, CheckModule(w, h) PROVE DumpedInv'
  <2>1. /\ UNCHANGED <<clean, holding, modules>> /\ wPc[w] = "walk"
        /\ walk'[w] = walk[w] \ {h}
    BY <1>1, <1>13 DEF CheckModule, processVars
  <2>2. \/ wPc'[w] = "write" /\ module'[w] = h
        \/ /\ h \notin modules[holding[w]] \/ TRUE \in Lookup(w, h)
           /\ wPc' = wPc
    BY <1>1, <1>13 DEF CheckModule, Goto
  <2>3. TRUE \in Lookup(w, h) => h \in clean
    BY DEF Lookup
  <2>4. \/ wPc'[w] = "write" /\ module'[w] = h
        \/ (h \in clean \/ h \notin Readable(holding[w])) /\ wPc'[w] = "walk"
    BY <2>1, <2>2, <2>3 DEF Readable
  <2>5. WalkInv(w)'
    BY <1>3, <1>5, <2>1, <2>4 DEF WalkInv, Readable
  <2> QED BY <1>4, <1>6, <2>1, <2>5
<1> QED
  BY <1>7, <1>8, <1>9, <1>10, <1>11, <1>12, <1>13 DEF Worker, CollectHashes

\* What the job excludes from the next dumps has been dumped.
THEOREM ExclusionsDumped ==
  ASSUME Loaders = {}, BadImage = FALSE PROVE Spec => []ExcludedWasDumped
<1>1. Init => DumpedInv
  <2> SUFFICES ASSUME Init PROVE DumpedInv
    OBVIOUS
  <2>1. /\ proc \in [Pids -> {"unborn", "running"}]
        /\ todo = {} /\ taken = {} /\ clean = Known
        /\ \A w \in Workers : wPc[w] = "none"
    BY DEF Init, PoolInit
  <2> QED BY <2>1 DEF DumpedInv, BirthInv, WalkInv, ExcludedWasDumped
<1>2. TypeInv /\ JobInv /\ DumpedInv /\ [Next]_vars => DumpedInv'
  <2> SUFFICES ASSUME TypeInv, JobInv, DumpedInv, [Next]_vars PROVE DumpedInv'
    OBVIOUS
  <2>1. CASE UNCHANGED vars
    BY <2>1 DEF vars, poolVars, processVars, mainVars, workerVars, dumpVars,
       DumpedInv, BirthInv, WalkInv, Readable, Dumped, ExcludedWasDumped
  <2>2. CASE System /\ UNCHANGED <<added, dumpVars>>
    BY <2>2, SystemDumped
  <2>3. CASE Main
    BY <2>3, MainDumped
  <2>4. ASSUME NEW w \in Workers, Worker(w) PROVE DumpedInv'
    BY <2>4, WorkerDumped
  <2> QED BY <2>1, <2>2, <2>3, <2>4 DEF Next
<1>3. DumpedInv => ExcludedWasDumped
  BY DEF DumpedInv
<1> QED BY <1>1, <1>2, <1>3, Invariance, PTL DEF Spec
=============================================================================
