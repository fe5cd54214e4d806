------------------------- MODULE SystemHashesProofs -------------------------
(***************************************************************************)
(* Theorems about SystemHashes, for every set of processes, workers and    *)
(* hashes: what the job has been through is in the database, and the job   *)
(* goes through every process once.                                        *)
(***************************************************************************)
EXTENDS SystemHashes, FiniteSetTheorems, TLAPS

(* The work queue: what push and pop do to the set of its entries.         *)

\* What Queue::push does to the set of entries.
LEMMA AppendElements ==
  ASSUME NEW S, NEW q \in Seq(S), NEW e \in S
  PROVE  /\ Append(q, e) \in Seq(S)
         /\ ToSet(Append(q, e)) = ToSet(q) \cup {e}
         /\ IsInjective(q) /\ e \notin ToSet(q) => IsInjective(Append(q, e))
<1>1. /\ Append(q, e) \in Seq(S)
      /\ Len(Append(q, e)) = Len(q) + 1
      /\ \A i \in 1..Len(q) : Append(q, e)[i] = q[i]
      /\ Append(q, e)[Len(q) + 1] = e
  OBVIOUS
<1>2. Len(q) \in Nat
  OBVIOUS
<1>3. ToSet(Append(q, e)) = ToSet(q) \cup {e}
  BY <1>1, <1>2 DEF ToSet
<1>4. ASSUME IsInjective(q), e \notin ToSet(q)
      PROVE  IsInjective(Append(q, e))
  BY <1>1, <1>2, <1>4 DEF ToSet, IsInjective
<1> QED BY <1>1, <1>3, <1>4

\* What Queue::pop does: the head is in no other place of the queue.
LEMMA TailElements ==
  ASSUME NEW S, NEW q \in Seq(S), q # <<>>, IsInjective(q)
  PROVE  /\ Tail(q) \in Seq(S) /\ Head(q) \in S
         /\ Head(q) \in ToSet(q)
         /\ ToSet(Tail(q)) = ToSet(q) \ {Head(q)}
         /\ IsInjective(Tail(q))
<1>1. /\ Tail(q) \in Seq(S) /\ Head(q) \in S
      /\ Head(q) = q[1]
      /\ Len(q) \in Nat /\ Len(q) >= 1
      /\ Len(Tail(q)) = Len(q) - 1
      /\ \A i \in 1..Len(q) - 1 : Tail(q)[i] = q[i + 1]
  OBVIOUS
<1>2. ToSet(Tail(q)) \subseteq ToSet(q) \ {Head(q)}
  BY <1>1 DEF ToSet, IsInjective
<1>3. ASSUME NEW x \in ToSet(q) \ {Head(q)} PROVE x \in ToSet(Tail(q))
  <2>1. PICK i \in 1..Len(q) : x = q[i]
    BY DEF ToSet
  <2>2. i - 1 \in 1..Len(Tail(q)) /\ Tail(q)[i - 1] = x
    BY <1>1, <1>3, <2>1
  <2>3. DOMAIN Tail(q) = 1..Len(Tail(q))
    BY <1>1
  <2> QED BY <2>2, <2>3 DEF ToSet
<1>4. IsInjective(Tail(q))
  BY <1>1 DEF IsInjective
<1>5. ToSet(Tail(q)) = ToSet(q) \ {Head(q)}
  BY <1>2, <1>3
<1>6. Head(q) \in ToSet(q)
  BY <1>1 DEF ToSet
<1> QED BY <1>1, <1>4, <1>5, <1>6

-----------------------------------------------------------------------------
AtProcess == {"gather", "lock", "insert"}

TypeInv ==
  /\ PoolTypeOK
  /\ \A w \in Workers : wPc[w] \in AtProcess => holding[w] \in Pids

Born == {p \in Pids : proc[p] # "unborn"}

\* Only processes that have been started are ever in the job.
BirthInv ==
  /\ todo \subseteq Born
  /\ \A i \in 1..Len(queue) : queue[i] \in Born
  /\ \A w \in Workers : wPc[w] \in AtProcess => holding[w] \in Born
  /\ \A p \in Pids : processed[p] > 0 => p \in Born
  /\ \A p \in Pids : proc[p] = "exited" => modules[p] = {}

\* What a worker has still to insert, and what of a finished process is in.
CollectInv ==
  /\ \A w \in Workers :
       wPc[w] \in {"lock", "insert"} /\ holding[w] \notin Loaders =>
         Readable(holding[w]) \subseteq clean \cup newHashes[w]
  /\ \A p \in Pids \ Loaders : processed[p] > 0 => Readable(p) \subseteq clean

Inv == TypeInv /\ BirthInv /\ CollectInv

-----------------------------------------------------------------------------
LEMMA SystemStep == ASSUME Inv, System PROVE Inv'
<1>1. /\ proc \in [Pids -> {"unborn", "running", "exited"}]
      /\ modules \in [Pids -> SUBSET Hashes]
  BY DEF Inv, TypeInv, PoolTypeOK
<1>2. /\ UNCHANGED <<mainPc, todo, taken, runningCount>>
      /\ UNCHANGED <<queue, wPc, holding, newHashes, processed, clean>>
      /\ proc' \in [Pids -> {"unborn", "running", "exited"}]
      /\ modules' \in [Pids -> SUBSET Hashes]
      /\ \A p \in Pids : proc'[p] = "unborn" => proc[p] = "unborn"
      /\ \A p \in Pids : proc'[p] = "exited" => modules'[p] = {}
      /\ \A p \in Pids \ Loaders : p \in Born => modules'[p] \subseteq modules[p]
  BY <1>1 DEF System, StartProcess, LoadModule, ExitProcess, mainVars, workerVars,
              Inv, BirthInv, Born
<1>3. TypeInv'
  BY <1>2 DEF Inv, TypeInv, PoolTypeOK
<1>4. Born \subseteq Born'
  BY <1>2 DEF Born
<1>5. BirthInv'
  BY <1>2, <1>4 DEF Inv, BirthInv
<1>6. \A p \in Pids \ Loaders : p \in Born => Readable(p)' \subseteq Readable(p)
  BY <1>2 DEF Readable
<1>7. ASSUME NEW w \in Workers, wPc'[w] \in {"lock", "insert"},
             holding'[w] \notin Loaders
      PROVE  Readable(holding[w])' \subseteq clean' \cup newHashes'[w]
  <2>1. holding[w] \in Born /\ holding[w] \in Pids \ Loaders
    BY <1>2, <1>7 DEF Inv, TypeInv, BirthInv, AtProcess
  <2> QED BY <1>2, <1>6, <1>7, <2>1 DEF Inv, CollectInv
<1>8. \A p \in Pids \ Loaders : processed'[p] > 0 => Readable(p)' \subseteq clean'
  BY <1>2, <1>6 DEF Inv, BirthInv, CollectInv
<1> QED BY <1>3, <1>5, <1>7, <1>8 DEF Inv, CollectInv

LEMMA MainStep == ASSUME Inv, Main PROVE Inv'
<1> USE DEF processVars, workerVars
<1>1. UNCHANGED <<proc, modules, holding, newHashes, processed, clean>>
  BY DEF Main, TakeSnapshot, FillQueue, Push, SpawnWorkers, LoopTest, CountRunning,
         JoinWorkers
<1>2. \A w \in Workers : wPc'[w] = wPc[w] \/ wPc'[w] = "test"
  BY DEF Main, TakeSnapshot, FillQueue, Push, SpawnWorkers, LoopTest, CountRunning,
         JoinWorkers
<1>3. /\ queue \in Seq(Pids) /\ todo \subseteq Pids /\ taken \subseteq Pids
      /\ runningCount \in Nat
  BY DEF Inv, TypeInv, PoolTypeOK
<1>4. /\ queue' \in Seq(Pids) /\ todo' \subseteq Born
      /\ \A i \in 1..Len(queue') : queue'[i] \in Born
  <2>1. ASSUME NEW p \in Pids, FillQueue(p)
        PROVE  /\ queue' \in Seq(Pids) /\ todo' \subseteq Born
               /\ \A i \in 1..Len(queue') : queue'[i] \in Born
    <3>1. queue' = Append(queue, p) /\ p \in Born /\ todo' \subseteq Born
      BY <2>1 DEF FillQueue, Push, Inv, BirthInv
    <3> QED BY <1>3, <3>1 DEF Inv, BirthInv
  <2>2. ASSUME UNCHANGED queue, todo' = todo \/ todo' \in Snapshot
        PROVE  /\ queue' \in Seq(Pids) /\ todo' \subseteq Born
               /\ \A i \in 1..Len(queue') : queue'[i] \in Born
    BY <1>3, <2>2 DEF Snapshot, Running, Born, Inv, BirthInv
  <2>3. \/ \E p \in Pids : FillQueue(p)
        \/ UNCHANGED queue /\ (todo' = todo \/ todo' \in Snapshot)
    BY DEF Main, TakeSnapshot, SpawnWorkers, LoopTest, CountRunning, JoinWorkers
  <2> QED BY <2>1, <2>2, <2>3
<1>5. /\ taken' \subseteq Pids /\ runningCount' \in Nat
      /\ mainPc' \in {"snapshot", "fill", "loop", "count", "check", "refill",
                      "respawn", "join", "done"}
  <2>1. Cardinality({w \in Workers : wPc[w] # "ended"}) \in Nat
    BY FS_Subset, FS_CardinalityType, WorkerPoolAssumption
  <2> QED
    BY <1>3, <2>1 DEF Main, TakeSnapshot, FillQueue, Push, SpawnWorkers, LoopTest,
         CountRunning, JoinWorkers
<1>6. wPc' \in [Workers -> {"none", "test", "pop", "dump", "walk", "write",
                            "gather", "lock", "insert", "ended"}]
  BY DEF Main, TakeSnapshot, FillQueue, Push, SpawnWorkers, LoopTest, CountRunning,
         JoinWorkers, Inv, TypeInv, PoolTypeOK
<1>7. TypeInv'
  BY <1>1, <1>2, <1>4, <1>5, <1>6 DEF Inv, TypeInv, PoolTypeOK, AtProcess, Born
<1>8. BirthInv'
  BY <1>1, <1>2, <1>4 DEF Inv, BirthInv, AtProcess, Born
<1>9. CollectInv'
  BY <1>1, <1>2 DEF Inv, CollectInv, Readable
<1> QED BY <1>7, <1>8, <1>9 DEF Inv

LEMMA WorkerStep == ASSUME Inv, NEW w \in Workers, Worker(w) PROVE Inv'
<1> USE DEF processVars, mainVars
<1>1. /\ UNCHANGED <<proc, modules, mainPc, todo, taken, runningCount>>
      /\ clean \subseteq clean'
  BY DEF Worker, WorkerTest, WorkerPop, CollectHashes, GetAllHashes, LockDatabase,
         InsertHash, FinishProcess
<1>2. /\ queue \in Seq(Pids) /\ processed \in [Pids -> Nat]
      /\ wPc \in [Workers -> {"none", "test", "pop", "dump", "walk", "write",
                              "gather", "lock", "insert", "ended"}]
      /\ holding \in [Workers -> Pids \cup {NoPid}]
      /\ newHashes \in [Workers -> SUBSET Hashes] /\ clean \subseteq Hashes
      /\ modules \in [Pids -> SUBSET Hashes]
      /\ \A v \in Workers : wPc[v] \in AtProcess => holding[v] \in Pids
  BY DEF Inv, TypeInv, PoolTypeOK
<1>3. ASSUME NEW pc, wPc' = [wPc EXCEPT ![w] = pc], pc \in {"pop", "ended", "test"},
             UNCHANGED <<queue, holding, newHashes, processed, clean>>
      PROVE  Inv'
  <2>1. TypeInv'
    BY <1>1, <1>2, <1>3 DEF Inv, TypeInv, PoolTypeOK, AtProcess
  <2>2. BirthInv'
    BY <1>1, <1>2, <1>3 DEF Inv, BirthInv, AtProcess, Born
  <2>3. CollectInv'
    BY <1>1, <1>2, <1>3 DEF Inv, CollectInv, Readable
  <2> QED BY <2>1, <2>2, <2>3 DEF Inv
<1>4. CASE WorkerTest(w)
  <2>1. PICK pc \in {"pop", "ended"} : wPc' = [wPc EXCEPT ![w] = pc]
    BY <1>4 DEF WorkerTest, Goto
  <2> QED BY <1>3, <1>4, <2>1 DEF WorkerTest
<1>5. CASE WorkerPop(w, "gather")
  <2>1. CASE queue = <<>>
    BY <1>3, <1>5, <2>1 DEF WorkerPop, Goto
  <2>2. CASE queue # <<>>
    <3>1. /\ holding' = [holding EXCEPT ![w] = Head(queue)]
          /\ queue' = Tail(queue) /\ wPc' = [wPc EXCEPT ![w] = "gather"]
          /\ UNCHANGED <<newHashes, processed, clean>>
      BY <1>5, <2>2 DEF WorkerPop, Goto
    <3>2. /\ Tail(queue) \in Seq(Pids) /\ Head(queue) = queue[1]
          /\ Len(queue) \in Nat /\ Len(queue) >= 1
          /\ Len(Tail(queue)) = Len(queue) - 1
          /\ \A i \in 1..Len(queue) - 1 : Tail(queue)[i] = queue[i + 1]
      BY <1>2, <2>2
    <3>3. /\ Head(queue) \in Born /\ Head(queue) \in Pids
          /\ \A i \in 1..Len(queue') : queue'[i] \in Born
      BY <3>1, <3>2 DEF Inv, BirthInv, Born
    <3>4. TypeInv'
      BY <1>1, <1>2, <3>1, <3>2, <3>3 DEF Inv, TypeInv, PoolTypeOK, AtProcess
    <3>5. Born' = Born
      BY <1>1 DEF Born
    <3>6. BirthInv'
      BY <1>1, <1>2, <3>1, <3>3, <3>5 DEF Inv, BirthInv, AtProcess
    <3>7. CollectInv'
      BY <1>1, <1>2, <3>1 DEF Inv, CollectInv, Readable
    <3> QED BY <3>4, <3>6, <3>7 DEF Inv
  <2> QED BY <2>1, <2>2
<1>6. ASSUME UNCHANGED <<queue, holding, processed>>, wPc[w] \in AtProcess,
             wPc' \in [Workers -> {"none", "test", "pop", "dump", "walk", "write",
                                   "gather", "lock", "insert", "ended"}],
             \A v \in Workers : v # w => wPc'[v] = wPc[v],
             newHashes' \in [Workers -> SUBSET Hashes], clean' \subseteq Hashes
      PROVE  TypeInv' /\ BirthInv'
  <2>1. \A v \in Workers : wPc'[v] \in AtProcess => wPc[v] \in AtProcess
    BY <1>6
  <2>2. TypeInv'
    BY <1>1, <1>6, <2>1 DEF Inv, TypeInv, PoolTypeOK
  <2>3. Born' = Born
    BY <1>1 DEF Born
  <2>4. BirthInv'
    BY <1>1, <1>6, <2>1, <2>3 DEF Inv, BirthInv
  <2> QED BY <2>2, <2>4
<1>7. CASE GetAllHashes(w)
  <2>1. /\ wPc[w] = "gather" /\ wPc' = [wPc EXCEPT ![w] = "lock"]
        /\ newHashes' = [newHashes EXCEPT ![w] = Readable(holding[w]) \ clean]
        /\ UNCHANGED <<queue, holding, processed, clean>>
    BY <1>7 DEF GetAllHashes, Goto
  <2>2. Readable(holding[w]) \subseteq Hashes
    BY <1>2, <2>1 DEF Readable, AtProcess
  <2>3. TypeInv' /\ BirthInv'
    BY <1>2, <1>6, <2>1, <2>2 DEF AtProcess
  <2>4. CollectInv'
    BY <1>1, <1>2, <2>1 DEF Inv, CollectInv, Readable
  <2> QED BY <2>3, <2>4 DEF Inv
<1>8. CASE LockDatabase(w)
  <2>1. /\ wPc[w] = "lock" /\ wPc' = [wPc EXCEPT ![w] = "insert"]
        /\ UNCHANGED <<queue, holding, newHashes, processed, clean>>
    BY <1>8 DEF LockDatabase, Goto
  <2>2. TypeInv' /\ BirthInv'
    BY <1>2, <1>6, <2>1 DEF AtProcess
  <2>3. CollectInv'
    BY <1>1, <1>2, <2>1 DEF Inv, CollectInv, Readable
  <2> QED BY <2>2, <2>3 DEF Inv
<1>9. ASSUME NEW h \in Hashes, InsertHash(w, h) PROVE Inv'
  <2>1. /\ wPc[w] = "insert" /\ clean' = clean \cup {h}
        /\ newHashes' = [newHashes EXCEPT ![w] = newHashes[w] \ {h}]
        /\ UNCHANGED <<queue, wPc, holding, processed>>
    BY <1>9 DEF InsertHash
  <2>2. TypeInv' /\ BirthInv'
    BY <1>2, <1>6, <2>1 DEF AtProcess
  <2>3. CollectInv'
    BY <1>1, <1>2, <2>1 DEF Inv, CollectInv, Readable
  <2> QED BY <2>2, <2>3 DEF Inv
<1>10. CASE FinishProcess(w)
  <2> DEFINE p == holding[w]
  <2>1. /\ wPc[w] = "insert" /\ newHashes[w] = {}
        /\ processed' = [processed EXCEPT ![p] = processed[p] + 1]
        /\ holding' = [holding EXCEPT ![w] = NoPid]
        /\ wPc' = [wPc EXCEPT ![w] = "test"]
        /\ UNCHANGED <<queue, newHashes, clean>>
    BY <1>10 DEF FinishProcess, Goto
  <2>2. p \in Pids /\ p \in Born
    BY <1>2, <2>1 DEF AtProcess, Inv, BirthInv
  <2>3. p \notin Loaders => Readable(p) \subseteq clean
    BY <2>1 DEF Inv, CollectInv
  <2> HIDE DEF p
  <2>4. TypeInv'
    BY <1>1, <1>2, <2>1, <2>2 DEF Inv, TypeInv, PoolTypeOK, AtProcess
  <2>5. BirthInv'
    BY <1>1, <1>2, <2>1, <2>2 DEF Inv, BirthInv, AtProcess, Born
  <2>6. CollectInv'
    BY <1>1, <1>2, <2>1, <2>2, <2>3 DEF Inv, CollectInv, Readable
  <2> QED BY <2>4, <2>5, <2>6 DEF Inv
<1> QED
  BY <1>4, <1>5, <1>7, <1>8, <1>9, <1>10 DEF Worker, CollectHashes

THEOREM Invariance == Spec => []Inv
<1>1. Init => Inv
  <2> SUFFICES ASSUME Init PROVE Inv
    OBVIOUS
  <2>1. PoolTypeOK
    <3>1. proc \in [Pids -> {"unborn", "running", "exited"}]
      BY DEF Init, PoolInit
    <3>2. clean \subseteq Hashes
      BY WorkerPoolAssumption DEF Init, PoolInit
    <3>3. queue \in Seq(Pids)
      BY DEF Init, PoolInit
    <3> QED BY <3>1, <3>2, <3>3 DEF Init, PoolInit, PoolTypeOK
  <2>2. /\ proc \in [Pids -> {"unborn", "running"}]
        /\ todo = {} /\ queue = <<>>
        /\ wPc = [w \in Workers |-> "none"] /\ processed = [p \in Pids |-> 0]
    BY DEF Init, PoolInit
  <2> QED
    BY <2>1, <2>2 DEF Inv, TypeInv, BirthInv, CollectInv, AtProcess
<1>2. Inv /\ [Next]_vars => Inv'
  <2> SUFFICES ASSUME Inv, [Next]_vars PROVE Inv'
    OBVIOUS
  <2>1. CASE UNCHANGED vars
    BY <2>1 DEF vars, poolVars, processVars, mainVars, workerVars, Inv, TypeInv,
       PoolTypeOK, BirthInv, CollectInv, Born, Readable
  <2> QED BY <2>1, SystemStep, MainStep, WorkerStep DEF Next
<1> QED BY <1>1, <1>2, PTL DEF Spec

\* Type correctness, for every set of processes, workers and hashes.
THEOREM TypeCorrect == Spec => []TypeOK
<1>1. Inv => TypeOK
  BY DEF Inv, TypeInv, TypeOK
<1> QED BY <1>1, Invariance, PTL

\* When the job is done, every module of the processes it has been through,
\* unless loaded meanwhile, is in the database.
THEOREM Collected == Spec => []AllCollected
<1>1. Inv => AllCollected
  BY DEF Inv, CollectInv, AllCollected
<1> QED BY <1>1, Invariance, PTL
-----------------------------------------------------------------------------
(* The job: every process taken is in one place, and is processed once.    *)

\* p waits in the queue or is in the hands of a worker.
AtWork(p) == p \in Queued \/ \E w \in Workers : holding[w] = p

PlaceInv ==
  /\ IsInjective(queue)
  /\ Queued \subseteq taken /\ todo \cap taken = {}
  /\ \A w \in Workers : /\ holding[w] # NoPid <=> wPc[w] \in AtProcess
                        /\ holding[w] # NoPid => holding[w] \in taken \ Queued
  /\ \A v, w \in Workers : v # w /\ holding[v] = holding[w] => holding[w] = NoPid
  /\ \A p \in Pids : processed[p] = IF p \in taken /\ ~AtWork(p) THEN 1 ELSE 0

\* What main has done and what is left when it is over.  A worker ends only
\* when it finds the queue empty, and nothing is pushed after the start.
PhaseInv ==
  /\ mainPc = "snapshot" => taken = {}
  /\ mainPc \in {"snapshot", "fill"} => \A w \in Workers : wPc[w] = "none"
  /\ mainPc \notin {"snapshot", "fill"} =>
       \A w \in Workers : wPc[w] = "ended" => queue = <<>>
  /\ mainPc = "done" => \A w \in Workers : wPc[w] = "ended"

JobInv == PlaceInv /\ PhaseInv

\* A step that moves no process between the queue and the workers.
LEMMA NothingMoved ==
  ASSUME PlaceInv, UNCHANGED <<queue, taken, holding, processed>>,
         todo' \cap taken = {},
         \A w \in Workers : wPc'[w] \in AtProcess <=> wPc[w] \in AtProcess
  PROVE  PlaceInv'
BY DEF PlaceInv, AtWork, Queued

LEMMA PushKeeps ==
  ASSUME TypeInv, PlaceInv, NEW p \in Pids, NEW l, Push(p, l),
         UNCHANGED <<wPc, holding, processed>>
  PROVE  PlaceInv' /\ (mainPc # "done" /\ l # "done" => Job!Take(p))
<1>1. p \notin taken /\ p \in todo /\ p \notin Queued
  BY DEF Push, PlaceInv
<1>2. /\ queue' = Append(queue, p) /\ queue \in Seq(Pids)
      /\ taken' = taken \cup {p} /\ todo' = todo \ {p} /\ mainPc' = l
  BY DEF Push, TypeInv, PoolTypeOK
<1>3. IsInjective(queue') /\ Queued' = Queued \cup {p}
  BY <1>1, <1>2, AppendElements DEF PlaceInv, Queued
<1>4. \A w \in Workers : holding[w] # p
  BY <1>1, WorkerPoolAssumption DEF PlaceInv
<1>5. \A q \in Pids : AtWork(q)' <=> AtWork(q) \/ q = p
  BY <1>3 DEF AtWork
<1>6. \A q \in Pids : processed'[q] =
         IF q \in taken' /\ ~AtWork(q)' THEN 1 ELSE 0
  BY <1>1, <1>2, <1>5 DEF PlaceInv
<1>7. PlaceInv'
  BY <1>1, <1>2, <1>3, <1>4, <1>6 DEF PlaceInv
<1>8. ASSUME mainPc # "done", l # "done" PROVE Job!Take(p)
  BY <1>1, <1>2, <1>8 DEF Job!Take
<1> QED BY <1>7, <1>8

LEMMA PopKeeps ==
  ASSUME TypeInv, PlaceInv, NEW w \in Workers, WorkerPop(w, "gather")
  PROVE  PlaceInv'
<1>0. /\ wPc[w] = "pop" /\ "pop" \notin AtProcess /\ "gather" \in AtProcess /\ "test" \notin AtProcess
      /\ UNCHANGED <<taken, todo, processed>>
  BY DEF WorkerPop, AtProcess, mainVars
<1>1. /\ queue \in Seq(Pids) /\ DOMAIN wPc = Workers
      /\ holding \in [Workers -> Pids \cup {NoPid}]
      /\ taken \subseteq Pids
  BY DEF WorkerPop, Goto, TypeInv, PoolTypeOK
<1>2. CASE queue = <<>>
  <2>1. UNCHANGED <<queue, holding>> /\ wPc' = [wPc EXCEPT ![w] = "test"]
    BY <1>2 DEF WorkerPop, Goto
  <2>2. \A v \in Workers : wPc'[v] \in AtProcess <=> wPc[v] \in AtProcess
    BY <1>0, <1>1, <2>1
  <2> QED BY <1>0, <2>1, <2>2, NothingMoved DEF PlaceInv
<1>3. CASE queue # <<>>
  <2> DEFINE p == Head(queue)
  <2>1. /\ holding' = [holding EXCEPT ![w] = p] /\ queue' = Tail(queue)
        /\ wPc' = [wPc EXCEPT ![w] = "gather"]
    BY <1>3 DEF WorkerPop, Goto
  <2>2. /\ p \in Pids /\ p \in Queued /\ Queued' = Queued \ {p}
        /\ IsInjective(queue')
    BY <1>1, <1>3, <2>1, TailElements DEF PlaceInv, Queued
  <2>3. holding[w] = NoPid /\ p # NoPid /\ \A v \in Workers : holding[v] # p
    BY <1>0, <2>2, WorkerPoolAssumption DEF PlaceInv
  <2> HIDE DEF p
  <2>4. \A q \in Pids : AtWork(q)' <=> AtWork(q)
    BY <1>1, <2>1, <2>2, <2>3, WorkerPoolAssumption DEF AtWork
  <2>5. \A q \in Pids : processed'[q] =
         IF q \in taken' /\ ~AtWork(q)' THEN 1 ELSE 0
    BY <1>0, <2>4 DEF PlaceInv
  <2>6. Queued' \subseteq taken' /\ todo' \cap taken' = {}
    BY <1>0, <2>2 DEF PlaceInv
  <2>7. \A v \in Workers :
          /\ holding'[v] # NoPid <=> wPc'[v] \in AtProcess
          /\ holding'[v] # NoPid => holding'[v] \in taken' \ Queued'
    BY <1>0, <1>1, <2>1, <2>2, <2>3 DEF PlaceInv
  <2>8. \A u, v \in Workers :
          u # v /\ holding'[u] = holding'[v] => holding'[v] = NoPid
    BY <1>1, <2>1, <2>3 DEF PlaceInv
  <2> QED BY <2>2, <2>5, <2>6, <2>7, <2>8 DEF PlaceInv
<1> QED BY <1>2, <1>3

LEMMA FinishKeeps ==
  ASSUME TypeInv, PlaceInv, NEW w \in Workers, FinishProcess(w),
         UNCHANGED taken
  PROVE  PlaceInv' /\ Job!Finish(holding[w])
<1> DEFINE p == holding[w]
<1>1. /\ wPc[w] = "insert" /\ "insert" \in AtProcess /\ "test" \notin AtProcess
      /\ UNCHANGED <<taken, todo, queue, mainPc>>
      /\ processed' = [processed EXCEPT ![p] = processed[p] + 1]
      /\ holding' = [holding EXCEPT ![w] = NoPid]
      /\ wPc' = [wPc EXCEPT ![w] = "test"]
  BY DEF FinishProcess, Goto, AtProcess, mainVars
<1>2. /\ DOMAIN wPc = Workers /\ DOMAIN processed = Pids
      /\ holding \in [Workers -> Pids \cup {NoPid}]
      /\ taken \subseteq Pids
  BY DEF TypeInv, PoolTypeOK
<1>3. p \in Pids /\ p # NoPid
  BY <1>1, WorkerPoolAssumption DEF TypeInv
<1>4. p \in taken /\ p \notin Queued
  BY <1>1, <1>3 DEF PlaceInv
<1>5. \A v \in Workers : v # w => holding[v] # p
  BY <1>3 DEF PlaceInv
<1> HIDE DEF p
<1>6. \A q \in Pids : AtWork(q)' <=> AtWork(q) /\ q # p
  <2>1. w \in Workers /\ holding[w] = p
    BY DEF p
  <2> QED BY <1>1, <1>2, <1>3, <1>4, <1>5, <2>1, WorkerPoolAssumption DEF AtWork, Queued
<1>7. processed[p] = 0 /\ processed' = [processed EXCEPT ![p] = 1]
  <2>1. AtWork(p)
    BY DEF AtWork, p
  <2>2. processed[p] = 0
    BY <1>3, <2>1 DEF PlaceInv
  <2> QED BY <1>1, <2>2
<1>8. \A q \in Pids : processed'[q] =
         IF q \in taken' /\ ~AtWork(q)' THEN 1 ELSE 0
  BY <1>1, <1>2, <1>3, <1>4, <1>6, <1>7 DEF PlaceInv
<1>9. IsInjective(queue)' /\ Queued' \subseteq taken' /\ todo' \cap taken' = {}
  BY <1>1 DEF PlaceInv, Queued
<1>10. \A v \in Workers :
         /\ holding'[v] # NoPid <=> wPc'[v] \in AtProcess
         /\ holding'[v] # NoPid => holding'[v] \in taken' \ Queued'
  BY <1>1, <1>2 DEF PlaceInv, Queued
<1>11. \A u, v \in Workers :
         u # v /\ holding'[u] = holding'[v] => holding'[v] = NoPid
  BY <1>1, <1>2 DEF PlaceInv
<1>12. Job!Finish(p)
  BY <1>1, <1>4, <1>7 DEF Job!Finish
<1> QED BY <1>8, <1>9, <1>10, <1>11, <1>12 DEF PlaceInv, p


LEMMA MainJob ==
  ASSUME TypeInv, JobInv, Main
  PROVE  JobInv' /\ (Job!Next \/ UNCHANGED Job!vars)
<1> USE DEF JobInv, Job!vars, processVars, workerVars
<1>1. ASSUME TakeSnapshot PROVE JobInv' /\ UNCHANGED Job!vars
  <2>1. taken = {} /\ UNCHANGED <<queue, wPc, taken, holding, processed>>
        /\ mainPc' = "fill" /\ mainPc = "snapshot"
    BY <1>1 DEF TakeSnapshot, PhaseInv
  <2> QED BY <2>1, NothingMoved DEF PhaseInv
<1>2. ASSUME NEW p \in Pids, FillQueue(p) PROVE JobInv' /\ Job!Next
  <2>1. /\ mainPc = "fill" /\ mainPc' = "fill" /\ Push(p, "fill")
        /\ UNCHANGED <<wPc, holding, processed>>
    BY <1>2 DEF FillQueue, Push
  <2>2. PlaceInv' /\ Job!Take(p)
    BY <2>1, PushKeeps
  <2>3. PhaseInv'
    BY <2>1 DEF PhaseInv
  <2> QED BY <2>2, <2>3 DEF Job!Next
<1>3. ASSUME SpawnWorkers PROVE JobInv' /\ UNCHANGED Job!vars
  <2>1. /\ mainPc = "fill" /\ mainPc' = "loop"
        /\ wPc' = [v \in Workers |-> "test"]
        /\ UNCHANGED <<todo, queue, taken, holding, processed>>
    BY <1>3 DEF SpawnWorkers
  <2>2. \A v \in Workers : wPc'[v] \in AtProcess <=> wPc[v] \in AtProcess
    BY <2>1 DEF PhaseInv, AtProcess
  <2>3. todo' \cap taken = {}
    BY <2>1 DEF PlaceInv
  <2> QED BY <2>1, <2>2, <2>3, NothingMoved DEF PhaseInv
<1>4. ASSUME LoopTest \/ CountRunning("loop") PROVE JobInv' /\ UNCHANGED Job!vars
  <2>1. /\ mainPc \in {"loop", "count"}
        /\ mainPc' \in {"loop", "count", "join"}
        /\ UNCHANGED <<todo, queue, wPc, taken, holding, processed>>
    BY <1>4 DEF CountRunning, LoopTest
  <2>2. todo' \cap taken = {}
    BY <2>1 DEF PlaceInv
  <2> QED BY <2>1, <2>2, NothingMoved DEF PhaseInv
<1>5. ASSUME JoinWorkers PROVE JobInv' /\ Job!Next
  <2>1. /\ mainPc = "join" /\ mainPc' = "done"
        /\ \A v \in Workers : wPc[v] = "ended"
        /\ UNCHANGED <<todo, queue, wPc, taken, holding, processed>>
    BY <1>5 DEF JoinWorkers
  <2>2. queue = <<>>
    BY <2>1, WorkerPoolAssumption DEF PhaseInv
  <2>3. todo' \cap taken = {}
    BY <2>1 DEF PlaceInv
  <2>4. JobInv'
    BY <2>1, <2>2, <2>3, NothingMoved DEF PhaseInv
  <2>5. \A p \in taken : processed[p] = 1
    <3>1. Queued = {} /\ \A v \in Workers : holding[v] = NoPid
      BY <2>1, <2>2 DEF PlaceInv, AtProcess, Queued, ToSet
    <3>2. taken \subseteq Pids
      BY DEF TypeInv, PoolTypeOK
    <3> QED BY <3>1, <3>2, WorkerPoolAssumption DEF PlaceInv, AtWork
  <2>6. Job!End
    BY <2>1, <2>5 DEF Job!End
  <2> QED BY <2>4, <2>6 DEF Job!Next
<1> QED BY <1>1, <1>2, <1>3, <1>4, <1>5 DEF Main

LEMMA WorkerJob ==
  ASSUME TypeInv, JobInv, NEW w \in Workers, Worker(w)
  PROVE  JobInv' /\ (Job!Next \/ UNCHANGED Job!vars)
<1> USE DEF JobInv, Job!vars, processVars, mainVars
<1>1. /\ wPc[w] \notin {"none", "ended"} /\ DOMAIN wPc = Workers
      /\ mainPc \notin {"snapshot", "fill", "done"}
  BY DEF Worker, WorkerTest, WorkerPop, CollectHashes, GetAllHashes,
         LockDatabase, InsertHash, FinishProcess, PhaseInv, TypeInv, PoolTypeOK
<1>2. ASSUME UNCHANGED mainVars, queue = <<>> => queue' = <<>>,
             wPc' = wPc \/ \E l : /\ wPc' = [wPc EXCEPT ![w] = l]
                                  /\ l = "ended" => queue = <<>>
      PROVE  PhaseInv'
  <2>1. \A v \in Workers : wPc'[v] = "ended" => wPc[v] = "ended" \/ queue = <<>>
    BY <1>1, <1>2
  <2> QED BY <1>1, <1>2, <2>1 DEF PhaseInv
<1>3. ASSUME UNCHANGED <<mainVars, queue, holding, processed>>,
             wPc' = wPc \/ \E l : /\ wPc' = [wPc EXCEPT ![w] = l]
                                  /\ l = "ended" => queue = <<>>
                                  /\ l \in AtProcess <=> wPc[w] \in AtProcess
      PROVE  JobInv' /\ UNCHANGED Job!vars
  <2>1. \A v \in Workers : wPc'[v] \in AtProcess <=> wPc[v] \in AtProcess
    BY <1>1, <1>3
  <2>2. todo' \cap taken = {}
    BY <1>3 DEF PlaceInv
  <2> QED BY <1>2, <1>3, <2>1, <2>2, NothingMoved
<1>4. CASE WorkerTest(w)
  <2>1. PICK l \in {"pop", "ended"} : /\ wPc' = [wPc EXCEPT ![w] = l]
                                      /\ l = "ended" => queue = <<>>
    BY <1>4 DEF WorkerTest, Goto
  <2>2. /\ UNCHANGED <<mainVars, queue, holding, processed>>
        /\ l \in AtProcess <=> wPc[w] \in AtProcess
    BY <1>4 DEF WorkerTest, AtProcess
  <2> QED BY <1>3, <2>1, <2>2
<1>5. CASE WorkerPop(w, "gather")
  <2>1. /\ UNCHANGED <<mainVars, processed>> /\ (queue = <<>> => queue' = <<>>)
        /\ \E l \in {"gather", "test"} : wPc' = [wPc EXCEPT ![w] = l]
    BY <1>5 DEF WorkerPop, Goto
  <2> QED BY <1>2, <1>5, <2>1, PopKeeps
<1>6. CASE FinishProcess(w)
  <2>1. /\ UNCHANGED <<mainVars, queue>> /\ wPc[w] = "insert"
        /\ \E l \in {"test"} : wPc' = [wPc EXCEPT ![w] = l]
    BY <1>6 DEF FinishProcess, Goto
  <2>2. PlaceInv' /\ Job!Finish(holding[w])
    BY <1>6, <2>1, FinishKeeps
  <2>3. holding[w] \in Pids
    BY <2>1 DEF TypeInv, AtProcess
  <2>4. PhaseInv'
    BY <1>2, <2>1
  <2> QED BY <2>2, <2>3, <2>4 DEF Job!Next
<1>7. CASE GetAllHashes(w) \/ LockDatabase(w) \/ \E h \in Hashes : InsertHash(w, h)
  <2>1. /\ UNCHANGED <<mainVars, queue, holding, processed>>
        /\ wPc' = wPc \/ \E l : /\ wPc' = [wPc EXCEPT ![w] = l]
                                /\ l = "ended" => queue = <<>>
                                /\ l \in AtProcess <=> wPc[w] \in AtProcess
    BY <1>7 DEF GetAllHashes, LockDatabase, InsertHash, Goto, AtProcess
  <2> QED BY <1>3, <2>1
<1> QED BY <1>4, <1>5, <1>6, <1>7 DEF Worker, CollectHashes

\* add_system_hashes implements ProcessJob: every process pushed is
\* processed by one worker, once, and the job is over only when none is left.
THEOREM Refinement == Spec => KeepsJob
<1>1. Init => JobInv /\ Job!Init
  <2> SUFFICES ASSUME Init PROVE JobInv /\ Job!Init
    OBVIOUS
  <2>1. /\ queue = <<>> /\ todo = {} /\ taken = {} /\ mainPc = "snapshot"
        /\ wPc = [w \in Workers |-> "none"]
        /\ holding = [w \in Workers |-> NoPid]
        /\ processed = [p \in Pids |-> 0]
    BY DEF Init, PoolInit
  <2>2. IsInjective(queue) /\ Queued = {}
    BY <2>1 DEF IsInjective, Queued, ToSet
  <2>3. PlaceInv
    BY <2>1, <2>2 DEF PlaceInv, AtProcess
  <2>4. PhaseInv
    BY <2>1 DEF PhaseInv
  <2> QED BY <2>1, <2>3, <2>4 DEF JobInv, Job!Init
<1>2. Inv /\ JobInv /\ [Next]_vars => JobInv' /\ [Job!Next]_(Job!vars)
  <2> SUFFICES ASSUME Inv, JobInv, [Next]_vars
               PROVE  JobInv' /\ (Job!Next \/ UNCHANGED Job!vars)
    OBVIOUS
  <2>1. TypeInv
    BY DEF Inv
  <2>2. CASE System \/ UNCHANGED vars
    <3>1. UNCHANGED <<mainVars, workerVars>>
      BY <2>2 DEF System, StartProcess, LoadModule, ExitProcess, vars, poolVars
    <3> QED
      BY <3>1 DEF mainVars, workerVars, JobInv, PlaceInv, PhaseInv, AtWork, Queued,
                  Job!vars
  <2>3. CASE Main
    BY <2>1, <2>3, MainJob
  <2>4. ASSUME NEW w \in Workers, Worker(w)
        PROVE  JobInv' /\ (Job!Next \/ UNCHANGED Job!vars)
    BY <2>1, <2>4, WorkerJob
  <2> QED BY <2>2, <2>3, <2>4 DEF Next
<1> QED BY <1>1, <1>2, Invariance, PTL DEF Spec, KeepsJob, Job!Spec
=============================================================================
