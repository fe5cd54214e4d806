-------------------------- MODULE CloseWatcherProofs ------------------------
(***************************************************************************)
(* Proofs about CloseWatcher, for every set of pids and of workers.        *)
(*                                                                         *)
(* The argument: a dumper moves from hooked_processes to the queue to a    *)
(* worker and is in one of the three at a time (Ownership); it enters the  *)
(* queue only while its process is paused, and stays paused until resumed  *)
(* or killed (HandedOver, WorkerSteps); the phases of the monitor bound    *)
(* what is left when it ends (Phases).                                     *)
(***************************************************************************)
EXTENDS CloseWatcher, TLAPS

(* The work queue: what push and pop do to the set of its entries.         *)

\* What Queue::push does to the set of entries.
LEMMA AppendElements ==
  ASSUME NEW S, NEW q \in Seq(S), NEW e \in S
  PROVE  /\ Append(q, e) \in Seq(S)
         /\ ToSet(Append(q, e)) = ToSet(q) \cup {e}
         /\ IsInjective(q) /\ e \notin ToSet(q) => IsInjective(Append(q, e))
<1>1. /\ Append(q, e) \in Seq(S)
      /\ Len(Append(q, e)) = Len(q) + 1
      /\ \A i \in 1..Len(q) : Append(q, e)[i] = q[i]
      /\ Append(q, e)[Len(q) + 1] = e
  OBVIOUS
<1>2. Len(q) \in Nat
  OBVIOUS
<1>3. ToSet(Append(q, e)) = ToSet(q) \cup {e}
  BY <1>1, <1>2 DEF ToSet
<1>4. ASSUME IsInjective(q), e \notin ToSet(q)
      PROVE  IsInjective(Append(q, e))
  BY <1>1, <1>2, <1>4 DEF ToSet, IsInjective
<1> QED BY <1>1, <1>3, <1>4

\* What Queue::pop does: the head is in no other place of the queue.
LEMMA TailElements ==
  ASSUME NEW S, NEW q \in Seq(S), q # <<>>, IsInjective(q)
  PROVE  /\ Tail(q) \in Seq(S) /\ Head(q) \in S
         /\ Head(q) \in ToSet(q)
         /\ ToSet(Tail(q)) = ToSet(q) \ {Head(q)}
         /\ IsInjective(Tail(q))
<1>1. /\ Tail(q) \in Seq(S) /\ Head(q) \in S
      /\ Head(q) = q[1]
      /\ Len(q) \in Nat /\ Len(q) >= 1
      /\ Len(Tail(q)) = Len(q) - 1
      /\ \A i \in 1..Len(q) - 1 : Tail(q)[i] = q[i + 1]
  OBVIOUS
<1>2. ToSet(Tail(q)) \subseteq ToSet(q) \ {Head(q)}
  BY <1>1 DEF ToSet, IsInjective
<1>3. ASSUME NEW x \in ToSet(q) \ {Head(q)} PROVE x \in ToSet(Tail(q))
  <2>1. PICK i \in 1..Len(q) : x = q[i]
    BY DEF ToSet
  <2>2. i - 1 \in 1..Len(Tail(q)) /\ Tail(q)[i - 1] = x
    BY <1>1, <1>3, <2>1
  <2>3. DOMAIN Tail(q) = 1..Len(Tail(q))
    BY <1>1
  <2> QED BY <2>2, <2>3 DEF ToSet
<1>4. IsInjective(Tail(q))
  BY <1>1 DEF IsInjective
<1>5. ToSet(Tail(q)) = ToSet(q) \ {Head(q)}
  BY <1>2, <1>3
<1>6. Head(q) \in ToSet(q)
  BY <1>1 DEF ToSet
<1> QED BY <1>1, <1>4, <1>5, <1>6

-----------------------------------------------------------------------------
\* Hooks and dumpers: a hook in place has a dumper, a paused process a hook.
HooksOwned ==
  \A p \in Pids : /\ hook[p] => p \in Owned
                  /\ proc[p] = "paused" => hook[p]
                  /\ hook[p] => Present(p)

\* The monitor never hooks a pid twice, and polls only what it still owns.
SweepAndPoll ==
  /\ Owned \subseteq hookedPids
  /\ monPc = "sweep" => todo \cap hookedPids = {}
  /\ monPc = "poll" => todo \subseteq hooked

\* Past the monitor, a process that is still hooked is paused in the hook.
HandedOver == \A p \in Queued \cup Held : hook[p] => proc[p] = "paused"

WorkerSteps ==
  \A w \in Workers :
    /\ holding[w] = NoPid <=> wPc[w] \notin {"entry", "dump", "resume", "delete"}
    /\ wPc[w] = "resume" => (hook[holding[w]] => holding[w] \in dumped)
    /\ wPc[w] = "delete" => ~hook[holding[w]]

\* A process is dumped in its pause, and its pid is never hooked again.
DumpedOnce == \A p \in dumped : p \in hookedPids /\ (hook[p] => proc[p] = "paused")

Phases ==
  /\ monPc \in {"none", "spawn"} => /\ queue = <<>> /\ hooked = {}
                                    /\ \A w \in Workers : wPc[w] = "none"
  /\ monPc \in {"join", "cleanup", "ended"} => queue = <<>>
  /\ monPc \in {"cleanup", "ended"} => \A w \in Workers : wPc[w] = "ended"
  /\ monPc = "ended" => hooked = {}
  /\ monPc \in {"drain", "join", "cleanup", "ended"} => stop
  /\ mainPc = "start" => monPc = "none" /\ ~stop
  /\ mainPc = "done" => monPc = "ended"

IInv == /\ TypeOK /\ OneOwner /\ HooksOwned /\ SweepAndPoll
        /\ HandedOver /\ WorkerSteps /\ DumpedOnce /\ Phases

-----------------------------------------------------------------------------
\* What is left of a call to NtTerminateProcess keeps the types of the process.
LEMMA FinishTypes ==
  ASSUME TypeOK, NEW p \in Pids, FinishTerminate(p)
  PROVE  proc' \in [Pids -> ProcStates] /\ hook' \in [Pids -> BOOLEAN]
<1>1. proc \in [Pids -> ProcStates] /\ hook \in [Pids -> BOOLEAN]
  BY DEF TypeOK
<1>2. \/ proc' = [proc EXCEPT ![p] = "none"] /\ hook' = [hook EXCEPT ![p] = FALSE]
      \/ proc' = [proc EXCEPT ![p] = "running"] /\ hook' = hook
  BY DEF FinishTerminate
<1>3. "none" \in ProcStates /\ "running" \in ProcStates
  BY DEF ProcStates
<1>4. proc' \in [Pids -> ProcStates]
  BY <1>1, <1>2, <1>3
<1>5. hook' \in [Pids -> BOOLEAN]
  BY <1>1, <1>2
<1> QED BY <1>4, <1>5

LEMMA TargetStep ==
  ASSUME IInv, NEW p \in Pids, Target(p)
  PROVE  IInv'
<1> USE CloseWatcherAssumption DEF IInv, TypeOK, OneOwner, HooksOwned, SweepAndPoll, HandedOver, WorkerSteps,
  DumpedOnce, Phases, Owned, Queued, Held, Present, Alive, ProcStates, MainStates, MonStates, WorkerStates,
  targetVars, mainVars, monitorVars, workerVars, IsTerminateWaiting
<1>1. CASE StartProcess(p)
  BY <1>1 DEF StartProcess
<1>2. ASSUME NEW a \in Aims, CallTerminate(p, a) PROVE IInv'
  BY <1>2 DEF CallTerminate
<1>3. CASE FinishTerminate(p)
  <2>1. /\ UNCHANGED <<aim, dumped, starts, mainVars, monitorVars, workerVars>>
        /\ proc[p] = "leaving"
        /\ \/ /\ proc' = [proc EXCEPT ![p] = "none"]
              /\ hook' = [hook EXCEPT ![p] = FALSE]
           \/ /\ proc' = [proc EXCEPT ![p] = "running"]
              /\ hook' = hook
    BY <1>3 DEF FinishTerminate
  <2>2. TypeOK'
    <3>1. proc' \in [Pids -> ProcStates] /\ hook' \in [Pids -> BOOLEAN]
      BY <1>3, FinishTypes
    <3> QED BY <2>1, <3>1
  <2>3. OneOwner' /\ SweepAndPoll' /\ Phases'
    BY <2>1
  <2>4. HooksOwned'
    BY <2>1
  <2>5. \A q \in Pids : hook'[q] => hook[q] /\ (proc[q] = "paused" => proc'[q] = "paused")
    BY <2>1
  <2>6. /\ UNCHANGED <<queue, holding, wPc, dumped, hookedPids>>
        /\ queue \in Seq(Pids) /\ holding \in [Workers -> Pids \cup {NoPid}]
        /\ dumped \subseteq Pids
    BY <2>1
  <2>7. Queued' = Queued /\ Held' = Held /\ Queued \cup Held \subseteq Pids
    BY <2>6 DEF ToSet
  <2> HIDE DEF Queued, Held
  <2>8. HandedOver'
    BY <2>5, <2>7 DEF HandedOver
  <2>9. WorkerSteps'
    <3> SUFFICES ASSUME NEW v \in Workers
                 PROVE  /\ holding[v] = NoPid <=> wPc[v] \notin {"entry", "dump", "resume", "delete"}
                        /\ wPc[v] = "resume" => (hook'[holding[v]] => holding[v] \in dumped)
                        /\ wPc[v] = "delete" => ~hook'[holding[v]]
      BY <2>6 DEF WorkerSteps
    <3>1. wPc[v] \in {"resume", "delete"} => holding[v] \in Pids
      BY <2>6
    <3> QED BY <2>5, <3>1
  <2>10. DumpedOnce'
    BY <2>5, <2>6 DEF DumpedOnce
  <2> QED BY <2>2, <2>3, <2>4, <2>8, <2>9, <2>10 DEF IInv
<1>4. CASE KillProcess(p)
  BY <1>4 DEF KillProcess
<1> QED BY <1>1, <1>2, <1>3, <1>4 DEF Target

LEMMA ConsoleStep ==
  ASSUME IInv, Console
  PROVE  IInv'
<1> USE CloseWatcherAssumption DEF IInv, TypeOK, OneOwner, HooksOwned, SweepAndPoll, HandedOver, WorkerSteps,
  DumpedOnce, Phases, Owned, Queued, Held, Present, Alive, ProcStates, MainStates, MonStates, WorkerStates,
  targetVars, mainVars, monitorVars, workerVars, IsTerminateWaiting
<1>1. CASE CtrlC
  BY <1>1 DEF CtrlC
<1>2. CASE CtrlClose
  BY <1>2 DEF CtrlClose
<1>3. CASE HandlerReturns
  BY <1>3 DEF HandlerReturns
<1> QED BY <1>1, <1>2, <1>3 DEF Console

LEMMA MainStep ==
  ASSUME IInv, Main
  PROVE  IInv'
<1> USE CloseWatcherAssumption DEF IInv, TypeOK, OneOwner, HooksOwned, SweepAndPoll, HandedOver, WorkerSteps,
  DumpedOnce, Phases, Owned, Queued, Held, Present, Alive, ProcStates, MainStates, MonStates, WorkerStates,
  targetVars, mainVars, monitorVars, workerVars, IsTerminateWaiting
<1>1. CASE StartMonitor
  <2> USE <1>1 DEF StartMonitor
  <2>1. TypeOK' /\ DumpedOnce' /\ Phases'
    OBVIOUS
  <2>2. OneOwner' /\ HooksOwned' /\ HandedOver' /\ WorkerSteps'
    OBVIOUS
  <2>3. SweepAndPoll'
    OBVIOUS
  <2> QED BY <2>1, <2>2, <2>3
<1>2. CASE StopMonitor
  BY <1>2 DEF StopMonitor
<1>3. CASE JoinMonitor
  BY <1>3 DEF JoinMonitor
<1> QED BY <1>1, <1>2, <1>3 DEF Main

LEMMA MonitorStep ==
  ASSUME IInv, Monitor
  PROVE  IInv'
<1> USE CloseWatcherAssumption DEF IInv, TypeOK, OneOwner, HooksOwned, SweepAndPoll, HandedOver, WorkerSteps,
  DumpedOnce, Phases, Owned, Queued, Held, Present, Alive, ProcStates, MainStates, MonStates, WorkerStates,
  targetVars, mainVars, monitorVars, workerVars, IsTerminateWaiting
<1>1. CASE SpawnWorkers
  <2> USE <1>1 DEF SpawnWorkers
  <2>1. TypeOK' /\ DumpedOnce' /\ Phases'
    OBVIOUS
  <2>2. OneOwner' /\ HooksOwned' /\ SweepAndPoll'
    OBVIOUS
  <2>3. HandedOver' /\ WorkerSteps'
    OBVIOUS
  <2> QED BY <2>1, <2>2, <2>3
<1>2. CASE TakeSnapshot
  BY <1>2 DEF TakeSnapshot
<1>3. ASSUME NEW p \in Pids, HookProcess(p) PROVE IInv'
  BY <1>3 DEF HookProcess
<1>4. ASSUME NEW p \in Pids, HookFails(p) PROVE IInv'
  BY <1>4 DEF HookFails
<1>5. CASE EndSweep
  BY <1>5 DEF EndSweep
<1>6. ASSUME NEW p \in Pids, PollProcess(p) PROVE IInv'
  <2>1. CASE IsTerminateWaiting(p)
    <3>1. /\ p \in hooked /\ p \notin Queued
          /\ queue' = Append(queue, p) /\ hooked' = hooked \ {p}
          /\ todo' = todo \ {p}
          /\ UNCHANGED <<monPc, stop, hookedPids, wPc, holding, targetVars, mainVars>>
      BY <1>6, <2>1 DEF PollProcess
    <3>2. /\ Append(queue, p) \in Seq(Pids)
          /\ ToSet(Append(queue, p)) = Queued \cup {p}
          /\ IsInjective(Append(queue, p))
      BY <3>1, AppendElements
    <3>3. TypeOK' /\ WorkerSteps' /\ DumpedOnce' /\ Phases'
      BY <1>6, <3>1, <3>2 DEF PollProcess
    <3>4. Queued' = Queued \cup {p} /\ Held' = Held
      BY <3>1, <3>2
    <3>5. OneOwner'
      BY <3>1, <3>2, <3>4
    <3>6. HooksOwned' /\ SweepAndPoll' /\ HandedOver'
      BY <2>1, <3>1, <3>4
    <3> QED BY <3>3, <3>5, <3>6
  <2>2. CASE ~IsTerminateWaiting(p)
    BY <1>6, <2>2 DEF PollProcess
  <2> QED BY <2>1, <2>2
<1>7. CASE EndPoll
  BY <1>7 DEF EndPoll
<1>8. CASE DrainQueue
  BY <1>8 DEF DrainQueue
<1>9. CASE JoinWorkers
  BY <1>9 DEF JoinWorkers
<1>10. ASSUME NEW p \in Pids, CleanupHook(p) PROVE IInv'
  BY <1>10 DEF CleanupHook, UnhookTerminate
<1>11. CASE EndMonitor
  BY <1>11 DEF EndMonitor
<1> QED BY <1>1, <1>2, <1>3, <1>4, <1>5, <1>6, <1>7, <1>8, <1>9, <1>10, <1>11 DEF Monitor

LEMMA WorkerStep ==
  ASSUME IInv, NEW w \in Workers, Worker(w)
  PROVE  IInv'
<1> USE CloseWatcherAssumption DEF IInv, TypeOK, OneOwner, HooksOwned, SweepAndPoll, HandedOver, WorkerSteps,
  DumpedOnce, Phases, Owned, Queued, Held, Present, Alive, ProcStates, MainStates, MonStates, WorkerStates,
  targetVars, mainVars, monitorVars, workerVars, IsTerminateWaiting
<1>1. CASE WorkerTest(w)
  BY <1>1 DEF WorkerTest, Goto
<1>2. CASE WorkerPop(w)
  <2>1. CASE queue # <<>>
    <3>1. /\ Tail(queue) \in Seq(Pids) /\ Head(queue) \in Pids
          /\ Head(queue) \in Queued
          /\ ToSet(Tail(queue)) = Queued \ {Head(queue)}
          /\ IsInjective(Tail(queue))
      BY <2>1, TailElements
    <3>2. /\ queue' = Tail(queue)
          /\ holding' = [holding EXCEPT ![w] = Head(queue)]
          /\ wPc' = [wPc EXCEPT ![w] = "entry"]
          /\ UNCHANGED <<targetVars, mainVars, monitorVars>>
      BY <1>2, <2>1 DEF WorkerPop, Goto
    <3>3. TypeOK' /\ DumpedOnce' /\ Phases'
      BY <2>1, <3>1, <3>2
    <3>4. holding[w] = NoPid /\ wPc[w] = "pop"
      BY <1>2 DEF WorkerPop
    <3>5. /\ Queued' = Queued \ {Head(queue)}
          /\ Held' = Held \cup {Head(queue)}
      BY <3>1, <3>2, <3>4
    <3>6. OneOwner'
      BY <3>1, <3>2, <3>5
    <3>7. HooksOwned'
      BY <3>1, <3>2, <3>5
    <3>8. SweepAndPoll'
      BY <3>1, <3>2, <3>5
    <3>9. HandedOver'
      BY <3>1, <3>2, <3>5
    <3>10. WorkerSteps'
      BY <3>1, <3>2
    <3> QED BY <3>3, <3>6, <3>7, <3>8, <3>9, <3>10
  <2>2. CASE queue = <<>>
    <3> USE <1>2, <2>2 DEF WorkerPop, Goto
    <3>1. TypeOK' /\ DumpedOnce' /\ Phases'
      BY SMTT(30)
    <3>2. OneOwner' /\ HooksOwned' /\ SweepAndPoll'
      OBVIOUS
    <3>3. HandedOver' /\ WorkerSteps'
      OBVIOUS
    <3> QED BY <3>1, <3>2, <3>3
  <2> QED BY <2>1, <2>2
<1>3. CASE WorkerEntry(w)
  BY <1>3 DEF WorkerEntry, Goto
<1>4. CASE WorkerDump(w)
  BY <1>4 DEF WorkerDump, Goto
<1>5. CASE WorkerResume(w)
  <2>1. /\ holding[w] \in Pids /\ wPc[w] = "resume"
        /\ wPc' = [wPc EXCEPT ![w] = "delete"]
        /\ UNCHANGED <<aim, dumped, starts, queue, holding, mainVars, monitorVars>>
    BY <1>5 DEF WorkerResume, Goto
  <2>2. \/ /\ hook[holding[w]] /\ proc[holding[w]] = "paused"
           /\ proc' = [proc EXCEPT ![holding[w]] = "leaving"]
           /\ hook' = [hook EXCEPT ![holding[w]] = FALSE]
        \/ ~hook[holding[w]] /\ proc' = proc /\ hook' = hook
    BY <1>5, <2>1 DEF WorkerResume, ResumeTerminate
  <2>3. TypeOK'
    <3>1. wPc' \in [Workers -> WorkerStates]
      BY <2>1
    <3>2. proc' \in [Pids -> ProcStates]
      BY <2>1, <2>2
    <3>3. hook' \in [Pids -> BOOLEAN]
      <4>1. hook' = [hook EXCEPT ![holding[w]] = FALSE] \/ hook' = hook
        BY <2>2
      <4>2. hook \in [Pids -> BOOLEAN]
        OBVIOUS
      <4> QED BY <4>1, <4>2, ZenonT(30)
    <3> QED BY <2>1, <3>1, <3>2, <3>3
  <2>4. OneOwner' /\ SweepAndPoll' /\ Phases'
    BY <2>1
  <2>5. HooksOwned'
    BY <2>1, <2>2
  <2>6. HandedOver'
    BY <2>1, <2>2
  <2>7. WorkerSteps'
    BY <2>1, <2>2
  <2>8. DumpedOnce'
    <3>1. ASSUME NEW q \in Pids, hook'[q] PROVE hook[q] /\ (proc[q] = "paused" => proc'[q] = "paused")
      BY <2>1, <2>2, <3>1
    <3>2. dumped' = dumped /\ hookedPids' = hookedPids /\ dumped \subseteq Pids
      BY <2>1
    <3> QED BY <3>1, <3>2
  <2> QED BY <2>3, <2>4, <2>5, <2>6, <2>7, <2>8
<1>6. CASE WorkerDelete(w)
  BY <1>6 DEF WorkerDelete, Goto, UnhookTerminate
<1> QED BY <1>1, <1>2, <1>3, <1>4, <1>5, <1>6 DEF Worker

-----------------------------------------------------------------------------
(* The invariant, and what follows from it.                                *)

\* IInv is inductive, so it holds in every reachable state of the close
\* monitor, whatever the processes, the user and the scheduler do.
THEOREM Invariance == Spec => []IInv
<1>1. Init => IInv
  <2> SUFFICES ASSUME Init PROVE IInv
    OBVIOUS
  <2> USE CloseWatcherAssumption DEF Init
  <2>1. TypeOK
    <3>1. proc \in [Pids -> ProcStates]
      BY DEF ProcStates
    <3>2. starts \in [Pids -> Nat]
      OBVIOUS
    <3>3. queue \in Seq(Pids)
      OBVIOUS
    <3>4. mainPc \in MainStates /\ monPc \in MonStates
      BY DEF MainStates, MonStates
    <3>5. wPc \in [Workers -> WorkerStates] /\ holding \in [Workers -> Pids \cup {NoPid}]
      BY DEF WorkerStates
    <3>6. aim \in [Pids -> {"self", "other"}] /\ hook \in [Pids -> BOOLEAN]
      OBVIOUS
    <3> QED BY <3>1, <3>2, <3>3, <3>4, <3>5, <3>6 DEF TypeOK
  <2>2. Queued = {} /\ Held = {} /\ Owned = {}
    BY DEF Queued, ToSet, Held, Owned
  <2>3. OneOwner
    BY <2>2 DEF OneOwner, IsInjective
  <2>4. HooksOwned /\ SweepAndPoll /\ HandedOver
    BY <2>2 DEF HooksOwned, SweepAndPoll, HandedOver
  <2>5. WorkerSteps /\ DumpedOnce /\ Phases
    BY DEF WorkerSteps, DumpedOnce, Phases
  <2> QED BY <2>1, <2>3, <2>4, <2>5 DEF IInv
<1>2. IInv /\ [Next]_vars => IInv'
  <2> SUFFICES ASSUME IInv, [Next]_vars PROVE IInv'
    OBVIOUS
  <2>1. CASE Next
    BY <2>1, TargetStep, ConsoleStep, MainStep, MonitorStep, WorkerStep DEF Next
  <2>2. CASE UNCHANGED vars
    <3>1. TypeOK' /\ OneOwner' /\ WorkerSteps' /\ DumpedOnce' /\ Phases'
      BY <2>2 DEF IInv, vars, targetVars, mainVars, monitorVars, workerVars,
                  TypeOK, OneOwner, WorkerSteps, DumpedOnce, Phases, Queued, Held
    <3>2. HooksOwned' /\ SweepAndPoll' /\ HandedOver'
      BY <2>2 DEF IInv, vars, targetVars, mainVars, monitorVars, workerVars,
                  HooksOwned, SweepAndPoll, HandedOver, Owned, Queued, Held, Present
    <3> QED BY <3>1, <3>2 DEF IInv
  <2> QED BY <2>1, <2>2
<1> QED BY <1>1, <1>2, PTL DEF Spec

\* Type correctness of the whole state.
THEOREM TypeCorrect == Spec => []TypeOK
BY Invariance, PTL DEF IInv

\* No dumper is ever owned twice: none is deleted twice or used after that.
THEOREM SingleOwner == Spec => []OneOwner
BY Invariance, PTL DEF IInv

\* A hooked or paused process always has a dumper with an owner.
THEOREM HookOwned == Spec => []HookIsOwned
<1>1. IInv => HookIsOwned
  BY DEF IInv, HooksOwned, HookIsOwned
<1> QED BY <1>1, Invariance, PTL

\* When main has ended after CTRL-C, nothing is hooked or suspended.
THEOREM QuitsClean == Spec => []CleanQuit
<1>1. IInv => CleanQuit
  <2> SUFFICES ASSUME IInv, mainPc = "done" PROVE \A p \in Pids : ~hook[p] /\ proc[p] # "paused"
    BY DEF CleanQuit
  <2>1. monPc = "ended"
    BY DEF IInv, Phases
  <2>2. hooked = {} /\ queue = <<>> /\ \A w \in Workers : wPc[w] = "ended"
    BY <2>1 DEF IInv, Phases
  <2>3. Queued = {} /\ Held = {}
    BY <2>2 DEF IInv, WorkerSteps, Queued, ToSet, Held
  <2>4. Owned = {}
    BY <2>2, <2>3 DEF Owned
  <2> QED BY <2>4 DEF IInv, HooksOwned
<1> QED BY <1>1, Invariance, PTL

-----------------------------------------------------------------------------
(* Releasing: what a step may do to a paused process.                      *)

\* The steps that let a paused process go are the worker's, for a process
\* that has been dumped, and the monitor's when the tool is shutting down.
LEMMA Releases ==
  ASSUME IInv, [Next]_vars, NEW p \in Pids,
         proc[p] = "paused", Present(p)', proc'[p] # "paused"
  PROVE  p \in dumped \/ stop
<1> USE DEF targetVars, mainVars, monitorVars, workerVars, Present
<1>1. ASSUME NEW q \in Pids, Target(q) PROVE p \in dumped \/ stop
  BY <1>1 DEF Target, StartProcess, CallTerminate, FinishTerminate, KillProcess,
              IInv, TypeOK
<1>2. CASE Console
  BY <1>2 DEF Console, CtrlC, CtrlClose, HandlerReturns
<1>3. CASE Main
  BY <1>3 DEF Main, StartMonitor, StopMonitor, JoinMonitor
<1>4. CASE Monitor
  <2>1. ASSUME NEW q \in Pids, CleanupHook(q) PROVE stop
    BY <2>1 DEF CleanupHook, IInv, Phases
  <2>2. ASSUME ~\E q \in Pids : CleanupHook(q) PROVE proc' = proc
    BY <1>4, <2>2 DEF Monitor, SpawnWorkers, TakeSnapshot, HookProcess, HookFails,
                      EndSweep, PollProcess, EndPoll, DrainQueue, JoinWorkers, EndMonitor
  <2> QED BY <2>1, <2>2
<1>5. ASSUME NEW w \in Workers, Worker(w) PROVE p \in dumped
  <2>1. CASE WorkerResume(w)
    <3>1. holding[w] = p /\ hook[p]
      BY <2>1 DEF WorkerResume, ResumeTerminate, IsTerminateWaiting, IInv, TypeOK
    <3>2. wPc[w] = "resume"
      BY <2>1 DEF WorkerResume
    <3> QED BY <3>1, <3>2 DEF IInv, WorkerSteps
  <2>2. CASE WorkerDelete(w)
    <3>1. holding[w] = p /\ hook[p]
      BY <2>2 DEF WorkerDelete, UnhookTerminate, IsTerminateWaiting, IInv, TypeOK
    <3>2. wPc[w] = "delete"
      BY <2>2 DEF WorkerDelete
    <3> QED BY <3>1, <3>2 DEF IInv, WorkerSteps
  <2>3. ASSUME ~WorkerResume(w), ~WorkerDelete(w) PROVE proc' = proc
    BY <1>5, <2>3 DEF Worker, WorkerTest, WorkerPop, WorkerEntry, WorkerDump
  <2> QED BY <2>1, <2>2, <2>3
<1>6. CASE UNCHANGED vars
  BY <1>6 DEF vars
<1> QED BY <1>1, <1>2, <1>3, <1>4, <1>5, <1>6 DEF Next

\* A process leaves the hook dumped, or because the tool is shutting down.
THEOREM ReleasedDumped == Spec => DumpedBeforeRelease
<1>1. IInv /\ [Next]_vars =>
        [\A p \in Pids : proc[p] = "paused" /\ proc'[p] = "leaving"
                           => p \in dumped \/ stop]_vars
  <2> SUFFICES ASSUME IInv, [Next]_vars, NEW p \in Pids,
                      proc[p] = "paused", proc'[p] = "leaving"
               PROVE  p \in dumped \/ stop
    OBVIOUS
  <2> QED BY Releases DEF Present
<1> QED BY <1>1, Invariance, PTL DEF Spec, DumpedBeforeRelease

-----------------------------------------------------------------------------
(* The close monitor implements DumpOnClose.                               *)

LEMMA NothingLeft ==
  ASSUME IInv, monPc = "ended"
  PROVE  \A p \in Pids : ~hook[p]
<1>1. hooked = {} /\ queue = <<>> /\ \A w \in Workers : wPc[w] = "ended"
  BY DEF IInv, Phases
<1>2. Queued = {} /\ Held = {}
  BY <1>1 DEF IInv, WorkerSteps, Queued, ToSet, Held
<1> QED BY <1>1, <1>2 DEF IInv, HooksOwned, Owned

\* The moves that the abstract specification allows one process.
Moves(p) ==
  \/ StageOf(p)' \in {StageOf(p), "gone"}
  \/ StageOf(p) = "gone" /\ StageOf(p)' = "free"
  \/ StageOf(p) = "watched" /\ StageOf(p)' = "paused"
  \/ /\ mainPc # "done"
     /\ \/ StageOf(p) = "free" /\ StageOf(p)' = "watched"
        \/ StageOf(p) = "paused" /\ StageOf(p)' = "dumped"
        \/ StageOf(p) = "dumped" /\ StageOf(p)' = "free"
        \/ stop /\ StageOf(p) \in {"watched", "paused"} /\ StageOf(p)' = "free"

\* A step that moves one process, the others staying where they are, is a
\* step of the abstract specification.
LEMMA MoveIsStep ==
  ASSUME NEW p \in Pids, Moves(p),
         \A q \in Pids \ {p} : StageOf(q)' = StageOf(q),
         stop' = stop, (mainPc = "done")' = (mainPc = "done")
  PROVE  [Promise!Next]_Promise!vars
<1> DEFINE st == [q \in Pids |-> StageOf(q)]
<1>1. st' = [st EXCEPT ![p] = StageOf(p)']
  OBVIOUS
<1>2. CASE StageOf(p)' = StageOf(p)
  <2>1. st' = st
    BY <1>1, <1>2
  <2> QED BY <2>1 DEF Promise!vars
<1>3. st[p] = StageOf(p) /\ StageOf(p) \in Promise!Stages
  BY DEF StageOf, Promise!Stages
<1>4. CASE StageOf(p)' # StageOf(p)
  <2> HIDE DEF st
  <2>1. UNCHANGED <<stop, mainPc = "done">>
    OBVIOUS
  <2>2. \/ Promise!Vanish(p) \/ Promise!Start(p) \/ Promise!Watch(p)
        \/ Promise!Pause(p) \/ Promise!Dump(p) \/ Promise!Release(p)
        \/ Promise!Unwatch(p)
    BY <1>1, <1>3, <1>4, <2>1
       DEF st, Moves, Promise!Move, Promise!Vanish, Promise!Start, Promise!Watch,
           Promise!Pause, Promise!Dump, Promise!Release, Promise!Unwatch
  <2> QED BY <2>2 DEF Promise!Next
<1> QED BY <1>2, <1>4

\* A step that changes neither a stage, nor the flag, nor main's end stutters.
LEMMA SameStages ==
  ASSUME \A q \in Pids : StageOf(q)' = StageOf(q),
         stop' = stop, (mainPc = "done")' = (mainPc = "done")
  PROVE  [Promise!Next]_Promise!vars
BY DEF Promise!vars

LEMMA TargetRefines ==
  ASSUME IInv, NEW p \in Pids, Target(p)
  PROVE  [Promise!Next]_Promise!vars
<1> USE DEF targetVars, mainVars, monitorVars, workerVars
<1>1. /\ stop' = stop /\ mainPc' = mainPc
      /\ \A q \in Pids \ {p} : /\ proc'[q] = proc[q] /\ hook'[q] = hook[q]
                               /\ q \in dumped' <=> q \in dumped
  BY DEF Target, StartProcess, CallTerminate, FinishTerminate, KillProcess, IInv, TypeOK
<1>2. \A q \in Pids \ {p} : StageOf(q)' = StageOf(q)
  BY <1>1 DEF StageOf, Present
<1>3. Moves(p)
  <2>1. CASE StartProcess(p)
    BY <2>1 DEF StartProcess, Moves, StageOf, Present, IInv, TypeOK, HooksOwned
  <2>2. ASSUME NEW a \in Aims, CallTerminate(p, a) PROVE Moves(p)
    BY <2>2 DEF CallTerminate, Moves, StageOf, Present, IInv, TypeOK, DumpedOnce
  <2>3. CASE FinishTerminate(p)
    BY <2>3 DEF FinishTerminate, Moves, StageOf, Present, IInv, TypeOK
  <2>4. CASE KillProcess(p)
    BY <2>4 DEF KillProcess, Moves, StageOf, Present, IInv, TypeOK
  <2> QED BY <2>1, <2>2, <2>3, <2>4 DEF Target
<1> QED BY <1>1, <1>2, <1>3, MoveIsStep

LEMMA MainRefines ==
  ASSUME IInv, Main
  PROVE  [Promise!Next]_Promise!vars
<1> USE DEF targetVars, mainVars, monitorVars, workerVars
<1>1. \A q \in Pids : StageOf(q)' = StageOf(q)
  BY DEF Main, StartMonitor, StopMonitor, JoinMonitor, StageOf, Present
<1>2. [p \in Pids |-> StageOf(p)]' = [p \in Pids |-> StageOf(p)]
  BY <1>1
<1>3. CASE StartMonitor
  <2>1. stop' = stop
    BY <1>3 DEF StartMonitor, IInv, TypeOK, Phases
  <2>2. mainPc # "done" /\ mainPc' # "done"
    BY <1>3 DEF StartMonitor
  <2> QED BY <1>1, <2>1, <2>2, SameStages
<1>4. CASE StopMonitor
  <2>1. stop' = TRUE /\ (mainPc = "done")' = (mainPc = "done")
    BY <1>4 DEF StopMonitor
  <2>2. Promise!Quit
    BY <1>2, <2>1 DEF Promise!Quit
  <2> QED BY <2>2 DEF Promise!Next
<1>5. CASE JoinMonitor
  <2>1. monPc = "ended" /\ stop /\ stop' = stop /\ (mainPc = "done")' = TRUE
    BY <1>5 DEF JoinMonitor, IInv, Phases
  <2>2. \A p \in Pids : StageOf(p) \in {"gone", "free"}
    BY <2>1, NothingLeft DEF StageOf
  <2>3. Promise!Finish
    BY <1>2, <2>1, <2>2 DEF Promise!Finish
  <2> QED BY <2>3 DEF Promise!Next
<1> QED BY <1>3, <1>4, <1>5 DEF Main

LEMMA MonitorRefines ==
  ASSUME IInv, Monitor
  PROVE  [Promise!Next]_Promise!vars
<1> USE DEF targetVars, mainVars, monitorVars, workerVars
<1>1. mainPc # "done" /\ mainPc' = mainPc /\ stop' = stop
  BY DEF Monitor, Alive, SpawnWorkers, TakeSnapshot, HookProcess, HookFails, EndSweep,
         PollProcess, EndPoll, DrainQueue, JoinWorkers, CleanupHook, EndMonitor
<1>2. ASSUME NEW p \in Pids, HookProcess(p) PROVE [Promise!Next]_Promise!vars
  <2>1. p \notin hookedPids /\ p \notin Owned /\ ~hook[p] /\ p \notin dumped
    BY <1>2 DEF HookProcess, IInv, SweepAndPoll, HooksOwned, DumpedOnce
  <2>2. StageOf(p) = "free" /\ StageOf(p)' \in {"watched", "paused"}
    BY <1>2, <2>1 DEF HookProcess, StageOf, Present, IInv, TypeOK
  <2>3. proc[p] # "paused"
    BY <2>1 DEF IInv, HooksOwned
  <2>4. StageOf(p)' = "watched"
    BY <1>2, <2>3 DEF HookProcess, StageOf, Present, IInv, TypeOK
  <2>5. \A q \in Pids \ {p} : StageOf(q)' = StageOf(q)
    BY <1>2 DEF HookProcess, StageOf, Present, IInv, TypeOK
  <2> QED BY <1>1, <2>2, <2>4, <2>5, MoveIsStep DEF Moves
<1>3. ASSUME NEW p \in Pids, CleanupHook(p) PROVE [Promise!Next]_Promise!vars
  <2>1. stop
    BY <1>3 DEF CleanupHook, IInv, Phases
  <2>2. \A q \in Pids \ {p} : StageOf(q)' = StageOf(q)
    BY <1>3 DEF CleanupHook, UnhookTerminate, StageOf, Present, IInv, TypeOK
  <2>3. StageOf(p)' \in {"free", "gone"}
    BY <1>3 DEF CleanupHook, UnhookTerminate, StageOf, Present, IInv, TypeOK
  <2>4. StageOf(p) = "gone" => StageOf(p)' = "gone"
    BY <1>3 DEF CleanupHook, UnhookTerminate, StageOf, Present, IInv, TypeOK,
                HooksOwned, IsTerminateWaiting
  <2>5. StageOf(p) \in {"gone", "free", "watched", "paused", "dumped"}
    BY DEF StageOf
  <2> QED BY <1>1, <2>1, <2>2, <2>3, <2>4, <2>5, MoveIsStep DEF Moves
<1>4. ASSUME ~\E p \in Pids : HookProcess(p) \/ CleanupHook(p)
      PROVE  [Promise!Next]_Promise!vars
  <2>1. UNCHANGED targetVars
    BY <1>4 DEF Monitor, SpawnWorkers, TakeSnapshot, HookFails, EndSweep, PollProcess,
                EndPoll, DrainQueue, JoinWorkers, EndMonitor
  <2>2. \A q \in Pids : StageOf(q)' = StageOf(q)
    BY <2>1 DEF StageOf, Present
  <2> QED BY <1>1, <2>2, SameStages
<1> QED BY <1>2, <1>3, <1>4

LEMMA WorkerRefines ==
  ASSUME IInv, NEW w \in Workers, Worker(w)
  PROVE  [Promise!Next]_Promise!vars
<1> USE DEF targetVars, mainVars, monitorVars, workerVars
<1>1. mainPc # "done" /\ mainPc' = mainPc /\ stop' = stop
  BY DEF Worker, Alive, WorkerTest, WorkerPop, WorkerEntry, WorkerDump, WorkerResume,
         WorkerDelete
<1>2. wPc[w] \in {"dump", "resume", "delete"} => holding[w] \in Pids
  BY DEF IInv, TypeOK, WorkerSteps
<1>3. CASE WorkerDump(w)
  <2>1. \A q \in Pids \ {holding[w]} : StageOf(q)' = StageOf(q)
    BY <1>3 DEF WorkerDump, StageOf, Present
  <2>2. holding[w] \in Pids /\ holding[w] \in Held
    BY <1>2, <1>3, CloseWatcherAssumption DEF WorkerDump, Held
  <2>3. hook[holding[w]] => proc[holding[w]] = "paused"
    BY <2>2 DEF IInv, HandedOver
  <2>4. Moves(holding[w])
    BY <1>1, <1>3, <2>2, <2>3 DEF WorkerDump, Moves, StageOf, Present
  <2> QED BY <1>1, <2>1, <2>2, <2>4, MoveIsStep
<1>4. CASE WorkerResume(w)
  <2>1. holding[w] \in Pids /\ (hook[holding[w]] => holding[w] \in dumped)
    BY <1>2, <1>4 DEF WorkerResume, IInv, WorkerSteps
  <2>2. \A q \in Pids \ {holding[w]} : StageOf(q)' = StageOf(q)
    BY <1>4, <2>1 DEF WorkerResume, ResumeTerminate, StageOf, Present, IInv, TypeOK
  <2>3. Moves(holding[w])
    BY <1>1, <1>4, <2>1
       DEF WorkerResume, ResumeTerminate, IsTerminateWaiting, Moves, StageOf, Present, IInv, TypeOK
  <2> QED BY <1>1, <2>1, <2>2, <2>3, MoveIsStep
<1>5. CASE WorkerDelete(w)
  <2>1. holding[w] \in Pids /\ ~hook[holding[w]]
    BY <1>2, <1>5 DEF WorkerDelete, IInv, WorkerSteps
  <2>2. proc' = proc /\ hook' = hook /\ dumped' = dumped
    BY <1>5, <2>1 DEF WorkerDelete, UnhookTerminate, IsTerminateWaiting, IInv, TypeOK
  <2>3. \A q \in Pids : StageOf(q)' = StageOf(q)
    BY <2>2 DEF StageOf, Present
  <2> QED BY <1>1, <2>3, SameStages
<1>6. ASSUME ~WorkerDump(w), ~WorkerResume(w), ~WorkerDelete(w)
      PROVE  [Promise!Next]_Promise!vars
  <2>1. UNCHANGED targetVars
    BY <1>6 DEF Worker, WorkerTest, WorkerPop, WorkerEntry
  <2>2. \A q \in Pids : StageOf(q)' = StageOf(q)
    BY <2>1 DEF StageOf, Present
  <2> QED BY <1>1, <2>2, SameStages
<1> QED BY <1>3, <1>4, <1>5, <1>6

\* The close monitor implements DumpOnClose: a watched process is paused,
\* dumped and released in this order, and none is watched when main ends.
THEOREM Refinement == Spec => KeepsPromise
<1>1. Init => Promise!Init
  BY DEF Init, Promise!Init, StageOf, Present
<1>2. IInv /\ [Next]_vars => [Promise!Next]_Promise!vars
  <2> SUFFICES ASSUME IInv, [Next]_vars PROVE [Promise!Next]_Promise!vars
    OBVIOUS
  <2>1. ASSUME UNCHANGED <<proc, hook, dumped, stop>>,
               (mainPc = "done")' = (mainPc = "done")
        PROVE  [Promise!Next]_Promise!vars
    BY <2>1, SameStages DEF StageOf, Present
  <2>2. CASE Console
    BY <2>1, <2>2 DEF Console, CtrlC, CtrlClose, HandlerReturns, Alive,
                      targetVars, monitorVars, mainVars
  <2>3. CASE UNCHANGED vars
    BY <2>1, <2>3 DEF vars, targetVars, mainVars, monitorVars
  <2> QED BY <2>2, <2>3, TargetRefines, MainRefines, MonitorRefines, WorkerRefines DEF Next
<1> QED BY <1>1, <1>2, Invariance, PTL DEF Spec, KeepsPromise, Promise!Spec
=============================================================================
