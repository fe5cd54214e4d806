---------------------------- MODULE CloseWatcher ----------------------------
(***************************************************************************)
(* The -closemon mode of Process Dump: class close_watcher, the Ctrl-C     *)
(* handler and the wait loop of _tmain, and the processes being watched.   *)
(*                                                                         *)
(* Threads of the tool: main, one monitor thread and the worker pool.  The *)
(* monitor hooks NtTerminateProcess of every process; a hooked process     *)
(* that calls it suspends itself, the monitor moves its dumper to the work *)
(* queue, and a worker dumps and resumes it.  The instruction-level        *)
(* protocol of the hook is in TerminateHook; here a hooked call pauses the *)
(* process in one step.                                                    *)
(*                                                                         *)
(* A dumper (dump_process object) is named by the pid it was made for.     *)
(***************************************************************************)
EXTENDS Naturals, SequencesExt

CONSTANTS
  Pids,        \* process ids the system hands out
  Workers,     \* worker threads, options->NumberOfThreads of them
  Skipped,     \* pids never hooked: the tool's own, and csrss.exe
  Refusing,    \* pids whose hooking may fail (rights, half-created, ...)
  Aims,        \* what a process may call NtTerminateProcess on
  MaxStarts,   \* bound: processes started under one pid
  ForcedClose, \* whether CTRL_CLOSE / LOGOFF / SHUTDOWN events may arrive
  BadSnapshot, \* whether CreateToolhelp32Snapshot may fail
  NoPid

ASSUME CloseWatcherAssumption ==
  /\ Workers # {}               \* -t refuses a count below 1
  /\ Skipped \subseteq Pids
  /\ Refusing \subseteq Pids
  /\ NoPid \notin Pids
  /\ Aims \subseteq {"self", "other"}
  /\ MaxStarts \in Nat
  /\ ForcedClose \in BOOLEAN /\ BadSnapshot \in BOOLEAN

VARIABLES
  \* --- the watched processes ---
  proc,       \* per pid: no process, or what its process is doing
  aim,        \* per pid: the target of the termination call under way
  hook,       \* per pid: NtTerminateProcess is redirected to the hook
  dumped,     \* pids whose present process has been dumped
  starts,     \* per pid: processes started so far
  \* --- main ---
  mainPc, closeRequested, closing,
  \* --- the monitor ---
  monPc, stop, hookedPids, hooked, todo,
  \* --- the workers ---
  queue, wPc, holding

targetVars  == <<proc, aim, hook, dumped, starts>>
mainVars    == <<mainPc, closeRequested, closing>>
monitorVars == <<monPc, stop, hookedPids, hooked, todo>>
workerVars  == <<queue, wPc, holding>>
vars == <<targetVars, mainVars, monitorVars, workerVars>>

ProcStates   == {"none", "running", "paused", "leaving"}
MainStates   == {"start", "await", "join", "done", "killed"}
MonStates    == {"none", "spawn", "test", "sweep", "poll", "drain", "join",
                 "cleanup", "ended"}
WorkerStates == {"none", "test", "pop", "entry", "dump", "resume", "delete",
                 "ended"}

Present(p) == proc[p] # "none"
Queued     == ToSet(queue)
Held       == {holding[w] : w \in Workers} \ {NoPid}
\* The pids with a live dump_process object that hooked its process.
Owned      == hooked \cup Queued \cup Held

\* The tool's threads run until main returns or the console host kills it.
Alive == mainPc \notin {"done", "killed"}

\* The workers have all left while the monitor still waits for them to
\* empty the queue.
Stranded == /\ monPc = "drain" /\ queue # <<>>
            /\ \A w \in Workers : wPc[w] = "ended"

Init ==
  /\ proc \in [Pids -> {"none", "running"}]
  /\ aim = [p \in Pids |-> "self"]
  /\ hook = [p \in Pids |-> FALSE]
  /\ dumped = {}
  /\ starts = [p \in Pids |-> IF proc[p] = "running" THEN 1 ELSE 0]
  /\ mainPc = "start" /\ closeRequested = FALSE /\ closing = FALSE
  /\ monPc = "none" /\ stop = FALSE
  /\ hookedPids = {} /\ hooked = {} /\ todo = {}
  /\ queue = <<>>
  /\ wPc = [w \in Workers |-> "none"]
  /\ holding = [w \in Workers |-> NoPid]

-----------------------------------------------------------------------------
(* The watched processes and the operating system.                         *)

\* A process starts.  Its pid is free: no process has it, and no dumper of
\* the running tool holds the handle that would keep the number in use.
StartProcess(p) ==
  /\ ~Present(p) /\ (Alive => p \notin Owned) /\ starts[p] < MaxStarts
  /\ proc' = [proc EXCEPT ![p] = "running"]
  /\ starts' = [starts EXCEPT ![p] = @ + 1]
  /\ dumped' = dumped \ {p}
  /\ UNCHANGED <<aim, hook, mainVars, monitorVars, workerVars>>

\* The process calls NtTerminateProcess, on itself or on another process
\* (a parent ending a child).  The redirect pauses it.
CallTerminate(p, a) ==
  /\ proc[p] = "running"
  /\ proc' = [proc EXCEPT ![p] = IF hook[p] THEN "paused" ELSE "leaving"]
  /\ aim' = [aim EXCEPT ![p] = a]
  /\ UNCHANGED <<hook, dumped, starts, mainVars, monitorVars, workerVars>>

\* The original NtTerminateProcess runs.
FinishTerminate(p) ==
  /\ proc[p] = "leaving"
  /\ \/ /\ aim[p] = "self"
        /\ proc' = [proc EXCEPT ![p] = "none"]
        /\ hook' = [hook EXCEPT ![p] = FALSE]
     \/ /\ aim[p] = "other"
        /\ proc' = [proc EXCEPT ![p] = "running"]
        /\ UNCHANGED hook
  /\ UNCHANGED <<aim, dumped, starts, mainVars, monitorVars, workerVars>>

\* Something outside ends the process; its own hook is not on that path.
KillProcess(p) ==
  /\ Present(p)
  /\ proc' = [proc EXCEPT ![p] = "none"]
  /\ hook' = [hook EXCEPT ![p] = FALSE]
  /\ UNCHANGED <<aim, dumped, starts, mainVars, monitorVars, workerVars>>

-----------------------------------------------------------------------------
(* terminate_monitor_hook as its callers see it.                           *)

IsTerminateWaiting(p) == hook[p] /\ proc[p] = "paused"

\* resume_terminate: the suspended thread runs on; the hook code puts the
\* original bytes back before it jumps to them.
ResumeTerminate(p) ==
  /\ proc' = [proc EXCEPT ![p] = "leaving"]
  /\ hook' = [hook EXCEPT ![p] = FALSE]

\* ~terminate_monitor_hook: the original bytes go back, and a thread still
\* waiting in the hook is let go.
UnhookTerminate(p) ==
  /\ hook' = [hook EXCEPT ![p] = FALSE]
  /\ proc' = [proc EXCEPT ![p] = IF IsTerminateWaiting(p) THEN "leaving" ELSE @]

-----------------------------------------------------------------------------
(* main: _tmain from the installation of the handler on.                   *)

\* CTRL-C or CTRL-BREAK.
CtrlC ==
  /\ Alive /\ ~closeRequested
  /\ closeRequested' = TRUE
  /\ UNCHANGED <<mainPc, closing, targetVars, monitorVars, workerVars>>

\* CTRL_CLOSE, LOGOFF or SHUTDOWN: the handler asks for the cleanup and
\* sleeps for 30 seconds; the system ends the tool when it returns.
CtrlClose ==
  /\ Alive /\ ForcedClose /\ ~closing
  /\ closeRequested' = TRUE /\ closing' = TRUE
  /\ UNCHANGED <<mainPc, targetVars, monitorVars, workerVars>>

\* The 30 seconds are over before main has ended.  Only two things last that
\* long: the dump of a process, and the wait for a queue nobody serves.
HandlerReturns ==
  /\ Alive /\ closing /\ stop
  /\ (\E w \in Workers : wPc[w] = "dump") \/ Stranded
  /\ mainPc' = "killed"
  /\ UNCHANGED <<closeRequested, closing, targetVars, monitorVars, workerVars>>

StartMonitor ==
  /\ mainPc = "start"
  /\ mainPc' = "await"
  /\ stop' = FALSE /\ monPc' = "spawn"
  /\ UNCHANGED <<closeRequested, closing, hookedPids, hooked, todo,
                 targetVars, workerVars>>

\* The wait loop ends; stop_monitor raises the flag and joins the monitor.
StopMonitor ==
  /\ mainPc = "await" /\ closeRequested
  /\ mainPc' = "join" /\ stop' = TRUE
  /\ UNCHANGED <<closeRequested, closing, monPc, hookedPids, hooked, todo,
                 targetVars, workerVars>>

JoinMonitor ==
  /\ mainPc = "join" /\ monPc = "ended"
  /\ mainPc' = "done"
  /\ UNCHANGED <<closeRequested, closing, targetVars, monitorVars, workerVars>>

-----------------------------------------------------------------------------
(* The monitor thread: _monitor_dump_on_close.                             *)

SpawnWorkers ==
  /\ monPc = "spawn"
  /\ wPc' = [w \in Workers |-> "test"]
  /\ monPc' = "test"
  /\ UNCHANGED <<stop, hookedPids, hooked, todo, queue, holding,
                 targetVars, mainVars>>

\* Mutant of TakeSnapshot: a failed snapshot is read all the same.
TakeSnapshotUnchecked ==
  /\ monPc = "test" /\ ~stop
  /\ monPc' = "sweep"
  /\ \/ todo' = {p \in Pids : Present(p)} \ (hookedPids \cup Skipped)
     \/ BadSnapshot /\ todo' = {NoPid}
  /\ UNCHANGED <<stop, hookedPids, hooked, targetVars, mainVars, workerVars>>

\* Loop test and snapshot.  The tests on the pid, the image name and
\* hooked_pids are made here for all entries: only this thread changes
\* hooked_pids, and only with the entry it is visiting.
TakeSnapshot ==
  /\ monPc = "test"
  /\ \/ /\ stop
        /\ monPc' = "drain"
        /\ UNCHANGED todo
     \/ /\ ~stop
        /\ monPc' = "sweep"
        /\ \/ todo' = {p \in Pids : Present(p)} \ (hookedPids \cup Skipped)
           \/ BadSnapshot /\ todo' = {}
  /\ UNCHANGED <<stop, hookedPids, hooked, targetVars, mainVars, workerVars>>

\* monitor_close_start succeeds.
HookProcess(p) ==
  /\ monPc = "sweep" /\ p \in todo
  /\ Present(p)
  /\ hook' = [hook EXCEPT ![p] = TRUE]
  /\ hooked' = hooked \cup {p}
  /\ hookedPids' = hookedPids \cup {p}
  /\ todo' = todo \ {p}
  /\ UNCHANGED <<monPc, stop, proc, aim, dumped, starts, mainVars, workerVars>>

\* monitor_close_start fails; the dumper is deleted and the pid stays
\* out of hooked_pids, so the next sweep tries again.
HookFails(p) ==
  /\ monPc = "sweep" /\ p \in todo
  /\ ~Present(p) \/ p \in Refusing
  /\ todo' = todo \ {p}
  /\ UNCHANGED <<monPc, stop, hookedPids, hooked, targetVars, mainVars, workerVars>>

EndSweep ==
  /\ monPc = "sweep" /\ todo = {}
  /\ monPc' = "poll" /\ todo' = hooked
  /\ UNCHANGED <<stop, hookedPids, hooked, targetVars, mainVars, workerVars>>

\* Mutants of PollProcess: the dumper stays in hooked_processes, ...
PollProcessKeeps(p) ==
  /\ monPc = "poll" /\ p \in todo
  /\ queue' = IF IsTerminateWaiting(p) THEN Append(queue, p) ELSE queue
  /\ todo' = todo \ {p}
  /\ UNCHANGED <<monPc, stop, hookedPids, hooked, wPc, holding, targetVars, mainVars>>

\* ... or leaves it without being pushed.
PollProcessDrops(p) ==
  /\ monPc = "poll" /\ p \in todo
  /\ hooked' = IF IsTerminateWaiting(p) THEN hooked \ {p} ELSE hooked
  /\ todo' = todo \ {p}
  /\ UNCHANGED <<monPc, stop, hookedPids, workerVars, targetVars, mainVars>>

\* One turn of the loop over hooked_processes.
PollProcess(p) ==
  /\ monPc = "poll" /\ p \in todo
  /\ \/ /\ IsTerminateWaiting(p)
        /\ queue' = Append(queue, p)
        /\ hooked' = hooked \ {p}
     \/ /\ ~IsTerminateWaiting(p)
        /\ UNCHANGED <<queue, hooked>>
  /\ todo' = todo \ {p}
  /\ UNCHANGED <<monPc, stop, hookedPids, wPc, holding, targetVars, mainVars>>

\* Mutant of EndPoll: the snapshot is taken once, before the loop.
EndPollStays ==
  /\ monPc = "poll" /\ todo = {}
  /\ todo' = hooked
  /\ UNCHANGED <<monPc, stop, hookedPids, hooked, targetVars, mainVars, workerVars>>

EndPoll ==
  /\ monPc = "poll" /\ todo = {}
  /\ monPc' = "test"
  /\ UNCHANGED <<stop, hookedPids, hooked, todo, targetVars, mainVars, workerVars>>

\* The wait for the queue to empty, then the join of the workers.
DrainQueue ==
  /\ monPc = "drain" /\ queue = <<>>
  /\ monPc' = "join"
  /\ UNCHANGED <<stop, hookedPids, hooked, todo, targetVars, mainVars, workerVars>>

\* Mutant of JoinWorkers: an empty queue is taken for idle workers.
JoinWorkersAtOnce ==
  /\ monPc = "join"
  /\ monPc' = "cleanup"
  /\ UNCHANGED <<stop, hookedPids, hooked, todo, targetVars, mainVars, workerVars>>

JoinWorkers ==
  /\ monPc = "join" /\ \A w \in Workers : wPc[w] = "ended"
  /\ monPc' = "cleanup"
  /\ UNCHANGED <<stop, hookedPids, hooked, todo, targetVars, mainVars, workerVars>>

\* Mutant of CleanupHook: the map is cleared, the dumpers are not deleted.
CleanupHookForgets(p) ==
  /\ monPc = "cleanup" /\ p \in hooked
  /\ hooked' = hooked \ {p}
  /\ UNCHANGED <<monPc, stop, hookedPids, todo, targetVars, mainVars, workerVars>>

\* Deletes one of the dumpers left; its destructor takes the hook out.
CleanupHook(p) ==
  /\ monPc = "cleanup" /\ p \in hooked
  /\ UnhookTerminate(p)
  /\ hooked' = hooked \ {p}
  /\ UNCHANGED <<monPc, stop, hookedPids, todo, aim, dumped, starts,
                 mainVars, workerVars>>

EndMonitor ==
  /\ monPc = "cleanup" /\ hooked = {}
  /\ monPc' = "ended"
  /\ UNCHANGED <<stop, hookedPids, hooked, todo, targetVars, mainVars, workerVars>>

-----------------------------------------------------------------------------
(* A worker thread: _dump_process_worker_and_close.                        *)

Goto(w, l) == wPc' = [wPc EXCEPT ![w] = l]

\* Mutant of WorkerTest: the stop flag is not looked at.
WorkerTestForever(w) ==
  /\ wPc[w] = "test"
  /\ Goto(w, "pop")
  /\ UNCHANGED <<queue, holding, targetVars, mainVars, monitorVars>>

WorkerTest(w) ==
  /\ wPc[w] = "test"
  /\ Goto(w, IF ~stop \/ queue # <<>> THEN "pop" ELSE "ended")
  /\ UNCHANGED <<queue, holding, targetVars, mainVars, monitorVars>>

\* The non-blocking pop; another worker may have taken the last entry.
WorkerPop(w) ==
  /\ wPc[w] = "pop"
  /\ \/ /\ queue # <<>>
        /\ holding' = [holding EXCEPT ![w] = Head(queue)]
        /\ queue' = Tail(queue)
        /\ Goto(w, "entry")
     \/ /\ queue = <<>>
        /\ Goto(w, "test")
        /\ UNCHANGED <<queue, holding>>
  /\ UNCHANGED <<targetVars, mainVars, monitorVars>>

\* Mutant of WorkerEntry: the process is resumed and then dumped.
WorkerEntryResumes(w) ==
  /\ wPc[w] = "entry"
  /\ Goto(w, IF IsTerminateWaiting(holding[w]) THEN "resume" ELSE "delete")
  /\ UNCHANGED <<queue, holding, targetVars, mainVars, monitorVars>>

\* monitor_close_dump_and_resume: nothing to do unless still waiting.
WorkerEntry(w) ==
  /\ wPc[w] = "entry"
  /\ Goto(w, IF IsTerminateWaiting(holding[w]) THEN "dump" ELSE "delete")
  /\ UNCHANGED <<queue, holding, targetVars, mainVars, monitorVars>>

WorkerDump(w) ==
  /\ wPc[w] = "dump"
  /\ dumped' = dumped \cup {holding[w]}
  /\ Goto(w, "resume")
  /\ UNCHANGED <<proc, aim, hook, starts, queue, holding, mainVars, monitorVars>>

WorkerResume(w) ==
  /\ wPc[w] = "resume"
  /\ IF IsTerminateWaiting(holding[w])
     THEN ResumeTerminate(holding[w])
     ELSE UNCHANGED <<proc, hook>>
  /\ Goto(w, "delete")
  /\ UNCHANGED <<aim, dumped, starts, queue, holding, mainVars, monitorVars>>

WorkerDelete(w) ==
  /\ wPc[w] = "delete"
  /\ UnhookTerminate(holding[w])
  /\ holding' = [holding EXCEPT ![w] = NoPid]
  /\ Goto(w, "test")
  /\ UNCHANGED <<aim, dumped, starts, queue, mainVars, monitorVars>>

-----------------------------------------------------------------------------
Target(p) ==
  \/ StartProcess(p)
  \/ \E a \in Aims : CallTerminate(p, a)
  \/ FinishTerminate(p)
  \/ KillProcess(p)

Console == CtrlC \/ CtrlClose \/ HandlerReturns

Main == Alive /\ (StartMonitor \/ StopMonitor \/ JoinMonitor)

Monitor ==
  /\ Alive
  /\ \/ SpawnWorkers \/ TakeSnapshot
     \/ \E p \in Pids : HookProcess(p) \/ HookFails(p)
     \/ EndSweep
     \/ \E p \in Pids : PollProcess(p)
     \/ EndPoll \/ DrainQueue \/ JoinWorkers
     \/ \E p \in Pids : CleanupHook(p)
     \/ EndMonitor

Worker(w) ==
  /\ Alive
  /\ \/ WorkerTest(w) \/ WorkerPop(w) \/ WorkerEntry(w)
     \/ WorkerDump(w) \/ WorkerResume(w) \/ WorkerDelete(w)

Next ==
  \/ \E p \in Pids : Target(p)
  \/ Console \/ Main \/ Monitor
  \/ \E w \in Workers : Worker(w)

Spec == Init /\ [][Next]_vars

\* Every thread of the tool keeps being scheduled, and a call of the
\* original NtTerminateProcess completes.  Nothing is assumed of the user,
\* of when processes start or die, or of when they call.
Fairness ==
  /\ WF_vars(Main) /\ WF_vars(Monitor)
  /\ \A w \in Workers : WF_vars(Worker(w))
  /\ \A p \in Pids : WF_vars(FinishTerminate(p))

FairSpec == Spec /\ Fairness
-----------------------------------------------------------------------------
(* Properties.                                                             *)

TypeOK ==
  /\ proc \in [Pids -> ProcStates]
  /\ aim \in [Pids -> {"self", "other"}]
  /\ hook \in [Pids -> BOOLEAN]
  /\ dumped \subseteq Pids
  /\ starts \in [Pids -> Nat]
  /\ mainPc \in MainStates /\ monPc \in MonStates
  /\ closeRequested \in BOOLEAN /\ closing \in BOOLEAN /\ stop \in BOOLEAN
  /\ hookedPids \subseteq Pids /\ hooked \subseteq Pids /\ todo \subseteq Pids
  /\ queue \in Seq(Pids)
  /\ wPc \in [Workers -> WorkerStates]
  /\ holding \in [Workers -> Pids \cup {NoPid}]

\* A dumper has one owner: the map of hooked processes, one place in the
\* queue or one worker.  Two owners would delete it twice, or use it after
\* its deletion (close_watcher.cpp hands it over by pointer, lines 109-112).
OneOwner ==
  /\ hooked \cap (Queued \cup Held) = {}
  /\ Queued \cap Held = {}
  /\ IsInjective(queue)
  /\ \A v, w \in Workers : holding[v] = holding[w] /\ holding[v] # NoPid => v = w

\* While the tool runs, a process it has hooked or paused has a dumper that
\* some thread still owns, so somebody is left to resume it.
HookIsOwned == Alive => \A p \in Pids : hook[p] \/ proc[p] = "paused" => p \in Owned

\* When main ends after CTRL-C, no process is left hooked or suspended
\* ("Cleaning up process terminate hooks cleanly...").
CleanQuit == mainPc = "done" => \A p \in Pids : ~hook[p] /\ proc[p] # "paused"

\* The abstract specification of the monitor, and how this one maps to it.
StageOf(p) ==
  IF ~Present(p) THEN "gone"
  ELSE IF ~hook[p] THEN "free"
  ELSE IF proc[p] # "paused" THEN "watched"
  ELSE IF p \in dumped THEN "dumped" ELSE "paused"

Promise == INSTANCE DumpOnClose WITH
  stage <- [p \in Pids |-> StageOf(p)],
  quitting <- stop,
  over <- mainPc = "done"

\* The close monitor keeps its promise, step by step ...
KeepsPromise == Promise!Spec

\* ... and, until told to stop, does dump and release what has paused.
FulfilsPromise == Promise!FairSpec

\* A process is let out of the hook only when it has been dumped, or when
\* the tool is shutting down.
DumpedBeforeRelease ==
  [][\A p \in Pids : proc[p] = "paused" /\ proc'[p] = "leaving"
                       => p \in dumped \/ stop]_vars

\* A process that runs and has not been hooked is hooked, or ends, unless
\* its hooking may fail or the tool is told to stop.  (A pid that has been
\* hooked once stays in hooked_pids, also when a new process gets it or when
\* a call on another process has taken the hook out: it is passed over.)
KeepsWatch ==
  \A p \in Pids \ (Skipped \cup Refusing) :
    (mainPc = "await" /\ proc[p] = "running" /\ p \notin hookedPids)
      ~> (hook[p] \/ proc[p] # "running" \/ closeRequested)

\* CTRL-C ends the tool, but for one way to hang: an entry pushed after the
\* last worker had found the stop flag raised and the queue empty.
QuitOrStranded == closeRequested ~> (~Alive \/ []Stranded)

\* CTRL-C ends the tool.
QuitAlways == closeRequested ~> ~Alive
=============================================================================
