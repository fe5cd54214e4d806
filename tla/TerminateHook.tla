---------------------------- MODULE TerminateHook ---------------------------
(***************************************************************************)
(* class terminate_monitor_hook and the code it injects: the protocol      *)
(* between the tool and the threads of one target process.                 *)
(*                                                                         *)
(* The tool redirects NtTerminateProcess of the target to a page of its    *)
(* own, whose code stores the thread's id, raises a flag and suspends the  *)
(* thread; the tool polls the flag, dumps, lowers the flag and resumes the *)
(* thread, which puts the original bytes back and jumps to them.           *)
(*                                                                         *)
(* The tool's side is the life of one dump_process with a hook: hooked and *)
(* polled by the monitor, dumped and resumed by a worker, deleted by       *)
(* either.  Its owners follow each other (CloseWatcher, OneOwner), so it   *)
(* has one program counter.                                                *)
(***************************************************************************)
EXTENDS Naturals, FiniteSets

CONSTANTS
  Threads,  \* threads of the target
  NoThread,
  Aims,     \* what a thread may call NtTerminateProcess on
  Faults,   \* system calls of the tool that may fail on a target that is there
  Prompt    \* a thread that entered the hook is suspended in it before the
            \* tool's next access (the usual timing, guaranteed by nothing)

ASSUME TerminateHookAssumption ==
  /\ NoThread \notin Threads
  /\ Aims \subseteq {"self", "other"}
  /\ Faults \subseteq {"alloc", "exports", "protect", "read", "write",
                       "redirect", "flag", "id", "lower", "open", "restore",
                       "free"}
  /\ Prompt \in BOOLEAN

VARIABLES
  \* --- the target ---
  life,        \* "alive", "exited" or "crashed"
  code,        \* the first bytes of NtTerminateProcess
  page,        \* the hook page: "none", "blank", "ready" or "freed"
  isWaiting,   \* word 0 of the page
  threadId,    \* word 1 of the page, NoThread for 0
  tPc, aim,    \* per thread: where it is; the target of its call
  suspended,   \* per thread: suspended
  \* --- the tool ---
  pc, back,    \* where it is; where resume_terminate returns to
  hookAddress, addressTerminate, addressIsWaiting,  \* non-NULL
  originalBytes,          \* _original_hook_bytes
  terminating,            \* _process_is_terminating
  tid,                    \* local of resume_terminate
  dumped, teardown,       \* dump_all has run; the tool is shutting down
  failed       \* history: where a raised flag could not be read, or the
               \* original bytes could not be written

targetVars == <<life, code, page, isWaiting, threadId, tPc, aim, suspended>>
fieldVars  == <<hookAddress, addressTerminate, addressIsWaiting,
                originalBytes, terminating>>
toolVars   == <<pc, back, fieldVars, tid, dumped, teardown, failed>>
vars == <<targetVars, toolVars>>

InHook     == {"tid", "flag", "suspend", "restore"}
HookSteps  == {"alloc", "exports", "protect", "read", "write", "redirect"}
ToolStates == HookSteps \cup {"watch", "entry", "dump", "check", "readTid",
                              "lower", "resume", "unhook", "release", "clear",
                              "gone"}

Alive == life = "alive"

Init ==
  /\ life = "alive" /\ code = "original" /\ page = "none"
  /\ isWaiting = 0 /\ threadId = NoThread
  /\ tPc = [t \in Threads |-> "run"]
  /\ aim = [t \in Threads |-> "self"]
  /\ suspended = [t \in Threads |-> FALSE]
  /\ pc = "alloc" /\ back = "unhook"
  /\ hookAddress = FALSE /\ addressTerminate = FALSE
  /\ addressIsWaiting = FALSE
  /\ originalBytes = "uninitialized"
  /\ terminating = FALSE /\ tid = NoThread
  /\ dumped = FALSE /\ teardown = FALSE /\ failed = {}

-----------------------------------------------------------------------------
(* The threads of the target.                                              *)

Runs(t) == Alive /\ ~suspended[t]
GotoT(t, l) == tPc' = [tPc EXCEPT ![t] = l]

CallTerminate(t, a) ==
  /\ Runs(t) /\ tPc[t] = "run"
  /\ GotoT(t, "call") /\ aim' = [aim EXCEPT ![t] = a]
  /\ UNCHANGED <<life, code, page, isWaiting, threadId, suspended, toolVars>>

\* The thread executes whatever the entry of NtTerminateProcess holds.
EnterTerminate(t) ==
  /\ Runs(t) /\ tPc[t] = "call"
  /\ \/ /\ code = "original"
        /\ GotoT(t, "kernel") /\ UNCHANGED life
     \/ /\ code = "redirect" /\ page = "ready"
        /\ GotoT(t, "tid") /\ UNCHANGED life
     \/ /\ code = "uninitialized" \/ (code = "redirect" /\ page # "ready")
        /\ life' = "crashed" /\ UNCHANGED tPc
  /\ UNCHANGED <<code, page, isWaiting, threadId, aim, suspended, toolVars>>

\* One stretch of the injected code, from label l to label m.
HookCode(t, l, m) ==
  /\ Runs(t) /\ tPc[t] = l /\ page = "ready" /\ GotoT(t, m)
  /\ UNCHANGED <<life, page, aim, toolVars>>

StoreThreadId(t) ==
  /\ HookCode(t, "tid", "flag")
  /\ threadId' = t
  /\ UNCHANGED <<code, isWaiting, suspended>>

\* Mutant of StoreIsWaiting: the flag is incremented, not set.
StoreIsWaitingCounts(t) ==
  /\ HookCode(t, "flag", "suspend")
  /\ isWaiting' = isWaiting + 1
  /\ UNCHANGED <<code, threadId, suspended>>

StoreIsWaiting(t) ==
  /\ HookCode(t, "flag", "suspend")
  /\ isWaiting' = 1
  /\ UNCHANGED <<code, threadId, suspended>>

\* SuspendThread(GetCurrentThread()) does not return before a resume.
SuspendSelf(t) ==
  /\ HookCode(t, "suspend", "restore")
  /\ suspended' = [suspended EXCEPT ![t] = TRUE]
  /\ UNCHANGED <<code, isWaiting, threadId>>

\* rep movsb of the saved bytes, then the jump back to the entry.
RestoreAndJump(t) ==
  /\ HookCode(t, "restore", "call")
  /\ code' = "original"
  /\ UNCHANGED <<isWaiting, threadId, suspended>>

\* The thread's next instruction is on a page that has been released.
FaultInHook(t) ==
  /\ Runs(t) /\ tPc[t] \in InHook /\ page # "ready"
  /\ life' = "crashed"
  /\ UNCHANGED <<code, page, isWaiting, threadId, tPc, aim, suspended, toolVars>>

\* The system call itself.
Kernel(t) ==
  /\ Runs(t) /\ tPc[t] = "kernel"
  /\ \/ aim[t] = "self" /\ life' = "exited" /\ UNCHANGED tPc
     \/ aim[t] = "other" /\ GotoT(t, "run") /\ UNCHANGED life
  /\ UNCHANGED <<code, page, isWaiting, threadId, aim, suspended, toolVars>>

TargetThread(t) ==
  \/ EnterTerminate(t) \/ StoreThreadId(t) \/ StoreIsWaiting(t)
  \/ SuspendSelf(t) \/ RestoreAndJump(t) \/ FaultInHook(t) \/ Kernel(t)

-----------------------------------------------------------------------------
(* The tool: hook_terminate.                                               *)

Goto(l) == pc' = l

\* A system call on the target fails when the target is gone.
MayFail(f) == f \in Faults \/ ~Alive

\* Giving up: hook_terminate returns false and the dump_process is deleted.
GiveUp(l) ==
  /\ pc = l /\ MayFail(l)
  /\ Goto("unhook")
  /\ UNCHANGED <<back, tid, dumped, teardown, failed, targetVars>>

AllocHook ==
  /\ pc = "alloc" /\ Alive
  /\ page' = "blank" /\ hookAddress' = TRUE
  /\ Goto("exports")
  /\ UNCHANGED <<back, addressTerminate, addressIsWaiting, originalBytes,
                 terminating, tid, dumped, teardown, failed, life, code, isWaiting,
                 threadId, tPc, aim, suspended>>

AllocFails == GiveUp("alloc") /\ UNCHANGED fieldVars

\* The exports were read before; the target's state does not matter here.
FindExports ==
  /\ pc = "exports"
  /\ addressTerminate' = TRUE
  /\ Goto("protect")
  /\ UNCHANGED <<back, hookAddress, addressIsWaiting, originalBytes,
                 terminating, tid, dumped, teardown, failed, targetVars>>

\* One of the four is missing; NtTerminateProcess may be among those found.
ExportMissing ==
  /\ "exports" \in Faults /\ GiveUp("exports")
  /\ addressTerminate' \in BOOLEAN
  /\ UNCHANGED <<hookAddress, addressIsWaiting, originalBytes, terminating>>

ProtectEntry ==
  /\ pc = "protect" /\ Alive
  /\ Goto("read")
  /\ UNCHANGED <<back, fieldVars, tid, dumped, teardown, failed, targetVars>>

ProtectFails == GiveUp("protect") /\ UNCHANGED fieldVars

ReadOriginal ==
  /\ pc = "read" /\ Alive
  /\ originalBytes' = code
  /\ Goto("write")
  /\ UNCHANGED <<back, hookAddress, addressTerminate, addressIsWaiting,
                 terminating, tid, dumped, teardown, failed, targetVars>>

ReadFails == GiveUp("read") /\ UNCHANGED fieldVars

WriteHook ==
  /\ pc = "write" /\ Alive
  /\ page' = "ready" /\ isWaiting' = 0 /\ threadId' = NoThread
  /\ addressIsWaiting' = TRUE
  /\ Goto("redirect")
  /\ UNCHANGED <<back, hookAddress, addressTerminate, originalBytes,
                 terminating, tid, dumped, teardown, failed, life, code, tPc, aim,
                 suspended>>

WriteFails == GiveUp("write") /\ UNCHANGED fieldVars

AddRedirect ==
  /\ pc = "redirect" /\ Alive
  /\ code' = "redirect"
  /\ Goto("watch")
  /\ UNCHANGED <<back, fieldVars, tid, dumped, teardown, failed, life, page,
                 isWaiting, threadId, tPc, aim, suspended>>

RedirectFails == GiveUp("redirect") /\ UNCHANGED fieldVars

HookTerminate ==
  \/ AllocHook \/ AllocFails \/ FindExports \/ ExportMissing
  \/ ProtectEntry \/ ProtectFails \/ ReadOriginal \/ ReadFails
  \/ WriteHook \/ WriteFails \/ AddRedirect \/ RedirectFails

-----------------------------------------------------------------------------
(* The tool: polling, dumping, resuming and unhooking.                     *)

\* The flag is raised where the tool would look for it.
Waiting == addressIsWaiting /\ Alive /\ isWaiting = 1

\* What a read of the flag may return: a read that fails says that nobody waits.
IsTerminateWaiting(answer) ==
  IF Waiting THEN answer \/ "flag" \in Faults ELSE ~answer

\* Under Prompt, no thread is between the entry of the hook and its
\* suspension when the tool looks.
Settled == Prompt => \A t \in Threads : tPc[t] \notin {"tid", "flag", "suspend"}

\* A thread waits, and the tool has not seen it.
Missed(l) == failed' = IF Waiting THEN failed \cup {l} ELSE failed

Step(l, m) ==
  /\ pc = l /\ Settled /\ Goto(m)
  /\ UNCHANGED <<life, threadId, tPc, aim>>

\* The monitor's poll.
Poll ==
  /\ IsTerminateWaiting(TRUE) /\ Step("watch", "entry")
  /\ UNCHANGED <<back, fieldVars, tid, dumped, teardown, failed, code, page,
                 isWaiting, suspended>>

\* The monitor deletes the dumper when it has been told to stop.
Teardown ==
  /\ Step("watch", "unhook")
  /\ teardown' = TRUE
  /\ UNCHANGED <<back, fieldVars, tid, dumped, failed, code, page, isWaiting,
                 suspended>>

\* Mutant of DumpAndResume: the process is resumed without a dump.
ResumeUndumped ==
  /\ \/ IsTerminateWaiting(TRUE) /\ Step("entry", "check") /\ UNCHANGED failed
     \/ IsTerminateWaiting(FALSE) /\ Step("entry", "unhook") /\ Missed("entry")
  /\ UNCHANGED <<back, fieldVars, tid, dumped, teardown, code, page,
                 isWaiting, suspended>>

\* monitor_close_dump_and_resume looks again, dumps and resumes; the worker
\* deletes the dumper whatever comes of it.
DumpAndResume ==
  /\ \/ IsTerminateWaiting(TRUE) /\ Step("entry", "dump") /\ UNCHANGED failed
     \/ IsTerminateWaiting(FALSE) /\ Step("entry", "unhook") /\ Missed("entry")
  /\ UNCHANGED <<back, fieldVars, tid, dumped, teardown, code, page,
                 isWaiting, suspended>>

DumpAll ==
  /\ Step("dump", "check")
  /\ dumped' = TRUE /\ back' = "unhook"
  /\ UNCHANGED <<fieldVars, tid, teardown, failed, code, page, isWaiting,
                 suspended>>

\* Mutant of ResumeCheck: it returns at once, whatever the flag says.
ResumeCheckNever ==
  /\ Step("check", back)
  /\ UNCHANGED <<back, fieldVars, tid, dumped, teardown, failed, code, page,
                 isWaiting, suspended>>

\* resume_terminate: test the flag ...
ResumeCheck ==
  /\ \/ IsTerminateWaiting(TRUE) /\ Step("check", "readTid")
     \/ IsTerminateWaiting(FALSE) /\ Step("check", back)
  /\ UNCHANGED <<back, fieldVars, tid, dumped, teardown, failed, code, page,
                 isWaiting, suspended>>

\* ... read the thread id ...
ReadThreadId ==
  /\ \/ /\ Alive /\ threadId # NoThread
        /\ Step("readTid", "lower")
        /\ tid' = threadId
     \/ /\ MayFail("id") \/ threadId = NoThread
        /\ Step("readTid", back)
        /\ UNCHANGED tid
  /\ UNCHANGED <<back, fieldVars, dumped, teardown, failed, code, page,
                 isWaiting, suspended>>

\* ... lower the flag, whether that succeeds or not ...
LowerFlag ==
  /\ Step("lower", "resume")
  /\ \/ Alive /\ isWaiting' = 0
     \/ MayFail("lower") /\ UNCHANGED isWaiting
  /\ UNCHANGED <<back, fieldVars, tid, dumped, teardown, failed, code, page,
                 suspended>>

\* ... and resume the thread: no effect on one that is not suspended, nor
\* when OpenThread fails.
ResumeThread ==
  /\ Step("resume", back)
  /\ \/ suspended' = [suspended EXCEPT ![tid] = FALSE]
     \/ MayFail("open") /\ UNCHANGED suspended
  /\ terminating' = TRUE
  /\ UNCHANGED <<back, hookAddress, addressTerminate, addressIsWaiting,
                 originalBytes, tid, dumped, teardown, failed, code, page,
                 isWaiting>>

\* Mutant of Unhook: the entry is left redirected to the page.
UnhookForgets ==
  /\ \/ addressTerminate /\ Step("unhook", "release")
     \/ ~addressTerminate /\ Step("unhook", "gone")
  /\ UNCHANGED <<back, fieldVars, tid, dumped, teardown, failed, code, page,
                 isWaiting, suspended>>

\* unhock_terminate: write the saved bytes back, and go on whether that succeeds
\* or not.  When the originals were never read the saved bytes are uninitialized
\* memory, and as the entry may not be writable then, the write may fail anyway.
WriteOriginal ==
  \/ Alive /\ code' = originalBytes /\ UNCHANGED failed
  \/ /\ MayFail("restore") \/ originalBytes = "uninitialized"
     /\ failed' = IF Alive THEN failed \cup {"unhook"} ELSE failed
     /\ UNCHANGED code

Unhook ==
  /\ \/ addressTerminate /\ Step("unhook", "release") /\ WriteOriginal
     \/ ~addressTerminate /\ Step("unhook", "gone") /\ UNCHANGED <<code, failed>>
  /\ UNCHANGED <<back, fieldVars, tid, dumped, teardown, page, isWaiting,
                 suspended>>

\* VirtualFreeEx, where the code gets to it; the result is ignored.
FreePage(called) ==
  \/ called /\ Alive /\ page' = "freed"
  \/ (called => MayFail("free")) /\ UNCHANGED page

\* Mutant of ReleaseHook: the page goes even if a thread has been resumed.
ReleaseHookAlways ==
  /\ \/ /\ IsTerminateWaiting(TRUE) /\ Step("release", "check")
        /\ UNCHANGED <<page, failed>>
     \/ /\ IsTerminateWaiting(FALSE) /\ Step("release", "clear") /\ Missed("release")
        /\ FreePage(hookAddress)
  /\ back' = "clear"
  /\ UNCHANGED <<fieldVars, tid, dumped, teardown, code, isWaiting, suspended>>

\* A waiting thread is resumed; otherwise, unless one has been before, the
\* page is released.
ReleaseHook ==
  /\ \/ /\ IsTerminateWaiting(TRUE) /\ Step("release", "check")
        /\ UNCHANGED <<page, failed>>
     \/ /\ IsTerminateWaiting(FALSE) /\ Step("release", "clear") /\ Missed("release")
        /\ FreePage(~terminating /\ hookAddress)
  /\ back' = "clear"
  /\ UNCHANGED <<fieldVars, tid, dumped, teardown, code, isWaiting, suspended>>

ClearAddresses ==
  /\ Step("clear", "gone")
  /\ hookAddress' = FALSE /\ addressIsWaiting' = FALSE
  /\ UNCHANGED <<back, addressTerminate, originalBytes, terminating, tid,
                 dumped, teardown, failed, code, page, isWaiting, suspended>>

Tool ==
  \/ HookTerminate \/ Poll \/ DumpAndResume \/ DumpAll
  \/ ResumeCheck \/ ReadThreadId \/ LowerFlag \/ ResumeThread
  \/ Unhook \/ ReleaseHook \/ ClearAddresses

Next ==
  \/ \E t \in Threads : TargetThread(t) \/ \E a \in Aims : CallTerminate(t, a)
  \/ Tool \/ Teardown

Spec == Init /\ [][Next]_vars

\* The tool's thread and the threads of the target are scheduled; nothing
\* makes a thread call or the tool shut down.
Fairness == WF_vars(Tool) /\ \A t \in Threads : WF_vars(TargetThread(t))

FairSpec == Spec /\ Fairness
-----------------------------------------------------------------------------
(* Properties.                                                             *)

TypeOK ==
  /\ life \in {"alive", "exited", "crashed"}
  /\ code \in {"original", "redirect", "uninitialized"}
  /\ page \in {"none", "blank", "ready", "freed"}
  /\ isWaiting \in 0..1 /\ threadId \in Threads \cup {NoThread}
  /\ tPc \in [Threads -> InHook \cup {"run", "call", "kernel"}]
  /\ aim \in [Threads -> {"self", "other"}]
  /\ suspended \in [Threads -> BOOLEAN]
  /\ pc \in ToolStates /\ back \in {"unhook", "clear"}
  /\ hookAddress \in BOOLEAN /\ addressTerminate \in BOOLEAN
  /\ addressIsWaiting \in BOOLEAN /\ terminating \in BOOLEAN
  /\ originalBytes \in {"original", "uninitialized"}
  /\ tid \in Threads \cup {NoThread}
  /\ dumped \in BOOLEAN /\ teardown \in BOOLEAN
  /\ failed \subseteq {"entry", "release", "unhook"}

\* No thread comes out of its suspension in the hook before the process has
\* been dumped, unless the tool is shutting down or the worker could not read the
\* flag: whatever the order of the flag, the id and the suspensions of several
\* threads, and whatever other call fails.
LeavesAfterDump ==
  [][\A t \in Threads : suspended[t] /\ ~suspended'[t] =>
       dumped \/ teardown \/ "entry" \in failed]_vars

\* Once the original bytes have been read, the target has them back at its
\* entry when the hook object is gone, at whatever point the hooking failed and
\* whichever thread is in the hook, unless the one write that puts them back
\* (line 64) fails: no other failure, not even of the redirect, leaves the hook.
RestoresWhatItRead ==
  /\ pc = "gone" /\ Alive /\ originalBytes = "original" /\ "unhook" \notin failed
  => code = "original"

\* When the hook object is gone, the target enters the original code
\* ("Write the original code back").  Refuted where an export is missing: the
\* bytes were never read.
OriginalCodeBack == pc = "gone" /\ Alive => code = "original"

\* The hook page is never released under a thread that is suspended in it (it is
\* released only when no thread waits, line 76), unless the read of the flag just
\* before (line 67) fails.
NotFreedUnderSuspended ==
  page = "freed" /\ "release" \notin failed =>
    \A t \in Threads : ~(tPc[t] = "restore" /\ suspended[t])

\* The tool never makes the target crash.
NeverCrashes == life # "crashed"

\* A process that asks to end ends.  Refuted, without any fault: a thread that is
\* resumed between raising the flag and suspending itself sleeps for ever.
ClosesNormally ==
  \A t \in Threads : (Alive /\ tPc[t] = "call" /\ aim[t] = "self") ~> ~Alive

\* A call for another process comes back to its caller, or the caller's
\* process ends.
CallReturns ==
  \A t \in Threads : (Alive /\ tPc[t] = "call") ~> (~Alive \/ tPc[t] = "run")

\* What the tool has made of the process: it lets go of it with the first
\* thread it resumes.
Stage ==
  IF ~Alive THEN "gone"
  ELSE IF terminating THEN "free"
  ELSE IF dumped THEN "dumped"
  ELSE IF isWaiting = 1 THEN "paused"
  ELSE IF code = "redirect" THEN "watched"
  ELSE "free"

\* The hook as the close monitor uses it: for the one process here, the
\* protocol has the effect that CloseWatcher gives it in one step each.
Promise == INSTANCE DumpOnClose WITH
  Pids <- {1}, stage <- [p \in {1} |-> Stage],
  quitting <- teardown, over <- teardown /\ pc = "gone"

KeepsPromise == Promise!Spec
=============================================================================
