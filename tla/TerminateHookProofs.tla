------------------------- MODULE TerminateHookProofs ------------------------
(***************************************************************************)
(* Theorems about TerminateHook, for every set of threads, every choice of *)
(* the faults and with or without Prompt.                                  *)
(***************************************************************************)
EXTENDS TerminateHook, TLAPS

\* No thread is in the hook and none can get there.
Quiet == code # "redirect" /\ isWaiting = 0 /\ \A t \in Threads : tPc[t] \notin InHook

\* The saved bytes have been written back, if there were any.
WrittenBack ==
  \/ pc \in {"release", "clear", "gone"}
  \/ back = "clear" /\ pc \in {"check", "readTid", "lower", "resume"}

\* Nothing reaches the hook before the redirect.
HookedLate == /\ pc \in HookSteps => Quiet /\ code = "original"
              /\ page \in {"none", "blank"} => \A t \in Threads : tPc[t] \notin InHook
              /\ page = "ready" => addressIsWaiting \/ pc = "gone"

\* Whoever is about to suspend itself, or has, is announced by the flag, has been
\* seen by the tool, or is being resumed.
Announced == \A t \in Threads :
  tPc[t] \in {"suspend", "restore"} => isWaiting = 1 \/ terminating \/ pc = "resume"

\* What has been read goes back, unless the write fails, and stays.
GoesBack == /\ pc \in {"protect", "read"} => addressTerminate
            /\ pc \in {"alloc", "exports", "protect", "read"} => originalBytes = "uninitialized"
            /\ originalBytes = "original" => addressTerminate
            /\ WrittenBack /\ Alive /\ originalBytes = "original" =>
                 code = "original" \/ "unhook" \in failed
            /\ "unhook" \in failed => WrittenBack

\* The tool gets to a resumption only after the dump, when it shuts down, or when the
\* worker did not see that a thread waits.
ResumesLate ==
  /\ pc = "entry" /\ Alive => isWaiting = 1 /\ addressIsWaiting
  /\ pc \in {"readTid", "lower", "resume"} => dumped \/ teardown \/ "entry" \in failed
  /\ pc \in {"check", "unhook", "release", "clear", "gone"} =>
       dumped \/ teardown \/ ~Alive \/ Quiet \/ "entry" \in failed

HInv == /\ TypeOK /\ NotFreedUnderSuspended /\ HookedLate /\ Announced
        /\ GoesBack /\ ResumesLate
-----------------------------------------------------------------------------
\* The threads of the target keep the invariant.
LEMMA TargetStep == HInv /\ (\E t \in Threads : TargetThread(t) \/ \E a \in Aims : CallTerminate(t, a)) => HInv'
<1> SUFFICES ASSUME HInv, \E t \in Threads : TargetThread(t) \/ \E a \in Aims : CallTerminate(t, a) PROVE HInv'
  OBVIOUS
<1> USE TerminateHookAssumption DEF HInv, TypeOK, NotFreedUnderSuspended, HookedLate, Announced,
      GoesBack, ResumesLate, Quiet, WrittenBack, Alive, InHook, HookSteps, ToolStates
<1>1. ASSUME NEW t \in Threads, NEW a \in Aims, CallTerminate(t, a) PROVE HInv'
  BY <1>1 DEF CallTerminate, Runs, GotoT, toolVars, fieldVars
<1>2. ASSUME NEW t \in Threads, EnterTerminate(t) PROVE HInv'
  BY <1>2 DEF EnterTerminate, Runs, GotoT, toolVars, fieldVars
<1>3. ASSUME NEW t \in Threads, StoreThreadId(t) PROVE HInv'
  BY <1>3 DEF StoreThreadId, HookCode, Runs, GotoT, toolVars, fieldVars
<1>4. ASSUME NEW t \in Threads, StoreIsWaiting(t) PROVE HInv'
  BY <1>4 DEF StoreIsWaiting, HookCode, Runs, GotoT, toolVars, fieldVars
<1>5. ASSUME NEW t \in Threads, SuspendSelf(t) PROVE HInv'
  BY <1>5 DEF SuspendSelf, HookCode, Runs, GotoT, toolVars, fieldVars
<1>6. ASSUME NEW t \in Threads, RestoreAndJump(t) PROVE HInv'
  BY <1>6 DEF RestoreAndJump, HookCode, Runs, GotoT, toolVars, fieldVars
<1>7. ASSUME NEW t \in Threads, FaultInHook(t) PROVE HInv'
  BY <1>7 DEF FaultInHook, Runs, GotoT, toolVars, fieldVars
<1>8. ASSUME NEW t \in Threads, Kernel(t) PROVE HInv'
  BY <1>8 DEF Kernel, Runs, GotoT, toolVars, fieldVars
<1> QED
  BY <1>1, <1>2, <1>3, <1>4, <1>5, <1>6, <1>7, <1>8 DEF TargetThread

\* So does hook_terminate, wherever it gives up.
LEMMA HookStep == HInv /\ (HookTerminate) => HInv'
<1> SUFFICES ASSUME HInv, HookTerminate PROVE HInv'
  OBVIOUS
<1> USE TerminateHookAssumption DEF HInv, TypeOK, NotFreedUnderSuspended, HookedLate, Announced,
      GoesBack, ResumesLate, Quiet, WrittenBack, Alive, InHook, HookSteps, ToolStates
<1>1. ASSUME AllocHook PROVE HInv'
  BY <1>1 DEF AllocHook, Goto, targetVars, fieldVars
<1>2. ASSUME FindExports PROVE HInv'
  BY <1>2 DEF FindExports, Goto, targetVars, fieldVars
<1>3. ASSUME ProtectEntry PROVE HInv'
  BY <1>3 DEF ProtectEntry, Goto, targetVars, fieldVars
<1>4. ASSUME ReadOriginal PROVE HInv'
  BY <1>4 DEF ReadOriginal, Goto, targetVars, fieldVars
<1>5. ASSUME WriteHook PROVE HInv'
  BY <1>5 DEF WriteHook, Goto, targetVars, fieldVars
<1>6. ASSUME AddRedirect PROVE HInv'
  BY <1>6 DEF AddRedirect, Goto, targetVars, fieldVars
<1>7. ASSUME AllocFails PROVE HInv'
  BY <1>7 DEF AllocFails, GiveUp, Goto, targetVars, fieldVars
<1>8. ASSUME ExportMissing PROVE HInv'
  <2>1. TypeOK'
    <3>1. suspended' \in [Threads -> BOOLEAN]
      BY <1>8 DEF ExportMissing, GiveUp, Goto, targetVars, fieldVars
    <3>2. /\ hookAddress' \in BOOLEAN
          /\ addressTerminate' \in BOOLEAN
          /\ addressIsWaiting' \in BOOLEAN
          /\ terminating' \in BOOLEAN
          /\ dumped' \in BOOLEAN
          /\ teardown' \in BOOLEAN
      BY <1>8, Zenon DEF ExportMissing, GiveUp, Goto, targetVars, fieldVars
    <3> QED
      BY <1>8, <3>1, <3>2 DEF ExportMissing, GiveUp, Goto, targetVars, fieldVars
  <2>2. NotFreedUnderSuspended'
    BY <1>8 DEF ExportMissing, GiveUp, Goto, targetVars, fieldVars
  <2>3. HookedLate'
    BY <1>8 DEF ExportMissing, GiveUp, Goto, targetVars, fieldVars
  <2>4. Announced'
    BY <1>8 DEF ExportMissing, GiveUp, Goto, targetVars, fieldVars
  <2>5. GoesBack'
    BY <1>8 DEF ExportMissing, GiveUp, Goto, targetVars, fieldVars
  <2>6. ResumesLate'
    BY <1>8 DEF ExportMissing, GiveUp, Goto, targetVars, fieldVars
  <2> QED
    BY <2>1, <2>2, <2>3, <2>4, <2>5, <2>6
<1>9. ASSUME ProtectFails PROVE HInv'
  BY <1>9 DEF ProtectFails, GiveUp, Goto, targetVars, fieldVars
<1>10. ASSUME ReadFails PROVE HInv'
  BY <1>10 DEF ReadFails, GiveUp, Goto, targetVars, fieldVars
<1>11. ASSUME WriteFails PROVE HInv'
  BY <1>11 DEF WriteFails, GiveUp, Goto, targetVars, fieldVars
<1>12. ASSUME RedirectFails PROVE HInv'
  BY <1>12 DEF RedirectFails, GiveUp, Goto, targetVars, fieldVars
<1> QED
  BY <1>1, <1>2, <1>3, <1>4, <1>5, <1>6, <1>7, <1>8, <1>9, <1>10, <1>11, <1>12 DEF HookTerminate

\* So do polling, dumping, resuming and unhooking.
LEMMA ToolStep == HInv /\ (Poll \/ Teardown \/ DumpAndResume \/ DumpAll \/ ResumeCheck \/ ReadThreadId \/ LowerFlag
    \/ ResumeThread \/ Unhook \/ ReleaseHook \/ ClearAddresses) => HInv'
<1> SUFFICES ASSUME HInv, Poll \/ Teardown \/ DumpAndResume \/ DumpAll \/ ResumeCheck \/ ReadThreadId \/ LowerFlag
    \/ ResumeThread \/ Unhook \/ ReleaseHook \/ ClearAddresses PROVE HInv'
  OBVIOUS
<1> USE TerminateHookAssumption DEF HInv, TypeOK, NotFreedUnderSuspended, HookedLate, Announced,
      GoesBack, ResumesLate, Quiet, WrittenBack, Alive, InHook, HookSteps, ToolStates
<1>1. ASSUME Poll PROVE HInv'
  BY <1>1 DEF Poll, Step, Goto, fieldVars, IsTerminateWaiting, Waiting
<1>2. ASSUME Teardown PROVE HInv'
  BY <1>2 DEF Teardown, Step, Goto, fieldVars
<1>3. ASSUME DumpAndResume PROVE HInv'
  <2>1. TypeOK'
    <3>1. suspended' \in [Threads -> BOOLEAN] /\ failed' \subseteq {"entry", "release", "unhook"}
      BY <1>3 DEF DumpAndResume, Step, Goto, fieldVars, IsTerminateWaiting, Waiting, Missed
    <3>2. /\ hookAddress' \in BOOLEAN
          /\ addressTerminate' \in BOOLEAN
          /\ addressIsWaiting' \in BOOLEAN
          /\ terminating' \in BOOLEAN
          /\ dumped' \in BOOLEAN
          /\ teardown' \in BOOLEAN
      BY <1>3, Zenon DEF DumpAndResume, Step, Goto, fieldVars, IsTerminateWaiting, Waiting, Missed
    <3> QED
      BY <1>3, <3>1, <3>2 DEF DumpAndResume, Step, Goto, fieldVars, IsTerminateWaiting, Waiting, Missed
  <2>2. NotFreedUnderSuspended'
    BY <1>3 DEF DumpAndResume, Step, Goto, fieldVars, IsTerminateWaiting, Waiting, Missed
  <2>3. HookedLate'
    BY <1>3 DEF DumpAndResume, Step, Goto, fieldVars, IsTerminateWaiting, Waiting, Missed
  <2>4. Announced'
    BY <1>3 DEF DumpAndResume, Step, Goto, fieldVars, IsTerminateWaiting, Waiting, Missed
  <2>5. GoesBack'
    BY <1>3 DEF DumpAndResume, Step, Goto, fieldVars, IsTerminateWaiting, Waiting, Missed
  <2>6. ResumesLate'
    BY <1>3 DEF DumpAndResume, Step, Goto, fieldVars, IsTerminateWaiting, Waiting, Missed
  <2> QED
    BY <2>1, <2>2, <2>3, <2>4, <2>5, <2>6
<1>4. ASSUME DumpAll PROVE HInv'
  BY <1>4 DEF DumpAll, Step, Goto, fieldVars
<1>5. ASSUME ResumeCheck PROVE HInv'
  BY <1>5 DEF ResumeCheck, Step, Goto, fieldVars, IsTerminateWaiting, Waiting
<1>6. ASSUME ReadThreadId PROVE HInv'
  BY <1>6 DEF ReadThreadId, Step, Goto, fieldVars
<1>7. ASSUME LowerFlag PROVE HInv'
  BY <1>7 DEF LowerFlag, Step, Goto, fieldVars
<1>8. ASSUME ResumeThread PROVE HInv'
  <2>1. TypeOK'
    <3>1. suspended' \in [Threads -> BOOLEAN]
      BY <1>8 DEF ResumeThread, Step, Goto, fieldVars
    <3>2. /\ hookAddress' \in BOOLEAN
          /\ addressTerminate' \in BOOLEAN
          /\ addressIsWaiting' \in BOOLEAN
          /\ terminating' \in BOOLEAN
          /\ dumped' \in BOOLEAN
          /\ teardown' \in BOOLEAN
      BY <1>8, Zenon DEF ResumeThread, Step, Goto, fieldVars
    <3> QED
      BY <1>8, <3>1, <3>2 DEF ResumeThread, Step, Goto, fieldVars
  <2>2. NotFreedUnderSuspended'
    BY <1>8 DEF ResumeThread, Step, Goto, fieldVars
  <2>3. HookedLate'
    BY <1>8 DEF ResumeThread, Step, Goto, fieldVars
  <2>4. Announced'
    BY <1>8 DEF ResumeThread, Step, Goto, fieldVars
  <2>5. GoesBack'
    BY <1>8 DEF ResumeThread, Step, Goto, fieldVars
  <2>6. ResumesLate'
    BY <1>8 DEF ResumeThread, Step, Goto, fieldVars
  <2> QED
    BY <2>1, <2>2, <2>3, <2>4, <2>5, <2>6
<1>9. ASSUME Unhook PROVE HInv'
  <2>1. TypeOK'
    <3>1. suspended' \in [Threads -> BOOLEAN] /\ failed' \subseteq {"entry", "release", "unhook"}
      BY <1>9 DEF Unhook, WriteOriginal, Step, Goto, fieldVars
    <3>2. /\ hookAddress' \in BOOLEAN
          /\ addressTerminate' \in BOOLEAN
          /\ addressIsWaiting' \in BOOLEAN
          /\ terminating' \in BOOLEAN
          /\ dumped' \in BOOLEAN
          /\ teardown' \in BOOLEAN
      BY <1>9, Zenon DEF Unhook, WriteOriginal, Step, Goto, fieldVars
    <3> QED
      BY <1>9, <3>1, <3>2 DEF Unhook, WriteOriginal, Step, Goto, fieldVars
  <2>2. NotFreedUnderSuspended'
    BY <1>9 DEF Unhook, WriteOriginal, Step, Goto, fieldVars
  <2>3. HookedLate'
    BY <1>9 DEF Unhook, WriteOriginal, Step, Goto, fieldVars
  <2>4. Announced'
    BY <1>9 DEF Unhook, WriteOriginal, Step, Goto, fieldVars
  <2>5. GoesBack'
    BY <1>9 DEF Unhook, WriteOriginal, Step, Goto, fieldVars
  <2>6. ResumesLate'
    BY <1>9 DEF Unhook, WriteOriginal, Step, Goto, fieldVars
  <2> QED
    BY <2>1, <2>2, <2>3, <2>4, <2>5, <2>6
<1>10. ASSUME ReleaseHook PROVE HInv'
  <2>1. TypeOK'
    <3>1. suspended' \in [Threads -> BOOLEAN] /\ failed' \subseteq {"entry", "release", "unhook"}
      BY <1>10 DEF ReleaseHook, Step, Goto, fieldVars, IsTerminateWaiting, Waiting, Missed, FreePage
    <3>2. /\ hookAddress' \in BOOLEAN
          /\ addressTerminate' \in BOOLEAN
          /\ addressIsWaiting' \in BOOLEAN
          /\ terminating' \in BOOLEAN
          /\ dumped' \in BOOLEAN
          /\ teardown' \in BOOLEAN
      BY <1>10, Zenon DEF ReleaseHook, Step, Goto, fieldVars, IsTerminateWaiting, Waiting, Missed, FreePage
    <3> QED
      BY <1>10, <3>1, <3>2 DEF ReleaseHook, Step, Goto, fieldVars, IsTerminateWaiting, Waiting, Missed, FreePage
  <2>2. NotFreedUnderSuspended'
    BY <1>10 DEF ReleaseHook, Step, Goto, fieldVars, IsTerminateWaiting, Waiting, Missed, FreePage
  <2>3. HookedLate'
    BY <1>10 DEF ReleaseHook, Step, Goto, fieldVars, IsTerminateWaiting, Waiting, Missed, FreePage
  <2>4. Announced'
    BY <1>10 DEF ReleaseHook, Step, Goto, fieldVars, IsTerminateWaiting, Waiting, Missed, FreePage
  <2>5. GoesBack'
    BY <1>10 DEF ReleaseHook, Step, Goto, fieldVars, IsTerminateWaiting, Waiting, Missed, FreePage
  <2>6. ResumesLate'
    BY <1>10 DEF ReleaseHook, Step, Goto, fieldVars, IsTerminateWaiting, Waiting, Missed, FreePage
  <2> QED
    BY <2>1, <2>2, <2>3, <2>4, <2>5, <2>6
<1>11. ASSUME ClearAddresses PROVE HInv'
  <2>1. TypeOK'
    <3>1. suspended' \in [Threads -> BOOLEAN]
      BY <1>11 DEF ClearAddresses, Step, Goto, fieldVars
    <3>2. /\ hookAddress' \in BOOLEAN
          /\ addressTerminate' \in BOOLEAN
          /\ addressIsWaiting' \in BOOLEAN
          /\ terminating' \in BOOLEAN
          /\ dumped' \in BOOLEAN
          /\ teardown' \in BOOLEAN
      BY <1>11, Zenon DEF ClearAddresses, Step, Goto, fieldVars
    <3> QED
      BY <1>11, <3>1, <3>2 DEF ClearAddresses, Step, Goto, fieldVars
  <2>2. NotFreedUnderSuspended'
    BY <1>11 DEF ClearAddresses, Step, Goto, fieldVars
  <2>3. HookedLate'
    BY <1>11 DEF ClearAddresses, Step, Goto, fieldVars
  <2>4. Announced'
    BY <1>11 DEF ClearAddresses, Step, Goto, fieldVars
  <2>5. GoesBack'
    BY <1>11 DEF ClearAddresses, Step, Goto, fieldVars
  <2>6. ResumesLate'
    BY <1>11 DEF ClearAddresses, Step, Goto, fieldVars
  <2> QED
    BY <2>1, <2>2, <2>3, <2>4, <2>5, <2>6
<1> QED
  BY <1>1, <1>2, <1>3, <1>4, <1>5, <1>6, <1>7, <1>8, <1>9, <1>10, <1>11

\* The inductive invariant of the hook protocol.
THEOREM Invariance == Spec => []HInv
<1>1. Init => HInv
  <2>1. Init => TypeOK
    <3> SUFFICES ASSUME Init PROVE TypeOK
      OBVIOUS
    <3>1. suspended \in [Threads -> BOOLEAN]
      BY DEF Init
    <3>2. /\ hookAddress \in BOOLEAN
          /\ addressTerminate \in BOOLEAN
          /\ addressIsWaiting \in BOOLEAN
          /\ terminating \in BOOLEAN
          /\ dumped \in BOOLEAN
          /\ teardown \in BOOLEAN
      BY Zenon DEF Init
    <3> QED
      BY <3>1, <3>2 DEF Init, TypeOK, InHook, HookSteps, ToolStates
  <2> QED
    BY <2>1 DEF Init, HInv, NotFreedUnderSuspended, HookedLate, Announced, GoesBack, ResumesLate,
                Quiet, WrittenBack, InHook, HookSteps
<1>2. HInv /\ [Next]_vars => HInv'
  <2> SUFFICES ASSUME HInv, [Next]_vars PROVE HInv'
    OBVIOUS
  <2>1. CASE UNCHANGED vars
    BY <2>1 DEF vars, targetVars, toolVars, fieldVars, HInv, TypeOK, NotFreedUnderSuspended,
       HookedLate, Announced, GoesBack, ResumesLate, Quiet, WrittenBack, Alive
  <2> QED
    BY <2>1, TargetStep, HookStep, ToolStep DEF Next, Tool
<1> QED
  BY <1>1, <1>2, PTL DEF Spec

\* Type correctness: the words of the page and the steps of the tool stay in their range.
THEOREM TypeCorrect == Spec => []TypeOK
<1>1. HInv => TypeOK
  BY DEF HInv
<1> QED
  BY <1>1, Invariance, PTL

\* The page that unhock_terminate releases has no suspended thread in it, if the read of
\* the flag just before the release does not fail.
THEOREM PageStays == Spec => []NotFreedUnderSuspended
<1>1. HInv => NotFreedUnderSuspended
  BY DEF HInv
<1> QED
  BY <1>1, Invariance, PTL

\* The original bytes come back to NtTerminateProcess if they have been read and
\* the write that puts them there does not fail.
THEOREM BytesReturn == Spec => []RestoresWhatItRead
<1>1. HInv => RestoresWhatItRead
  BY DEF HInv, GoesBack, WrittenBack, RestoresWhatItRead
<1> QED
  BY <1>1, Invariance, PTL

\* resume_terminate lets no thread go whose process has not been dumped, but for a
\* shut-down and for a worker that could not read the flag.
THEOREM LeavesDumped == Spec => LeavesAfterDump
<1>1. HInv /\ [Next]_vars =>
        [\A t \in Threads : suspended[t] /\ ~suspended'[t] =>
           dumped \/ teardown \/ "entry" \in failed]_vars
  <2> SUFFICES ASSUME HInv, Next, NEW u \in Threads, suspended[u], ~suspended'[u]
               PROVE dumped \/ teardown \/ "entry" \in failed
    OBVIOUS
  <2>1. ASSUME NEW t \in Threads, TargetThread(t) \/ \E a \in Aims : CallTerminate(t, a) PROVE FALSE
    BY <2>1 DEF HInv, TypeOK, TargetThread, CallTerminate, EnterTerminate, StoreThreadId,
                StoreIsWaiting, SuspendSelf, RestoreAndJump, FaultInHook, Kernel, HookCode
  <2>2. ASSUME HookTerminate PROVE FALSE
    BY <2>2 DEF HookTerminate, AllocHook, AllocFails, FindExports, ExportMissing, ProtectEntry,
                ProtectFails, ReadOriginal, ReadFails, WriteHook, WriteFails, AddRedirect,
                RedirectFails, GiveUp, targetVars
  <2>3. CASE ResumeThread
    BY <2>3 DEF ResumeThread, Step, HInv, ResumesLate
  <2>4. ASSUME Poll \/ Teardown \/ DumpAndResume \/ DumpAll \/ ResumeCheck \/ ReadThreadId
               \/ LowerFlag \/ Unhook \/ ReleaseHook \/ ClearAddresses PROVE FALSE
    BY <2>4 DEF Poll, Teardown, DumpAndResume, DumpAll, ResumeCheck, ReadThreadId, LowerFlag,
                Unhook, ReleaseHook, ClearAddresses
  <2> QED
    BY <2>1, <2>2, <2>3, <2>4 DEF Next, Tool
<1> QED
  BY <1>1, Invariance, PTL DEF Spec, LeavesAfterDump
-----------------------------------------------------------------------------
\* Under the usual timing the hook is there for whoever gets to it, and who is left
\* behind in it sleeps.
HookIsThere ==
  /\ NeverCrashes
  /\ Alive => /\ code # "uninitialized"
              /\ code = "redirect" \/ pc = "redirect" => page = "ready"
              /\ \A t \in Threads : tPc[t] \in InHook =>
                   page = "ready" \/ (suspended[t] /\ pc \in {"clear", "gone"})
              /\ \A t \in Threads : tPc[t] = "restore" => suspended[t] \/ terminating
              /\ addressTerminate => pc \in {"protect", "read"} \/ originalBytes = "original"
  /\ code = "redirect" \/ pc \in {"write", "redirect"} => originalBytes = "original"
  /\ "unhook" \notin failed

\* Every step keeps that, if the bytes to be written back are read, and are written.
LEMMA ThereStep ==
  ASSUME Prompt = TRUE, Faults \cap {"exports", "protect", "read", "restore"} = {},
         HInv, HookIsThere, [Next]_vars
  PROVE  HookIsThere'
<1> USE DEF HookIsThere, NeverCrashes, Alive
<1>1. ASSUME NEW t \in Threads, TargetThread(t) \/ \E a \in Aims : CallTerminate(t, a)
      PROVE  HookIsThere'
  BY <1>1 DEF TargetThread, CallTerminate, EnterTerminate, StoreThreadId, StoreIsWaiting, SuspendSelf,
              RestoreAndJump, FaultInHook, Kernel, HookCode, GotoT, Runs, HInv, TypeOK, InHook,
              toolVars, fieldVars
<1>2. CASE HookTerminate
  <2> USE <1>2 DEF targetVars, fieldVars, Goto
  <2>0. pc \in HookSteps
    BY DEF HookTerminate, AllocHook, AllocFails, FindExports, ExportMissing, ProtectEntry, ProtectFails,
           ReadOriginal, ReadFails, WriteHook, WriteFails, AddRedirect, RedirectFails, GiveUp, HookSteps
  <2>1. /\ code = "original"
        /\ \A t \in Threads : tPc[t] \notin InHook
    BY <2>0 DEF HInv, HookedLate, Quiet, HookSteps
  <2>2. CASE AllocHook
    BY <2>1, <2>2 DEF AllocHook
  <2>3. CASE AllocFails \/ ProtectFails \/ ReadFails \/ WriteFails \/ RedirectFails \/ ExportMissing
    BY <2>1, <2>3 DEF AllocFails, ProtectFails, ReadFails, WriteFails, RedirectFails, ExportMissing,
                      GiveUp, MayFail
  <2>4. CASE FindExports
    BY <2>1, <2>4 DEF FindExports
  <2>5. CASE ProtectEntry
    BY <2>1, <2>5 DEF ProtectEntry
  <2>6. CASE ReadOriginal
    BY <2>1, <2>6 DEF ReadOriginal
  <2>7. CASE WriteHook
    BY <2>1, <2>7 DEF WriteHook
  <2>8. CASE AddRedirect
    BY <2>1, <2>8 DEF AddRedirect
  <2> QED
    BY <2>2, <2>3, <2>4, <2>5, <2>6, <2>7, <2>8 DEF HookTerminate
<1>3. CASE Poll \/ Teardown \/ DumpAndResume \/ DumpAll \/ ResumeCheck \/ ReadThreadId
           \/ LowerFlag \/ ResumeThread \/ ClearAddresses
  <2> USE DEF Step, Goto, fieldVars
  <2>1. /\ UNCHANGED <<life, code, page, tPc, originalBytes>>
        /\ "unhook" \in failed' => "unhook" \in failed
    BY <1>3 DEF Poll, Teardown, DumpAndResume, DumpAll, ResumeCheck, ReadThreadId, LowerFlag,
                ResumeThread, ClearAddresses, Missed
  <2>2. /\ pc \notin {"protect", "read", "clear", "gone"} \/ (pc = "clear" /\ pc' = "gone")
        /\ pc' \notin {"write", "redirect", "protect", "read"}
    <3>1. back \in {"unhook", "clear"}
      BY DEF HInv, TypeOK
    <3>2. CASE Poll \/ Teardown \/ DumpAndResume \/ DumpAll \/ LowerFlag \/ ClearAddresses
      BY <3>2 DEF Poll, Teardown, DumpAndResume, DumpAll, LowerFlag, ClearAddresses
    <3>3. CASE ResumeCheck
      BY <3>1, <3>3 DEF ResumeCheck
    <3>4. CASE ReadThreadId
      BY <3>1, <3>4 DEF ReadThreadId
    <3>5. CASE ResumeThread
      BY <3>1, <3>5 DEF ResumeThread
    <3> QED
      BY <1>3, <3>2, <3>3, <3>4, <3>5
  <2>3. /\ addressTerminate' <=> addressTerminate
        /\ terminating => terminating'
    <3>1. CASE ResumeThread
      BY <3>1, Zenon DEF ResumeThread
    <3>2. CASE ClearAddresses
      BY <3>2, Zenon DEF ClearAddresses
    <3>3. CASE Poll \/ Teardown \/ DumpAndResume \/ DumpAll \/ ResumeCheck \/ ReadThreadId \/ LowerFlag
      <4>1. UNCHANGED fieldVars
        BY <3>3, Zenon DEF Poll, Teardown, DumpAndResume, DumpAll, ResumeCheck, ReadThreadId, LowerFlag
      <4> QED
        BY <4>1, Zenon
    <3> QED
      BY <1>3, <3>1, <3>2, <3>3
  <2>4. \/ UNCHANGED suspended
        \/ pc = "resume" /\ terminating'
    BY <1>3 DEF Poll, Teardown, DumpAndResume, DumpAll, ResumeCheck, ReadThreadId, LowerFlag,
                ResumeThread, ClearAddresses
  <2> QED
    BY <2>1, <2>2, <2>3, <2>4
<1>4. CASE Unhook
  BY <1>4 DEF Unhook, WriteOriginal, MayFail, Step, Goto, fieldVars, HInv, TypeOK, GoesBack
<1>5. CASE ReleaseHook
  <2>1. /\ UNCHANGED <<life, code, tPc, suspended, terminating, originalBytes, addressTerminate>>
        /\ pc = "release" /\ pc' \in {"check", "clear"}
        /\ "unhook" \in failed' => "unhook" \in failed
        /\ page' = page \/ (pc' = "clear" /\ ~terminating)
    BY <1>5 DEF ReleaseHook, FreePage, Step, Goto, Missed, fieldVars, HInv, TypeOK
  <2>2. \A t \in Threads : tPc[t] \notin {"tid", "flag", "suspend"}
    BY <1>5 DEF ReleaseHook, Step, Settled
  <2>3. Alive => code # "redirect"
    BY <2>1 DEF HInv, GoesBack, WrittenBack
  <2> QED
    BY <2>1, <2>2, <2>3 DEF InHook
<1>6. CASE UNCHANGED vars
  BY <1>6 DEF vars, targetVars, toolVars, fieldVars
<1> QED
  BY <1>1, <1>2, <1>3, <1>4, <1>5, <1>6 DEF Next, Tool

\* The tool never makes the target crash, under the usual timing and as long as no
\* export is missing, the entry can be read, and the write that restores it does not
\* fail: however many threads call, and whatever other call fails.  The write counts:
\* its result is ignored, and the page is released under the redirect.
THEOREM CrashesNever ==
  ASSUME Prompt = TRUE, Faults \cap {"exports", "protect", "read", "restore"} = {}
  PROVE  Spec => []NeverCrashes
<1>1. Init => HookIsThere
  BY DEF Init, HookIsThere, NeverCrashes, InHook
<1>2. HInv /\ HookIsThere /\ [Next]_vars => HookIsThere'
  BY ThereStep
<1>3. HookIsThere => NeverCrashes
  BY DEF HookIsThere
<1> QED
  BY <1>1, <1>2, <1>3, Invariance, PTL DEF Spec
-----------------------------------------------------------------------------
(* Under the usual timing the hook implements DumpOnClose, however many    *)
(* threads call, and whatever fails but the reads of flag and id and the   *)
(* write that restores the entry.                                          *)

\* Until the tool lets the process go: who is in the hook has come through
\* the redirect, and stays.
PausedInv ==
  Alive /\ ~terminating =>
    \A t \in Threads : /\ tPc[t] \in {"tid", "flag"} => code = "redirect"
                       /\ tPc[t] = "restore" => suspended[t]

\* A raised flag comes with the id of a thread and can be read.
FlagInv ==
  /\ isWaiting = 1 => threadId # NoThread /\ (addressIsWaiting \/ pc = "gone")
  /\ \A t \in Threads :
       tPc[t] \in {"flag", "suspend", "restore"} => threadId # NoThread
  /\ Alive /\ pc \in {"dump", "readTid", "lower"} => isWaiting = 1

\* The redirect is set, and watched, only when what was there is known; and what
\* is known is written back, by a worker that has seen who waits.
KnownInv ==
  /\ code = "redirect" \/ pc \in {"write", "redirect", "watch"} \/ teardown =>
       originalBytes = "original"
  /\ originalBytes = "original" => "unhook" \notin failed
  /\ "entry" \notin failed

\* A resumption follows the dump, or the restored entry; a dumped process is
\* let go before anything else; at the end nothing waits.
LetGoInv ==
  /\ pc \in {"check", "readTid", "lower", "resume"} => dumped \/ back = "clear"
  /\ Alive /\ ~terminating =>
       /\ dumped => pc \in {"check", "readTid", "lower", "resume"}
       /\ dumped /\ pc = "check" => isWaiting = 1
       /\ pc \in {"clear", "gone"} => isWaiting = 0

PromiseInv == PausedInv /\ FlagInv /\ KnownInv /\ LetGoInv

LEMMA TargetPromise ==
  ASSUME HInv, PromiseInv,
         NEW t \in Threads, TargetThread(t) \/ \E a \in Aims : CallTerminate(t, a)
  PROVE  PromiseInv'
<1> USE DEF PromiseInv, Alive
<1>0. UNCHANGED toolVars /\ HInv' /\ (Alive' => Alive)
  BY TargetStep
  DEF TargetThread, CallTerminate, EnterTerminate, StoreThreadId, StoreIsWaiting,
      SuspendSelf, RestoreAndJump, FaultInHook, Kernel, HookCode
<1>1. CASE (\E a \in Aims : CallTerminate(t, a)) \/ EnterTerminate(t) \/ FaultInHook(t)
           \/ Kernel(t)
  <2>1. /\ UNCHANGED <<code, isWaiting, threadId, suspended>>
        /\ \A u \in Threads :
             /\ tPc'[u] \in {"tid", "flag"} =>
                  tPc[u] \in {"tid", "flag"} \/ code = "redirect"
             /\ tPc'[u] \in {"flag", "suspend", "restore"} => tPc'[u] = tPc[u]
    BY <1>1 DEF CallTerminate, EnterTerminate, FaultInHook, Kernel, GotoT, HInv, TypeOK
  <2> QED
    BY <1>0, <2>1 DEF PausedInv, FlagInv, KnownInv, LetGoInv, toolVars, fieldVars
<1>2. CASE StoreThreadId(t)
  BY <1>0, <1>2, TerminateHookAssumption
  DEF StoreThreadId, HookCode, GotoT, HInv, TypeOK, PausedInv, FlagInv, KnownInv, LetGoInv,
      toolVars, fieldVars
<1>3. CASE StoreIsWaiting(t)
  <2>1. /\ tPc[t] = "flag" /\ tPc' = [tPc EXCEPT ![t] = "suspend"] /\ page = "ready"
        /\ isWaiting' = 1 /\ Alive
        /\ UNCHANGED <<code, threadId, suspended, toolVars>>
    BY <1>3 DEF StoreIsWaiting, HookCode, GotoT, Runs
  <2>2. PausedInv'
    BY <1>0, <2>1 DEF PausedInv, HInv, TypeOK, toolVars, fieldVars
  <2>3. FlagInv'
    BY <1>0, <2>1 DEF FlagInv, HInv, HookedLate, TypeOK, toolVars, fieldVars
  <2>4. Alive' /\ ~terminating' => pc' \notin {"clear", "gone"}
    BY <1>0, <2>1 DEF PausedInv, KnownInv, HInv, GoesBack, WrittenBack, toolVars, fieldVars
  <2> QED
    BY <1>0, <2>1, <2>2, <2>3, <2>4 DEF KnownInv, LetGoInv, toolVars, fieldVars
<1>4. CASE SuspendSelf(t)
  BY <1>0, <1>4
  DEF SuspendSelf, HookCode, GotoT, HInv, TypeOK, PausedInv, FlagInv, KnownInv, LetGoInv,
      toolVars, fieldVars
<1>5. CASE RestoreAndJump(t)
  <2>1. terminating
    BY <1>5 DEF RestoreAndJump, HookCode, Runs, PausedInv
  <2> QED
    BY <1>0, <1>5, <2>1
    DEF RestoreAndJump, HookCode, GotoT, HInv, TypeOK, PausedInv, FlagInv, KnownInv,
        LetGoInv, toolVars, fieldVars
<1> QED
  BY <1>1, <1>2, <1>3, <1>4, <1>5 DEF TargetThread

LEMMA HookPromise == ASSUME HInv, PromiseInv, HookTerminate PROVE PromiseInv'
<1> USE DEF PromiseInv, Alive, targetVars, fieldVars, Goto
<1>1. /\ pc \in HookSteps /\ pc' \in HookSteps \cup {"watch", "unhook"}
      /\ UNCHANGED <<life, tPc, suspended, back, terminating, dumped, teardown, failed>>
      /\ pc' = "watch" => pc = "redirect"
      /\ pc' = "write" => originalBytes' = code
      /\ pc' = "redirect" => pc = "write"
      /\ code' = code \/ pc = "redirect"
  BY DEF HookTerminate, AllocHook, AllocFails, FindExports, ExportMissing, ProtectEntry,
         ProtectFails, ReadOriginal, ReadFails, WriteHook, WriteFails, AddRedirect,
         RedirectFails, GiveUp, HookSteps
<1>2. code = "original" /\ isWaiting = 0 /\ \A t \in Threads : tPc[t] \notin InHook
  BY <1>1 DEF HInv, HookedLate, Quiet
<1>3. isWaiting' = 0 /\ (originalBytes' = originalBytes \/ originalBytes' = "original")
  BY <1>1, <1>2
  DEF HookTerminate, AllocHook, AllocFails, FindExports, ExportMissing, ProtectEntry,
      ProtectFails, ReadOriginal, ReadFails, WriteHook, WriteFails, AddRedirect,
      RedirectFails, GiveUp
<1>4. PausedInv' /\ FlagInv'
  BY <1>1, <1>2, <1>3 DEF PausedInv, FlagInv, InHook, HookSteps
<1>5. KnownInv'
  <2>1. "unhook" \notin failed
    BY <1>1 DEF HInv, GoesBack, WrittenBack, HookSteps
  <2> QED
    BY <1>1, <1>2, <1>3, <2>1 DEF KnownInv, HookSteps
<1>6. LetGoInv'
  BY <1>1, <1>2, <1>3 DEF LetGoInv, HookSteps
<1> QED BY <1>4, <1>5, <1>6

LEMMA ToolPromise ==
  ASSUME Prompt = TRUE, Faults \cap {"flag", "id", "restore"} = {}, HInv, PromiseInv,
         \/ Poll \/ Teardown \/ DumpAndResume \/ DumpAll \/ ResumeCheck \/ ReadThreadId
         \/ LowerFlag \/ ResumeThread \/ Unhook \/ ReleaseHook \/ ClearAddresses
  PROVE  PromiseInv'
<1> USE DEF PromiseInv, Alive, fieldVars, Step, Goto
<1>0. /\ threadId \in Threads \cup {NoThread} /\ back \in {"unhook", "clear"}
      /\ isWaiting \in 0..1 /\ UNCHANGED <<life, threadId, tPc, aim>>
  BY DEF HInv, TypeOK, Poll, Teardown, DumpAndResume, DumpAll, ResumeCheck, ReadThreadId,
         LowerFlag, ResumeThread, Unhook, ReleaseHook, ClearAddresses
<1>1. CASE Poll \/ Teardown \/ DumpAndResume
  BY <1>0, <1>1
  DEF Poll, Teardown, DumpAndResume, IsTerminateWaiting, Waiting, Missed, PausedInv, FlagInv, KnownInv,
      LetGoInv
<1>2. CASE DumpAll
  BY <1>0, <1>2 DEF DumpAll, PausedInv, FlagInv, KnownInv, LetGoInv
<1>3. CASE ResumeCheck
  <2>1. PausedInv' /\ FlagInv' /\ KnownInv'
    BY <1>0, <1>3 DEF ResumeCheck, IsTerminateWaiting, Waiting, PausedInv, FlagInv, KnownInv
  <2>2. LetGoInv'
    BY <1>0, <1>3 DEF ResumeCheck, IsTerminateWaiting, Waiting, FlagInv, LetGoInv
  <2> QED BY <2>1, <2>2
<1>4. CASE ReadThreadId
  <2>1. PausedInv' /\ FlagInv' /\ KnownInv'
    BY <1>0, <1>4 DEF ReadThreadId, PausedInv, FlagInv, KnownInv
  <2>2. LetGoInv'
    BY <1>0, <1>4 DEF ReadThreadId, MayFail, FlagInv, LetGoInv
  <2> QED BY <2>1, <2>2
<1>5. CASE LowerFlag
  BY <1>0, <1>5 DEF LowerFlag, PausedInv, FlagInv, KnownInv, LetGoInv
<1>6. CASE ResumeThread
  BY <1>0, <1>6 DEF ResumeThread, PausedInv, FlagInv, KnownInv, LetGoInv
<1>7. CASE Unhook
  <2>1. \A t \in Threads : tPc[t] \notin {"tid", "flag"}
    BY <1>7 DEF Unhook, Settled
  <2>2. code' = "redirect" => code = "redirect"
    BY <1>7 DEF Unhook, WriteOriginal, HInv, TypeOK
  <2>3. PausedInv' /\ FlagInv' /\ KnownInv'
    BY <1>0, <1>7, <2>1, <2>2 DEF Unhook, WriteOriginal, MayFail, PausedInv, FlagInv, KnownInv
  <2>4. pc' = "gone" /\ Alive /\ ~terminating => isWaiting = 0
    BY <1>7 DEF Unhook, KnownInv, LetGoInv, HInv, GoesBack, ResumesLate, Quiet
  <2> QED
    BY <1>0, <1>7, <2>3, <2>4 DEF Unhook, LetGoInv
<1>8. CASE ReleaseHook
  BY <1>0, <1>8
  DEF ReleaseHook, IsTerminateWaiting, Waiting, Missed, PausedInv, FlagInv, KnownInv, LetGoInv
<1>9. CASE ClearAddresses
  BY <1>0, <1>9 DEF ClearAddresses, PausedInv, FlagInv, KnownInv, LetGoInv
<1> QED
  BY <1>1, <1>2, <1>3, <1>4, <1>5, <1>6, <1>7, <1>8, <1>9

\* What a change of the stage is to DumpOnClose.
LEMMA StageMoves ==
  ASSUME UNCHANGED teardown, (teardown /\ pc = "gone")' = (teardown /\ pc = "gone")
  PROVE  /\ Stage' = "gone" => Promise!Next
         /\ pc # "gone" =>
              /\ Stage = "free"    /\ Stage' = "watched" => Promise!Next
              /\ Stage = "watched" /\ Stage' = "paused"  => Promise!Next
              /\ Stage = "paused"  /\ Stage' = "dumped"  => Promise!Next
              /\ Stage = "dumped"  /\ Stage' = "free"    => Promise!Next
              /\ teardown /\ Stage \in {"watched", "paused"} /\ Stage' = "free" =>
                   Promise!Next
         /\ Stage = "watched" /\ Stage' = "paused" => Promise!Next
         /\ Stage' = Stage => UNCHANGED Promise!vars
<1>1. ASSUME NEW from, NEW to, Stage \in from, Stage' = to
      PROVE  Promise!Move(1, from, to)
  BY <1>1 DEF Promise!Move
<1>2. Stage \in Promise!Stages
  BY DEF Stage, Promise!Stages
<1> QED
  BY <1>1, <1>2
  DEF Promise!Next, Promise!Vanish, Promise!Watch, Promise!Pause, Promise!Dump,
      Promise!Release, Promise!Unwatch, Promise!vars

LEMMA TargetMoves ==
  ASSUME HInv, PromiseInv,
         NEW t \in Threads, TargetThread(t) \/ \E a \in Aims : CallTerminate(t, a)
  PROVE  Promise!Next \/ UNCHANGED Promise!vars
<1>1. UNCHANGED <<teardown, pc, terminating, dumped>>
  BY DEF TargetThread, CallTerminate, EnterTerminate, StoreThreadId, StoreIsWaiting,
         SuspendSelf, RestoreAndJump, FaultInHook, Kernel, HookCode, toolVars, fieldVars
<1>2. CASE StoreIsWaiting(t)
  <2>1. Alive /\ tPc[t] = "flag" /\ isWaiting' = 1 /\ UNCHANGED <<life, code>>
    BY <1>2 DEF StoreIsWaiting, HookCode, Runs
  <2>2. ~terminating => code = "redirect"
    BY <2>1 DEF PromiseInv, PausedInv
  <2>3. Stage' = Stage \/ (Stage = "watched" /\ Stage' = "paused")
    BY <1>1, <2>1, <2>2 DEF Stage, Alive
  <2> QED BY <1>1, <2>3, StageMoves
<1>3. CASE RestoreAndJump(t)
  <2>1. Alive /\ terminating /\ UNCHANGED life
    BY <1>3 DEF RestoreAndJump, HookCode, Runs, PromiseInv, PausedInv
  <2>2. Stage' = Stage
    BY <1>1, <2>1 DEF Stage, Alive
  <2> QED BY <1>1, <2>2, StageMoves
<1>4. CASE \/ \E a \in Aims : CallTerminate(t, a)
           \/ EnterTerminate(t) \/ StoreThreadId(t) \/ SuspendSelf(t) \/ FaultInHook(t)
           \/ Kernel(t)
  <2>1. UNCHANGED <<code, isWaiting>> /\ (life' = life \/ ~Alive')
    BY <1>4 DEF CallTerminate, EnterTerminate, StoreThreadId, SuspendSelf, FaultInHook,
                Kernel, HookCode, Alive
  <2>2. Stage' = Stage \/ Stage' = "gone"
    BY <1>1, <2>1 DEF Stage, Alive
  <2> QED BY <1>1, <2>2, StageMoves
<1> QED BY <1>2, <1>3, <1>4 DEF TargetThread

LEMMA ToolMoves ==
  ASSUME HInv, PromiseInv, Prompt = TRUE, Faults \cap {"flag", "id", "restore"} = {},
         Tool \/ Teardown
  PROVE  Promise!Next \/ UNCHANGED Promise!vars
<1> USE DEF fieldVars, targetVars, Goto, Step
<1>1. UNCHANGED life /\ isWaiting \in 0..1
  BY DEF HInv, TypeOK, Tool, HookTerminate, AllocHook, AllocFails, FindExports,
         ExportMissing, ProtectEntry, ProtectFails, ReadOriginal, ReadFails, WriteHook,
         WriteFails, AddRedirect, RedirectFails, GiveUp, Poll, Teardown, DumpAndResume,
         DumpAll, ResumeCheck, ReadThreadId, LowerFlag, ResumeThread, Unhook, ReleaseHook,
         ClearAddresses
<1>2. CASE AddRedirect
  <2>1. /\ pc = "redirect" /\ pc' = "watch" /\ code' = "redirect"
        /\ isWaiting = 0 /\ UNCHANGED <<isWaiting, terminating, dumped, teardown>>
        /\ code = "original"
    BY <1>2 DEF AddRedirect, HInv, HookedLate, Quiet, HookSteps
  <2>2. Stage' = Stage \/ (Stage = "free" /\ Stage' = "watched")
    BY <1>1, <2>1 DEF Stage, Alive
  <2> QED BY <2>1, <2>2, StageMoves
<1>3. CASE HookTerminate /\ ~AddRedirect
  <2>1. /\ pc # "gone" /\ pc' # "gone" /\ isWaiting = 0 /\ isWaiting' = 0
        /\ UNCHANGED <<code, terminating, dumped, teardown>>
    BY <1>3
    DEF HookTerminate, AllocHook, AllocFails, FindExports, ExportMissing, ProtectEntry,
        ProtectFails, ReadOriginal, ReadFails, WriteHook, WriteFails, RedirectFails,
        GiveUp, HInv, HookedLate, Quiet, HookSteps
  <2>2. Stage' = Stage
    BY <1>1, <2>1 DEF Stage, Alive
  <2> QED BY <2>1, <2>2, StageMoves
<1>4. CASE Teardown
  <2>1. /\ pc # "gone" /\ pc' # "gone" /\ teardown' = TRUE
        /\ UNCHANGED <<code, isWaiting, terminating, dumped>>
    BY <1>4 DEF Teardown
  <2>2. Stage' = Stage
    BY <1>1, <2>1 DEF Stage, Alive
  <2>3. Promise!Quit
    BY <2>1, <2>2 DEF Promise!Quit
  <2> QED BY <2>3 DEF Promise!Next
<1>5. CASE Poll \/ DumpAndResume \/ ResumeCheck \/ ReadThreadId \/ ReleaseHook
  <2>1. /\ pc # "gone" /\ pc' # "gone"
        /\ UNCHANGED <<code, isWaiting, terminating, dumped, teardown>>
    BY <1>5
    DEF Poll, DumpAndResume, ResumeCheck, ReadThreadId, ReleaseHook, HInv, TypeOK
  <2>2. Stage' = Stage
    BY <1>1, <2>1 DEF Stage, Alive
  <2> QED BY <2>1, <2>2, StageMoves
<1>6. CASE DumpAll
  <2>1. /\ pc = "dump" /\ pc' = "check" /\ dumped' = TRUE
        /\ UNCHANGED <<code, isWaiting, terminating, teardown>>
    BY <1>6 DEF DumpAll
  <2>2. Alive => isWaiting = 1
    BY <2>1 DEF PromiseInv, FlagInv
  <2>3. Stage' = Stage \/ (Stage = "paused" /\ Stage' = "dumped")
    BY <1>1, <2>1, <2>2 DEF Stage, Alive
  <2> QED BY <2>1, <2>3, StageMoves
<1>7. CASE LowerFlag
  <2>1. /\ pc = "lower" /\ pc' = "resume" /\ isWaiting' \in {0, isWaiting}
        /\ UNCHANGED <<code, dumped, terminating, teardown>>
    BY <1>7 DEF LowerFlag
  <2>2. ~dumped /\ Alive => teardown /\ code # "redirect" /\ isWaiting = 1
    BY <2>1
    DEF PromiseInv, KnownInv, LetGoInv, FlagInv, HInv, ResumesLate, GoesBack, WrittenBack
  <2>3. Stage' = Stage \/ (teardown /\ Stage = "paused" /\ Stage' = "free")
    BY <1>1, <2>1, <2>2 DEF Stage, Alive
  <2> QED BY <2>1, <2>3, StageMoves
<1>8. CASE ResumeThread
  <2>1. /\ pc = "resume" /\ terminating' = TRUE
        /\ UNCHANGED <<code, isWaiting, dumped, teardown>>
        /\ pc' = back /\ pc' # "gone" /\ (dumped \/ teardown)
    BY <1>8 DEF ResumeThread, HInv, TypeOK, ResumesLate, PromiseInv, KnownInv
  <2>2. \/ Stage' = Stage
        \/ Stage = "dumped" /\ Stage' = "free"
        \/ teardown /\ Stage \in {"watched", "paused"} /\ Stage' = "free"
    BY <1>1, <2>1 DEF Stage, Alive
  <2> QED BY <2>1, <2>2, StageMoves
<1>9. CASE Unhook
  <2>1. /\ pc = "unhook" /\ UNCHANGED <<isWaiting, terminating, dumped, teardown>>
        /\ code' = "redirect" => code = "redirect"
        /\ Alive => dumped \/ teardown \/ code # "redirect"
    BY <1>9
    DEF Unhook, WriteOriginal, HInv, TypeOK, ResumesLate, Quiet, PromiseInv, KnownInv
  <2>2. Stage' = Stage \/ (teardown /\ Stage = "watched" /\ Stage' = "free")
    BY <1>1, <2>1 DEF Stage, Alive
  <2>3. teardown => pc' # "gone"
    BY <1>9 DEF Unhook, PromiseInv, KnownInv, HInv, GoesBack
  <2> QED BY <2>1, <2>2, <2>3, StageMoves
<1>10. CASE ClearAddresses
  <2>1. /\ pc = "clear" /\ pc' = "gone"
        /\ UNCHANGED <<code, isWaiting, dumped, terminating, teardown>>
    BY <1>10 DEF ClearAddresses
  <2>2. Stage \in {"gone", "free"} /\ Stage' = Stage
    <3>1. Alive /\ ~terminating => ~dumped /\ isWaiting = 0 /\ code # "redirect"
      BY <2>1 DEF PromiseInv, LetGoInv, KnownInv, HInv, GoesBack, WrittenBack
    <3> QED BY <1>1, <2>1, <3>1 DEF Stage, Alive
  <2>3. teardown => Promise!Finish
    BY <2>1, <2>2 DEF Promise!Finish
  <2>4. ~teardown => UNCHANGED Promise!vars
    BY <2>1, <2>2, StageMoves
  <2> QED BY <2>3, <2>4 DEF Promise!Next
<1> QED
  BY <1>2, <1>3, <1>4, <1>5, <1>6, <1>7, <1>8, <1>9, <1>10 DEF Tool

\* The hook implements what the close monitor builds on, under the usual
\* timing, however many threads call, on whatever, and whenever the tool shuts
\* down, unless a read of the flag or of the id fails, or the write that restores
\* the entry: each of these leaves behind a process that is watched or paused.
\* Whatever other call fails, the promise is kept.
THEOREM Refinement ==
  ASSUME Prompt = TRUE, Faults \cap {"flag", "id", "restore"} = {}
  PROVE  Spec => KeepsPromise
<1>1. Init => PromiseInv /\ Promise!Init
  <2> SUFFICES ASSUME Init PROVE PromiseInv /\ Promise!Init
    OBVIOUS
  <2>1. PromiseInv
    BY DEF Init, PromiseInv, PausedInv, FlagInv, KnownInv, LetGoInv
  <2>2. Stage = "free"
    BY DEF Init, Stage, Alive
  <2> QED BY <2>1, <2>2 DEF Init, Promise!Init
<1>2. HInv /\ PromiseInv /\ [Next]_vars => PromiseInv' /\ [Promise!Next]_(Promise!vars)
  <2> SUFFICES ASSUME HInv, PromiseInv, [Next]_vars
               PROVE  PromiseInv' /\ (Promise!Next \/ UNCHANGED Promise!vars)
    OBVIOUS
  <2>1. CASE UNCHANGED vars
    BY <2>1 DEF vars, targetVars, toolVars, fieldVars, PromiseInv, PausedInv, FlagInv,
                KnownInv, LetGoInv, Alive, Stage, Promise!vars
  <2>2. ASSUME NEW t \in Threads, TargetThread(t) \/ \E a \in Aims : CallTerminate(t, a)
        PROVE  PromiseInv' /\ (Promise!Next \/ UNCHANGED Promise!vars)
    BY <2>2, TargetPromise, TargetMoves
  <2>3. CASE Tool \/ Teardown
    BY <2>3, HookPromise, ToolPromise, ToolMoves DEF Tool
  <2> QED BY <2>1, <2>2, <2>3 DEF Next
<1> QED BY <1>1, <1>2, Invariance, PTL DEF Spec, KeepsPromise, Promise!Spec
=============================================================================
