------------------------- MODULE HashDatabaseProofs -------------------------
(***************************************************************************)
(* Theorems about HashDatabase, for every set of hashes, of commands and   *)
(* of faults, and for any number of runs.                                  *)
(***************************************************************************)
EXTENDS HashDatabase, TLAPS

\* The types that the proofs use.
Types ==
  /\ pc \in {"idle", "load", "stuck", "work", "save", "write", "dump"}
  /\ at \in 1..3 /\ (pc = "idle" => at = 1)
  /\ disk \in [Files -> SUBSET Hashes]
  /\ mem \in [Files -> SUBSET Hashes]
  /\ kept \in [Files -> SUBSET Hashes]
  /\ dropped \in [Files -> SUBSET Hashes]
  /\ pending \subseteq Hashes /\ learned \subseteq Hashes

\* The files whose set in memory is the one the command works on.
Loaded ==
  IF pc = "load" THEN {LoadOrder[i] : i \in 1..(at - 1)}
  ELSE IF pc \in {"work", "save", "write"} THEN Files ELSE {}

\* Memory has what has been saved, as far as the run has not given it up; the
\* file being written has got it, or will.
MemoryHasKept ==
  /\ \A f \in Loaded : kept[f] \ dropped[f] \subseteq mem[f]
  /\ pc = "write" => mem[Saving] \ dropped[Saving] \subseteq disk[Saving] \cup pending

KInv == Types /\ NothingLost /\ MemoryHasKept

\* Before the dump jobs, memory holds only what was taken for clean.
MemoryIsLearned ==
  /\ pc \in {"load", "work", "save", "write"} => \A f \in Files : mem[f] \subseteq learned
  /\ pending \subseteq learned
  /\ pc = "idle" => mem = Nothing

LInv == Types /\ DumpsStayOut /\ MemoryIsLearned

\* A command at work has a save to come.
RoundsLeft == pc \in {"work", "save", "write"} => rounds > 0

TInv == TypeOK /\ at \in 1..3 /\ RoundsLeft
-----------------------------------------------------------------------------
\* What the two orders name: three different files each.
LEMMA Orders ==
  /\ Len(LoadOrder) = 3 /\ Len(SaveOrder) = 3
  /\ \A i \in 1..3 : LoadOrder[i] \in Files /\ SaveOrder[i] \in Files
  /\ LoadOrder[1] = "clean" /\ LoadOrder[2] = "ep" /\ LoadOrder[3] = "epshort"
BY DEF LoadOrder, SaveOrder, Files

\* Every step keeps KInv.
LEMMA KeptStep == KInv /\ [Next]_vars => KInv'
<1> SUFFICES ASSUME KInv, [Next]_vars PROVE KInv'
  OBVIOUS
<1>a. Types /\ Saving \in Files /\ Loading \in Files /\ Nothing \in [Files -> SUBSET Hashes]
  BY Orders DEF KInv, Types, Saving, Loading, Nothing
<1>1. ASSUME NEW c \in Commands, StartTool(c) PROVE KInv'
  BY <1>a, <1>1 DEF KInv, Types, NothingLost, MemoryHasKept, Loaded, StartTool, fileVars, expectVars
<1>2. ASSUME LoadFile PROVE KInv'
  <2>1. /\ pc = "load" /\ UNCHANGED <<disk, pending, kept, dropped, learned>>
        /\ mem' = [mem EXCEPT ![Loading] = disk[Loading]]
    BY <1>2 DEF LoadFile, fileVars, expectVars
  <2>2. \/ at < 3 /\ at' = at + 1 /\ pc' = "load"
        \/ at = 3 /\ at' = 1 /\ pc' \in {"work", "dump"}
    BY <1>a, <1>2, Orders DEF LoadFile, AfterLoad, Types
  <2>3. Types'
    BY <1>a, <2>1, <2>2 DEF Types
  <2>4. NothingLost' /\ kept[Loading] \subseteq disk[Loading]
    BY <1>a, <2>1 DEF KInv, NothingLost
  <2>5. Loaded' \subseteq Loaded \cup {Loading}
    <3>1. CASE at < 3
      BY <1>a, <2>1, <2>2, <3>1 DEF Loaded, Loading, Types
    <3>2. CASE at = 3
      <4>1. Loaded = {LoadOrder[1], LoadOrder[2]} /\ Loading = LoadOrder[3]
        BY <2>1, <3>2 DEF Loaded, Loading
      <4> QED
        BY <2>2, <3>2, <4>1, Orders DEF Loaded, Files
    <3> QED
      BY <2>2, <3>1, <3>2
  <2>6. Loaded' \subseteq Files
    BY <1>a, <2>2, Orders DEF Loaded, Types
  <2>7. MemoryHasKept'
    BY <1>a, <2>1, <2>2, <2>4, <2>5, <2>6 DEF KInv, Types, MemoryHasKept
  <2> QED
    BY <2>3, <2>4, <2>7 DEF KInv
<1>3. ASSUME OpenFails PROVE KInv'
  BY <1>a, <1>3 DEF KInv, Types, NothingLost, MemoryHasKept, Loaded, OpenFails, Leave, fileVars, Nothing
<1>4. ASSUME ReadFails PROVE KInv'
  BY <1>a, <1>4 DEF KInv, Types, NothingLost, MemoryHasKept, Loaded, ReadFails, fileVars, expectVars
<1>5. ASSUME ClearDatabase PROVE KInv'
  BY <1>a, <1>5 DEF KInv, Types, NothingLost, MemoryHasKept, Loaded, ClearDatabase, Work, fileVars, Nothing
<1>6. ASSUME FinishWork PROVE KInv'
  BY <1>a, <1>6 DEF KInv, Types, NothingLost, MemoryHasKept, Loaded, FinishWork, Work, fileVars, expectVars
<1>7. ASSUME NEW hs \in [Files -> Hashes \cup {NoHash}], AddFile(hs) PROVE KInv'
  BY <1>a, <1>7 DEF KInv, Types, NothingLost, MemoryHasKept, Loaded, AddFile, Work, Insert, fileVars
<1>8. ASSUME NEW h \in Hashes, RemoveFile(h) PROVE KInv'
  BY <1>a, <1>8 DEF KInv, Types, NothingLost, MemoryHasKept, Loaded, RemoveFile, Work, fileVars
<1>9. ASSUME OpenForWriting PROVE KInv'
  BY <1>a, <1>9, Orders DEF KInv, Types, NothingLost, MemoryHasKept, Loaded, OpenForWriting, Saving, expectVars
<1>10. ASSUME SaveOpenFails PROVE KInv'
  BY <1>a, <1>10, Orders DEF KInv, Types, NothingLost, MemoryHasKept, Loaded, SaveOpenFails, Saving, AfterSave, fileVars, expectVars
<1>11. ASSUME CloseFile PROVE KInv'
  BY <1>a, <1>11, Orders DEF KInv, Types, NothingLost, MemoryHasKept, Loaded, CloseFile, Saving, AfterSave, fileVars
<1>12. ASSUME NEW h \in Hashes, WriteHash(h) PROVE KInv'
  BY <1>a, <1>12, Orders DEF KInv, Types, NothingLost, MemoryHasKept, Loaded, WriteHash, Saving, expectVars
<1>13. ASSUME NEW h \in Hashes, WriteFails(h) PROVE KInv'
  BY <1>a, <1>13, Orders DEF KInv, Types, NothingLost, MemoryHasKept, Loaded, WriteFails, Saving, fileVars
<1>14. ASSUME IgnoreDatabase PROVE KInv'
  BY <1>a, <1>14 DEF KInv, Types, NothingLost, MemoryHasKept, Loaded, IgnoreDatabase, fileVars, expectVars, Nothing
<1>15. ASSUME NEW h \in Hashes, ExcludeHash(h) PROVE KInv'
  BY <1>a, <1>15 DEF KInv, Types, NothingLost, MemoryHasKept, Loaded, ExcludeHash, fileVars, expectVars
<1>16. ASSUME ExitTool PROVE KInv'
  BY <1>a, <1>16 DEF KInv, Types, NothingLost, MemoryHasKept, Loaded, ExitTool, Leave, fileVars, Nothing
<1>17. ASSUME Kill PROVE KInv'
  BY <1>a, <1>17 DEF KInv, Types, NothingLost, MemoryHasKept, Loaded, Kill, Leave, fileVars, Nothing
<1>18. CASE UNCHANGED vars
  BY <1>18 DEF KInv, Types, NothingLost, MemoryHasKept, Loaded, Saving, Loading, vars, fileVars, toolVars, expectVars
<1> QED
  BY <1>1, <1>2, <1>3, <1>4, <1>5, <1>6, <1>7, <1>8, <1>9, <1>10, <1>11, <1>12, <1>13, <1>14, <1>15, <1>16, <1>17, <1>18 DEF Next, Tool

\* Every step keeps LInv.
LEMMA LearnedStep == LInv /\ [Next]_vars => LInv'
<1> SUFFICES ASSUME LInv, [Next]_vars PROVE LInv'
  OBVIOUS
<1>a. Types /\ Saving \in Files /\ Loading \in Files /\ Nothing \in [Files -> SUBSET Hashes]
  BY Orders DEF LInv, Types, Saving, Loading, Nothing
<1>1. ASSUME NEW c \in Commands, StartTool(c) PROVE LInv'
  BY <1>a, <1>1 DEF LInv, Types, DumpsStayOut, MemoryIsLearned, StartTool, Nothing, fileVars, expectVars
<1>2. ASSUME LoadFile PROVE LInv'
  BY <1>a, <1>2, Orders DEF LInv, Types, DumpsStayOut, MemoryIsLearned, LoadFile, AfterLoad, fileVars, expectVars
<1>3. ASSUME OpenFails PROVE LInv'
  BY <1>a, <1>3 DEF LInv, Types, DumpsStayOut, MemoryIsLearned, OpenFails, Leave, fileVars, Nothing
<1>4. ASSUME ReadFails PROVE LInv'
  BY <1>a, <1>4 DEF LInv, Types, DumpsStayOut, MemoryIsLearned, ReadFails, fileVars, expectVars
<1>5. ASSUME ClearDatabase PROVE LInv'
  BY <1>a, <1>5 DEF LInv, Types, DumpsStayOut, MemoryIsLearned, ClearDatabase, Work, fileVars, Nothing
<1>6. ASSUME FinishWork PROVE LInv'
  BY <1>a, <1>6 DEF LInv, Types, DumpsStayOut, MemoryIsLearned, FinishWork, Work, fileVars, expectVars
<1>7. ASSUME NEW hs \in [Files -> Hashes \cup {NoHash}], AddFile(hs) PROVE LInv'
  BY <1>a, <1>7 DEF LInv, Types, DumpsStayOut, MemoryIsLearned, AddFile, Work, Insert, fileVars
<1>8. ASSUME NEW h \in Hashes, RemoveFile(h) PROVE LInv'
  BY <1>a, <1>8 DEF LInv, Types, DumpsStayOut, MemoryIsLearned, RemoveFile, Work, fileVars
<1>9. ASSUME OpenForWriting PROVE LInv'
  BY <1>a, <1>9 DEF LInv, Types, DumpsStayOut, MemoryIsLearned, OpenForWriting, expectVars
<1>10. ASSUME SaveOpenFails PROVE LInv'
  BY <1>a, <1>10, Orders DEF LInv, Types, DumpsStayOut, MemoryIsLearned, SaveOpenFails, AfterSave, fileVars, expectVars
<1>11. ASSUME CloseFile PROVE LInv'
  BY <1>a, <1>11, Orders DEF LInv, Types, DumpsStayOut, MemoryIsLearned, CloseFile, AfterSave, fileVars
<1>12. ASSUME NEW h \in Hashes, WriteHash(h) PROVE LInv'
  BY <1>a, <1>12 DEF LInv, Types, DumpsStayOut, MemoryIsLearned, WriteHash, expectVars
<1>13. ASSUME NEW h \in Hashes, WriteFails(h) PROVE LInv'
  BY <1>a, <1>13 DEF LInv, Types, DumpsStayOut, MemoryIsLearned, WriteFails, fileVars
<1>14. ASSUME IgnoreDatabase PROVE LInv'
  BY <1>a, <1>14 DEF LInv, Types, DumpsStayOut, MemoryIsLearned, IgnoreDatabase, fileVars, expectVars, Nothing
<1>15. ASSUME NEW h \in Hashes, ExcludeHash(h) PROVE LInv'
  BY <1>a, <1>15 DEF LInv, Types, DumpsStayOut, MemoryIsLearned, ExcludeHash, fileVars, expectVars
<1>16. ASSUME ExitTool PROVE LInv'
  BY <1>a, <1>16 DEF LInv, Types, DumpsStayOut, MemoryIsLearned, ExitTool, Leave, fileVars, Nothing
<1>17. ASSUME Kill PROVE LInv'
  BY <1>a, <1>17 DEF LInv, Types, DumpsStayOut, MemoryIsLearned, Kill, Leave, fileVars, Nothing
<1>18. CASE UNCHANGED vars
  BY <1>18 DEF LInv, Types, DumpsStayOut, MemoryIsLearned, Saving, Loading, vars, fileVars, toolVars, expectVars
<1> QED
  BY <1>1, <1>2, <1>3, <1>4, <1>5, <1>6, <1>7, <1>8, <1>9, <1>10, <1>11, <1>12, <1>13, <1>14, <1>15, <1>16, <1>17, <1>18 DEF Next, Tool

\* Every step keeps TInv.
LEMMA TypeStep == TInv /\ [Next]_vars => TInv'
<1> SUFFICES ASSUME TInv, [Next]_vars PROVE TInv'
  OBVIOUS
<1>a. TypeOK /\ Saving \in Files /\ Loading \in Files /\ Nothing \in [Files -> SUBSET Hashes]
  BY Orders DEF TInv, TypeOK, Saving, Loading, Nothing
<1>1. ASSUME NEW c \in Commands, StartTool(c) PROVE TInv'
  BY <1>a, <1>1 DEF TInv, TypeOK, RoundsLeft, StartTool, Rounds, fileVars, expectVars
<1>2. ASSUME LoadFile PROVE TInv'
  BY <1>a, <1>2, Orders DEF TInv, TypeOK, RoundsLeft, LoadFile, AfterLoad, fileVars, expectVars
<1>3. ASSUME OpenFails PROVE TInv'
  BY <1>a, <1>3 DEF TInv, TypeOK, RoundsLeft, OpenFails, Leave, fileVars, Nothing
<1>4. ASSUME ReadFails PROVE TInv'
  BY <1>a, <1>4 DEF TInv, TypeOK, RoundsLeft, ReadFails, fileVars, expectVars
<1>5. ASSUME ClearDatabase PROVE TInv'
  BY <1>a, <1>5 DEF TInv, TypeOK, RoundsLeft, ClearDatabase, Work, fileVars, Nothing
<1>6. ASSUME FinishWork PROVE TInv'
  BY <1>a, <1>6 DEF TInv, TypeOK, RoundsLeft, FinishWork, Work, fileVars, expectVars
<1>7. ASSUME NEW hs \in [Files -> Hashes \cup {NoHash}], AddFile(hs) PROVE TInv'
  BY <1>a, <1>7 DEF TInv, TypeOK, RoundsLeft, AddFile, Work, Insert, fileVars
<1>8. ASSUME NEW h \in Hashes, RemoveFile(h) PROVE TInv'
  BY <1>a, <1>8 DEF TInv, TypeOK, RoundsLeft, RemoveFile, Work, fileVars
<1>9. ASSUME OpenForWriting PROVE TInv'
  BY <1>a, <1>9 DEF TInv, TypeOK, RoundsLeft, OpenForWriting, expectVars
<1>10. ASSUME SaveOpenFails PROVE TInv'
  BY <1>a, <1>10, Orders DEF TInv, TypeOK, RoundsLeft, SaveOpenFails, AfterSave, fileVars, expectVars
<1>11. ASSUME CloseFile PROVE TInv'
  BY <1>a, <1>11, Orders DEF TInv, TypeOK, RoundsLeft, CloseFile, AfterSave, fileVars
<1>12. ASSUME NEW h \in Hashes, WriteHash(h) PROVE TInv'
  BY <1>a, <1>12 DEF TInv, TypeOK, RoundsLeft, WriteHash, expectVars
<1>13. ASSUME NEW h \in Hashes, WriteFails(h) PROVE TInv'
  BY <1>a, <1>13 DEF TInv, TypeOK, RoundsLeft, WriteFails, fileVars
<1>14. ASSUME IgnoreDatabase PROVE TInv'
  BY <1>a, <1>14 DEF TInv, TypeOK, RoundsLeft, IgnoreDatabase, fileVars, expectVars, Nothing
<1>15. ASSUME NEW h \in Hashes, ExcludeHash(h) PROVE TInv'
  BY <1>a, <1>15 DEF TInv, TypeOK, RoundsLeft, ExcludeHash, fileVars, expectVars
<1>16. ASSUME ExitTool PROVE TInv'
  BY <1>a, <1>16 DEF TInv, TypeOK, RoundsLeft, ExitTool, Leave, fileVars, Nothing
<1>17. ASSUME Kill PROVE TInv'
  BY <1>a, <1>17 DEF TInv, TypeOK, RoundsLeft, Kill, Leave, fileVars, Nothing
<1>18. CASE UNCHANGED vars
  BY <1>18 DEF TInv, TypeOK, RoundsLeft, Saving, Loading, Rounds, vars, fileVars, toolVars, expectVars
<1> QED
  BY <1>1, <1>2, <1>3, <1>4, <1>5, <1>6, <1>7, <1>8, <1>9, <1>10, <1>11, <1>12, <1>13, <1>14, <1>15, <1>16, <1>17, <1>18 DEF Next, Tool

-----------------------------------------------------------------------------
\* Type correctness.
THEOREM TypeCorrect == Spec => []TypeOK
<1>1. Init => TInv
  BY DEF Init, TInv, TypeOK, RoundsLeft, Nothing
<1> QED
  BY <1>1, TypeStep, PTL DEF Spec, TInv

\* A hash that has been saved stays in its file until it is removed, through
\* all failures and kills of later runs, but for the one file a killed run was
\* writing (pe_hash_database: constructor and save).
THEOREM NothingIsLost == Spec => []NothingLost
<1>1. Init => KInv
  BY DEF Init, KInv, Types, NothingLost, MemoryHasKept, Loaded, Nothing
<1> QED
  BY <1>1, KeptStep, PTL DEF Spec, KInv

\* What a dump job excludes for its own run reaches no file.
THEOREM DumpedStaysOut == Spec => []DumpsStayOut
<1>1. Init => LInv
  BY DEF Init, LInv, Types, DumpsStayOut, MemoryIsLearned, Nothing
<1> QED
  BY <1>1, LearnedStep, PTL DEF Spec, LInv
=============================================================================
