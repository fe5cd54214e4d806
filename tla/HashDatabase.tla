---------------------------- MODULE HashDatabase ----------------------------
(***************************************************************************)
(* class pe_hash_database and its three files, over several runs of the    *)
(* tool: loading, the "-db" commands of _tmain, saving, and the hashes     *)
(* that the dump jobs exclude for the rest of their run.                   *)
(*                                                                         *)
(* One run follows the other; each may be killed at any step.  A save      *)
(* truncates a file and writes it hash by hash.                            *)
(***************************************************************************)
EXTENDS Naturals, Sequences

CONSTANTS
  Hashes,
  Commands,  \* "-db" commands given; "none" is a run without one
  Faults,    \* system calls that may fail
  MaxRuns,   \* bound: runs of the tool
  NoHash     \* the hash 0 of what could not be parsed

ASSUME HashDatabaseAssumption ==
  /\ Commands \subseteq {"clean", "add", "remove", "gen", "genquick", "none"}
  /\ Faults \subseteq {"open", "read", "write"}
  /\ MaxRuns \in Nat
  /\ NoHash \notin Hashes

LoadOrder == <<"clean", "ep", "epshort">>
SaveOrder == <<"ep", "epshort", "clean">>
Files     == {"ep", "epshort", "clean"}

\* How often a command saves.
Rounds(c) == CASE c = "none" -> 0 [] c = "gen" -> 5 [] OTHER -> 1

VARIABLES
  \* --- the files ---
  exists,   \* files that exist
  disk,     \* per file: the hashes in it
  \* --- the tool ---
  runs, cmd, pc,
  at,       \* index of the file being loaded or saved
  rounds,   \* saves that the command has still to make
  mem,      \* per file: the set in memory
  pending,  \* hashes of the file being saved still to be written
  \* --- what is expected (never read by the tool) ---
  kept,     \* per file: hashes that have been saved and not given up since
  dropped,  \* per file: hashes the run removes, or has failed to write
  learned   \* hashes that a "-db" command has taken for clean

fileVars   == <<exists, disk>>
toolVars   == <<runs, cmd, pc, at, rounds, mem, pending>>
expectVars == <<kept, dropped, learned>>
vars == <<fileVars, toolVars, expectVars>>

Nothing   == [f \in Files |-> {}]
Loading   == LoadOrder[at]
Saving    == SaveOrder[at]
Insert(sets, hs) == [f \in Files |-> sets[f] \cup ({hs[f]} \ {NoHash})]

Init ==
  /\ exists = {} /\ disk = Nothing
  /\ runs = 0 /\ cmd = "none" /\ pc = "idle" /\ at = 1 /\ rounds = 0
  /\ mem = Nothing /\ pending = {}
  /\ kept = Nothing /\ dropped = Nothing /\ learned = {}

\* The tool ends; what it had in memory is gone.
Leave ==
  /\ pc' = "idle" /\ cmd' = "none" /\ at' = 1 /\ rounds' = 0
  /\ mem' = Nothing /\ pending' = {} /\ dropped' = Nothing
  /\ UNCHANGED runs

-----------------------------------------------------------------------------
(* Loading: the constructor of pe_hash_database.                           *)

StartTool(c) ==
  /\ pc = "idle" /\ runs < MaxRuns
  /\ pc' = "load" /\ runs' = runs + 1
  /\ cmd' = c /\ rounds' = Rounds(c)
  /\ UNCHANGED <<fileVars, at, mem, pending, expectVars>>

\* On to the next file, then to the command.
AfterLoad ==
  IF at < Len(LoadOrder)
  THEN at' = at + 1 /\ UNCHANGED pc
  ELSE at' = 1 /\ pc' = IF rounds > 0 THEN "work" ELSE "dump"

LoadFile ==
  /\ pc = "load"
  /\ mem' = [mem EXCEPT ![Loading] = disk[Loading]]
  /\ AfterLoad
  /\ UNCHANGED <<fileVars, runs, cmd, rounds, pending, expectVars>>

\* Mutant of OpenFails: an empty database is used.
OpenFailsIgnored ==
  /\ pc = "load" /\ "open" \in Faults
  /\ Loading \in exists
  /\ AfterLoad
  /\ UNCHANGED <<fileVars, runs, cmd, rounds, mem, pending, expectVars>>

\* The file exists and cannot be opened: exit(-1).
OpenFails ==
  /\ pc = "load" /\ "open" \in Faults
  /\ Loading \in exists
  /\ Leave
  /\ UNCHANGED <<fileVars, kept, learned>>

\* A read error does not set the end-of-file mark the loop waits for.
ReadFails ==
  /\ pc = "load" /\ "read" \in Faults
  /\ Loading \in exists
  /\ pc' = "stuck"
  /\ UNCHANGED <<fileVars, runs, cmd, at, rounds, mem, pending, expectVars>>

-----------------------------------------------------------------------------
(* The "-db" commands.                                                     *)

Work(commands) == pc = "work" /\ cmd \in commands

ClearDatabase ==
  /\ Work({"clean"})
  /\ mem' = Nothing
  /\ dropped' = [f \in Files |-> Hashes]
  /\ pc' = "save"
  /\ UNCHANGED <<fileVars, runs, cmd, at, rounds, pending, kept, learned>>

\* Mutant of AddFile: the test for the hash 0 is dropped.
AddFileZero(hs) ==
  /\ Work({"add", "gen", "genquick"})
  /\ mem' = [f \in Files |-> mem[f] \cup {hs[f]}]
  /\ learned' = learned \cup {hs[f] : f \in Files}
  /\ UNCHANGED <<fileVars, runs, cmd, pc, at, rounds, pending, kept, dropped>>

\* add_file for one file of a folder, and add_hashes with add_hashes_eps for
\* one module of a process: each of the three hashes may be missing.
AddFile(hs) ==
  /\ Work({"add", "gen", "genquick"})
  /\ mem' = Insert(mem, hs)
  /\ learned' = learned \cup ({hs[f] : f \in Files} \ {NoHash})
  /\ UNCHANGED <<fileVars, runs, cmd, pc, at, rounds, pending, kept, dropped>>

\* remove_file: the entry-point hashes stay.
RemoveFile(h) ==
  /\ Work({"remove"})
  /\ mem' = [mem EXCEPT !["clean"] = @ \ {h}]
  /\ dropped' = [dropped EXCEPT !["clean"] = @ \cup {h}]
  /\ UNCHANGED <<fileVars, runs, cmd, pc, at, rounds, pending, kept, learned>>

FinishWork ==
  /\ Work({"add", "remove", "gen", "genquick"})
  /\ pc' = "save"
  /\ UNCHANGED <<fileVars, runs, cmd, at, rounds, mem, pending, expectVars>>

-----------------------------------------------------------------------------
(* Saving.                                                                 *)

OpenForWriting ==
  /\ pc = "save"
  /\ exists' = exists \cup {Saving}
  /\ disk' = [disk EXCEPT ![Saving] = {}]
  /\ pending' = mem[Saving]
  /\ pc' = "write"
  /\ UNCHANGED <<runs, cmd, at, rounds, mem, expectVars>>

\* On to the next file, the next part of the command, or the dump jobs.
AfterSave ==
  IF at < Len(SaveOrder)
  THEN at' = at + 1 /\ pc' = "save" /\ UNCHANGED rounds
  ELSE /\ at' = 1 /\ rounds' = rounds - 1
       /\ pc' = IF rounds > 1 THEN "work" ELSE "dump"

\* The file stays as it is; the other files are saved all the same.
SaveOpenFails ==
  /\ pc = "save" /\ "open" \in Faults
  /\ AfterSave
  /\ UNCHANGED <<fileVars, runs, cmd, mem, pending, expectVars>>

WriteHash(h) ==
  /\ pc = "write" /\ h \in pending
  /\ disk' = [disk EXCEPT ![Saving] = @ \cup {h}]
  /\ pending' = pending \ {h}
  /\ UNCHANGED <<exists, runs, cmd, pc, at, rounds, mem, expectVars>>

\* The result of fwrite is not looked at.
WriteFails(h) ==
  /\ pc = "write" /\ h \in pending /\ "write" \in Faults
  /\ pending' = pending \ {h}
  /\ dropped' = [dropped EXCEPT ![Saving] = @ \cup {h}]
  /\ UNCHANGED <<fileVars, runs, cmd, pc, at, rounds, mem, kept, learned>>

CloseFile ==
  /\ pc = "write" /\ pending = {}
  /\ kept' = [kept EXCEPT ![Saving] = (@ \cup mem[Saving]) \ dropped[Saving]]
  /\ dropped' = [dropped EXCEPT ![Saving] = {}]
  /\ AfterSave
  /\ UNCHANGED <<fileVars, runs, cmd, mem, pending, learned>>

-----------------------------------------------------------------------------
(* The rest of the run.                                                    *)

\* "-db ignore".
IgnoreDatabase ==
  /\ pc = "dump"
  /\ mem' = Nothing
  /\ UNCHANGED <<fileVars, runs, cmd, pc, at, rounds, pending, expectVars>>

\* A dump job excludes a module it has dumped.  (Of the commands, only
\* "remove" may be given together with a dump job.)
ExcludeHash(h) ==
  /\ pc = "dump" /\ cmd \in {"none", "remove"}
  /\ mem' = [mem EXCEPT !["clean"] = @ \cup {h}]
  /\ UNCHANGED <<fileVars, runs, cmd, pc, at, rounds, pending, expectVars>>

\* Mutant of ExitTool: the database is saved at the end of every run.
ExitSaves ==
  /\ pc = "dump" /\ rounds = 0
  /\ pc' = "save" /\ rounds' = 1
  /\ UNCHANGED <<fileVars, runs, cmd, at, mem, pending, expectVars>>

ExitTool ==
  /\ pc = "dump"
  /\ Leave
  /\ UNCHANGED <<fileVars, kept, learned>>

\* The tool is killed, or the system goes down.  What the file being written
\* has not yet got is lost.
Kill ==
  /\ pc # "idle"
  /\ Leave
  /\ kept' = [f \in Files |-> IF pc = "write" /\ f = Saving
                              THEN kept[f] \cap disk[f] ELSE kept[f]]
  /\ UNCHANGED <<fileVars, learned>>

Tool ==
  \/ LoadFile \/ OpenFails \/ ReadFails
  \/ ClearDatabase \/ FinishWork
  \/ (\E hs \in [Files -> Hashes \cup {NoHash}] : AddFile(hs))
  \/ (\E h \in Hashes : RemoveFile(h))
  \/ OpenForWriting \/ SaveOpenFails \/ CloseFile
  \/ (\E h \in Hashes : WriteHash(h) \/ WriteFails(h))
  \/ IgnoreDatabase \/ (\E h \in Hashes : ExcludeHash(h))
  \/ ExitTool

Next == (\E c \in Commands : StartTool(c)) \/ Tool \/ Kill

Spec == Init /\ [][Next]_vars
-----------------------------------------------------------------------------
(* Properties.                                                             *)

TypeOK ==
  /\ exists \subseteq Files /\ disk \in [Files -> SUBSET Hashes]
  /\ runs \in Nat /\ cmd \in Commands \cup {"none"}
  /\ pc \in {"idle", "load", "stuck", "work", "save", "write", "dump"}
  /\ at \in 1..3 /\ rounds \in 0..5
  /\ mem \in [Files -> SUBSET Hashes] /\ pending \subseteq Hashes
  /\ kept \in [Files -> SUBSET Hashes] /\ dropped \in [Files -> SUBSET Hashes]
  /\ learned \subseteq Hashes

\* A hash that has been saved stays in its file until a command removes it,
\* whatever fails in later runs: a run killed in a save damages the one file
\* it is writing, and a run that could not open a file does not replace it
\* ("This is to protect the contents of the database from being
\* overwritten").
NothingLost ==
  \A f \in Files : (pc = "write" /\ f = Saving) \/ kept[f] \subseteq disk[f]

\* No hash that a dump job has put into the database in memory reaches a
\* file: what has been dumped once must not be taken for clean in other runs.
DumpsStayOut == \A f \in Files : disk[f] \subseteq learned
=============================================================================
