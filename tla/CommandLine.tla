----------------------------- MODULE CommandLine -----------------------------
(* The tool as it is called (_tmain): its arguments are read from left to    *)
(* right, checked, and turned into work that is done step by step: commands  *)
(* for the clean-hash database, then a dump.  The folders of a command are   *)
(* gone through by FolderWalk; what HashDatabase, SystemHashes, SystemDump,  *)
(* CloseWatcher and MemoryScan model in detail is one step here.             *)
EXTENDS FolderWalk

CONSTANTS CommandLines, \* sequences of arguments
          Number,     \* argument -> its number, if it begins with one
          FolderOf,   \* argument -> folder, if there is one that opens
          MatchesOf,  \* argument -> names it matches, if it is a regular expression
          Processes,  \* the running processes in the order of a snapshot:
                      \* [pid, name, hashes]
          GenFolders, \* the folders of "-db gen"
          Disks,      \* hashes in the files of the database at the start
          Threads     \* the default number of threads

ASSUME CommandLineAssumption ==
    /\ \A a \in DOMAIN FolderOf : FolderOf[a] \in Dirs
    /\ GenFolders \in Seq(Dirs)
    /\ DOMAIN Processes \subseteq Nat \ {0}
    /\ \A j, k \in DOMAIN Processes : Processes[j].pid = Processes[k].pid => j = k

VARIABLES
    args, i,   \* argv and the argument to be read next
    flags,     \* flags that are set
    values,    \* what came with an option
    pc, step,  \* where the tool is: the part of its work and the step in it
    matches,   \* the processes found by name that are still to be dumped
    disk,      \* the files of the database
    alive,     \* processes that have not ended
    dumped,    \* the dumps: <<process, hash>>
    regions,   \* the dumps of an address
    disk0,     \* history: the files before the tool ran
    ended      \* history: processes that ended during the run

lineVars == <<args, i, flags, values>>
jobVars == <<disk, alive, dumped, regions>>
workVars == <<pc, step, matches>>
vars == <<lineVars, workVars, jobVars, disk0, ended, walkVars>>

NoValues == [pid |-> -1, address |-> 0, threads |-> Threads, name |-> "",
             folder |-> "none", files |-> {}]

Init == /\ args \in CommandLines /\ i = 1 /\ flags = {} /\ values = NoValues
        /\ pc = "parse" /\ step = 1 /\ matches = {}
        /\ disk0 \in Disks /\ disk = disk0
        /\ alive = DOMAIN Processes /\ ended = {} /\ dumped = {} /\ regions = {}
        /\ WalkInit

-----------------------------------------------------------------------------
(* The arguments.                                                            *)

Flags == {"-h", "-nh", "-nr", "-ni", "-nc", "-nep", "-nt", "-eprec", "-closemon", "-v",
          "-g", "-system"}
NumberOptions == {"-pid", "-a", "-t"}
TextOptions == {"-p", "-c", "-edb", "-esdb", "-o"}
FolderCommands == {"add", "remove"}
DbWords == {"gen", "genquick", "clean", "ignore"}

Parsing == pc = "parse" /\ i <= Len(args)
Arg == args[i]
HasValue(n) == i + n <= Len(args)
Exit == /\ pc' = "exit"
        /\ UNCHANGED <<lineVars, step, matches, jobVars, disk0, ended, walkVars>>
\* A loop or a wait of the tool's that does not end.
Hang(where) == /\ pc' = where
               /\ UNCHANGED <<lineVars, step, matches, disk, alive, regions, disk0,
                              ended, walkVars>>
Parsed(n) == i' = i + n /\ UNCHANGED <<args, workVars, jobVars, disk0, ended, walkVars>>

ParseFlag ==
    /\ Parsing /\ Arg \in Flags
    /\ flags' = flags \cup {Arg}
    /\ values' = IF Arg = "-nt" THEN [values EXCEPT !.threads = 1] ELSE values
    /\ Parsed(1)

\* The number that follows; there has to be a thread.
IsNumber == HasValue(1) /\ args[i + 1] \in DOMAIN Number
ParseNumber ==
    /\ Parsing /\ Arg \in NumberOptions /\ IsNumber
    /\ Arg = "-t" => Number[args[i + 1]] >= 1
    /\ flags' = flags \cup {Arg}
    /\ values' = LET n == Number[args[i + 1]]
                 IN  CASE Arg = "-pid" -> [values EXCEPT !.pid = n]
                       [] Arg = "-a"   -> [values EXCEPT !.address = n]
                       [] Arg = "-t"   -> [values EXCEPT !.threads = n]
    /\ Parsed(2)

\* A path or an expression is taken as it is, even if it looks like an option.
ParseText ==
    /\ Parsing /\ Arg \in TextOptions /\ HasValue(1)
    /\ flags' = flags \cup {Arg}
    /\ values' = IF Arg = "-p" THEN [values EXCEPT !.name = args[i + 1]]
                 ELSE [values EXCEPT !.files = @ \cup {<<Arg, args[i + 1]>>}]
    /\ Parsed(2)

\* The folder of a command is opened and closed again; the last one counts, whatever
\* command it came with.
ParseFolder ==
    /\ Parsing /\ Arg = "-db" /\ HasValue(2)
    /\ args[i + 1] \in FolderCommands /\ args[i + 2] \in DOMAIN FolderOf
    /\ flags' = flags \cup {args[i + 1]}
    /\ values' = [values EXCEPT !.folder = FolderOf[args[i + 2]]]
    /\ Parsed(3)

\* A word that is no command is passed over.
ParseDb ==
    /\ Parsing /\ Arg = "-db" /\ HasValue(1) /\ args[i + 1] \notin FolderCommands
    /\ flags' = flags \cup ({args[i + 1]} \cap DbWords)
    /\ UNCHANGED values
    /\ Parsed(2)

\* What follows is missing or is not what it should be, or the argument is unknown.
RefuseArgument ==
    /\ Parsing
    /\ \/ Arg \in NumberOptions /\ ~IsNumber
       \/ Arg = "-t" /\ IsNumber /\ Number[args[i + 1]] < 1
       \/ Arg \in TextOptions \cup {"-db"} /\ ~HasValue(1)
       \/ /\ Arg = "-db" /\ HasValue(1) /\ args[i + 1] \in FolderCommands
          /\ HasValue(2) => args[i + 2] \notin DOMAIN FolderOf
       \/ Arg \notin Flags \cup NumberOptions \cup TextOptions \cup {"-db"}
    /\ Exit

-----------------------------------------------------------------------------
(* The work.                                                                 *)

\* Only one of these at a time; "remove" is not among them.
Jobs == {"-pid", "-p", "-system", "-closemon", "gen", "genquick", "add", "clean"}
Sane == Cardinality(flags \cap Jobs) <= 1 /\ ("-a" \in flags => "-pid" \in flags)

RefuseFlags == pc = "parse" /\ i > Len(args) /\ ~Sane /\ Exit

Step(what) == [what |-> what, dir |-> "none", deep |-> FALSE]
Folder(what, dir, deep) == [what |-> what, dir |-> dir, deep |-> deep]
Deep == "-nr" \notin flags

\* "-db gen" takes the processes and then each of its folders, and saves after each.
GenSteps == [n \in 1 .. 2 + 2 * Len(GenFolders) |->
                IF n = 1 THEN Step("hashes")
                ELSE IF n % 2 = 0 THEN Step("save")
                ELSE Folder("add", GenFolders[(n - 1) \div 2], TRUE)]
DbSteps == CASE "clean" \in flags    -> <<Step("clear"), Step("save")>>
             [] "clean" \notin flags /\ "add" \in flags ->
                    <<Folder("add", values.folder, Deep), Step("save")>>
             [] flags \cap {"clean", "add"} = {} /\ "remove" \in flags ->
                    <<Folder("remove", values.folder, Deep), Step("save")>>
             [] flags \cap {"clean", "add", "remove"} = {} /\ "gen" \in flags -> GenSteps
             [] flags \cap {"clean", "add", "remove", "gen"} = {} /\ "genquick" \in flags ->
                    <<Step("hashes"), Step("save")>>
             [] OTHER -> << >>
DumpSteps == CASE "-pid" \in flags /\ "-a" \in flags    -> <<Step("region")>>
               [] "-pid" \in flags /\ "-a" \notin flags -> <<Step("pid")>>
               [] "-p" \in flags        -> <<Step("find"), Step("ask"), Step("dump"), Step("collect")>>
               [] "-system" \in flags   -> <<Step("system")>>
               [] "-closemon" \in flags -> <<Step("closemon")>>
               [] OTHER -> << >>
Steps == IF pc = "commands" THEN DbSteps ELSE DumpSteps

Working == pc \in {"commands", "dumps"}
Doing(what) == Working /\ step <= Len(Steps) /\ Steps[step].what = what /\ walk.state = "idle"
GoOn(s) == step' = s /\ UNCHANGED <<lineVars, pc, disk0, ended>>
Done == GoOn(step + 1) /\ UNCHANGED matches
WithDb(hs) == db' = hs /\ UNCHANGED <<walk, stack, entry, handles, before, skipped>>

\* pe_hash_database is loaded, and the work begins.
ArgumentsRead == pc = "parse" /\ i > Len(args) /\ Sane
StartWork ==
    /\ ArgumentsRead
    /\ WithDb(disk) /\ pc' = "commands"
    /\ UNCHANGED <<lineVars, step, matches, jobVars, disk0, ended>>

\* A file of the database is there and does not open.
LoadFails == ArgumentsRead /\ "load" \in Faults /\ Exit
\* A read of it fails: feof never holds.
LoadHangs == ArgumentsRead /\ "disk" \in Faults /\ Hang("loading") /\ UNCHANGED dumped

\* The commands are done; "-db ignore" gives up what is in memory.
StartDumps ==
    /\ pc = "commands" /\ step > Len(Steps)
    /\ WithDb(IF "ignore" \in flags THEN {} ELSE db)
    /\ pc' = "dumps" /\ step' = 1
    /\ UNCHANGED <<lineVars, matches, jobVars, disk0, ended>>

ClearDatabase == Doing("clear") /\ WithDb({}) /\ UNCHANGED jobVars /\ Done

\* The walk over a folder, from its call to its return.
StartFolder ==
    /\ Doing("add") \/ Doing("remove")
    /\ BeginWalk(Steps[step].what, Steps[step].dir, Steps[step].deep)
    /\ UNCHANGED <<lineVars, workVars, jobVars, disk0, ended>>
WalkFolder == Working /\ Walk /\ UNCHANGED <<lineVars, workVars, jobVars, disk0, ended>>
EndFolder ==
    /\ Working /\ Walking("done")
    /\ walk' = NoWalk
    /\ UNCHANGED <<stack, entry, handles, db, before, skipped, jobVars>>
    /\ Done
FolderEndsTool == Working /\ NameEndsTool /\ Exit

SaveDatabase ==
    /\ Doing("save")
    /\ disk' = db /\ UNCHANGED <<alive, dumped, regions, walkVars>>
    /\ Done

\* A snapshot is read without its first process.
Listed == alive \ {1}
HashesOf(k) == IF k \in alive THEN Processes[k].hashes \ {NoHash} ELSE {}

AddSystemHashes ==
    /\ Doing("hashes") /\ WithDb(db \cup UNION {HashesOf(k) : k \in Listed})
    /\ UNCHANGED jobVars /\ Done

\* dump_all of the processes in ks: what the database does not hold.
DumpAll(ks) == dumped' = dumped \cup UNION {{k} \X (HashesOf(k) \ db) : k \in ks}
Asked == {k \in alive : Processes[k].pid = values.pid}

DumpPid == /\ Doing("pid") /\ DumpAll(Asked)
           /\ UNCHANGED <<disk, alive, regions, walkVars>> /\ Done
DumpRegion == /\ Doing("region")
              /\ regions' = regions \cup {<<k, values.address>> : k \in Asked}
              /\ UNCHANGED <<disk, alive, dumped, walkVars>> /\ Done

\* process_find: nothing is found if the expression is not one.  If several are found
\* the user is asked.
Found == IF values.name \in DOMAIN MatchesOf
         THEN {k \in Listed : Processes[k].name \in MatchesOf[values.name]} ELSE {}
FindProcesses ==
    /\ Doing("find")
    /\ matches' = Found
    /\ GoOn(IF Cardinality(Found) > 1 THEN step + 1 ELSE step + 2)
    /\ UNCHANGED <<jobVars, walkVars>>
AnswerYes == Doing("ask") /\ UNCHANGED <<jobVars, walkVars>> /\ Done
AnswerNo == Doing("ask") /\ Exit

\* In the order of the list, each is dumped, and its hashes are excluded from the
\* dumps of the next.
Foremost(k) == k \in matches /\ \A j \in matches : k <= j
DumpMatch(k) == /\ Doing("dump") /\ Foremost(k)
                /\ DumpAll({k}) /\ UNCHANGED <<disk, alive, regions, walkVars>>
                /\ Done
\* Mutant: the hashes are thrown away before they are added.
CollectNothing(k) == /\ Doing("collect") /\ Foremost(k)
                     /\ UNCHANGED <<jobVars, walkVars>>
                     /\ matches' = matches \ {k} /\ GoOn(step - 1)
CollectMatch(k) == /\ Doing("collect") /\ Foremost(k)
                   /\ WithDb(db \cup HashesOf(k)) /\ UNCHANGED jobVars
                   /\ matches' = matches \ {k} /\ GoOn(step - 1)
EndMatches == /\ Doing("dump") /\ matches = {}
              /\ GoOn(step + 2) /\ UNCHANGED <<matches, jobVars, walkVars>>

DumpSystem == /\ Doing("system") /\ DumpAll(Listed)
              /\ UNCHANGED <<disk, alive, regions, walkVars>> /\ Done
\* All workers have left before the main thread looks (SystemDump, EndsOrHangs).
SystemHangs == Doing("system") /\ DumpAll(Listed) /\ Hang("dumping")

\* CTRL-C ends the close monitor, or it waits for a queue that no worker is left to
\* empty (CloseWatcher, QuitAlways).
QuitMonitor == Doing("closemon") /\ UNCHANGED <<jobVars, walkVars>> /\ Done
QuitHangs == Doing("closemon") /\ Hang("quitting") /\ UNCHANGED dumped

Finish ==
    /\ pc = "dumps" /\ step > Len(Steps) /\ pc' = "end"
    /\ UNCHANGED <<lineVars, step, matches, jobVars, disk0, ended, walkVars>>

-----------------------------------------------------------------------------

\* The first process, the idle process of the system, never ends.
ProcessEnds(k) ==
    /\ Working /\ k \in alive \ {1}
    /\ alive' = alive \ {k} /\ ended' = ended \cup {k}
    /\ UNCHANGED <<lineVars, workVars, disk, dumped, regions, disk0, walkVars>>

Parse == \/ ParseFlag \/ ParseNumber \/ ParseText \/ ParseFolder \/ ParseDb
         \/ RefuseArgument \/ RefuseFlags \/ StartWork
         \/ LoadFails \/ LoadHangs
DbCommand == \/ ClearDatabase \/ StartFolder \/ WalkFolder \/ EndFolder \/ FolderEndsTool
             \/ SaveDatabase \/ AddSystemHashes \/ StartDumps
Dump == \/ DumpPid \/ DumpRegion \/ FindProcesses \/ EndMatches
        \/ (\E k \in matches : DumpMatch(k) \/ CollectMatch(k))
        \/ DumpSystem \/ SystemHangs \/ Finish
Tool == Parse \/ DbCommand \/ Dump
User == AnswerYes \/ AnswerNo \/ QuitMonitor \/ QuitHangs
Hung == pc \in {"loading", "dumping", "quitting"}
Over == (pc \in {"end", "exit"} \/ Hung) /\ UNCHANGED vars

Next == Tool \/ User \/ (\E k \in DOMAIN Processes : ProcessEnds(k)) \/ Over
\* The tool goes on; nobody says that the user does.
Spec == Init /\ [][Next]_vars /\ WF_vars(Tool)

-----------------------------------------------------------------------------
(* Properties.                                                               *)

\* A dump holds what was asked for: every module of every process that was named, except
\* those that the database held when the tool was started or has taken in, all of
\* them with "-db ignore", and no module twice in several processes; and the files of
\* the database are what the commands have made of them, "-db ignore" or not.  (When
\* no process ended while the tool ran.)
Wanted == IF "-p" \in flags THEN (IF values.name \in DOMAIN MatchesOf
              THEN {k \in DOMAIN Processes : k > 1 /\ Processes[k].name \in MatchesOf[values.name]}
              ELSE {})
          ELSE IF flags \cap {"-pid", "-a"} = {"-pid"}
               THEN {k \in DOMAIN Processes : Processes[k].pid = values.pid} ELSE {}
Excluded == IF "ignore" \in flags THEN {NoHash} ELSE disk \cup {NoHash}
DumpsAsAsked ==
    pc = "end" /\ ended = {} /\ "-system" \notin flags =>
        /\ \A d \in dumped : d[1] \in Wanted
        /\ \A k \in Wanted : \A h \in Processes[k].hashes \ Excluded :
               \E j \in Wanted : {l \in Wanted : <<l, h>> \in dumped} = {j}
        /\ \A d \in dumped : d[2] \notin Excluded
        /\ flags \cap {"gen", "genquick", "add", "clean", "remove"} = {} => disk = disk0
        /\ flags \cap {"clean", "remove"} = {} => disk0 \subseteq disk

\* The tool comes to its end, or it waits for the user: for an answer, or for CTRL-C,
\* or it hangs, and it hangs at three places only: when a read of the database fails
\* (pe_hash_database.cpp:42), in a dump of the system all of whose workers leave too
\* early (pd.cpp:295), and after CTRL-C (close_watcher.cpp:124).  The walks over folders
\* end, whatever these look like, links that lead back included, and so do the walk over
\* the arguments and the one over the matches.
Waiting == Doing("ask") \/ Doing("closemon")
ToolEnds == <>[](pc \in {"end", "exit"} \/ Waiting \/ Hung)
===============================================================================
