------------------------------ MODULE FolderWalk ------------------------------
(* A folder is added to the clean-hash database, or removed from it          *)
(* (pe_hash_database::add_folder and remove_folder), on top of the directory *)
(* streams of dirent.h.  The calls of a folder within a folder are a stack.  *)
EXTENDS Integers, Sequences, FiniteSets

CONSTANTS Dirs,      \* folders of the disk
          Junctions, \* those that are links to another folder
          Entries,   \* per folder: its [kind, name, to], in order
          HashOf,    \* per file: its hash, NoHash if it is no program
          NoHash,
          MaxPath,   \* PATH_MAX, in folders
          Faults     \* what may fail: opening a folder or a file, going on in one;
                     \* opening ("load") and reading ("disk") the database

\* A name is within ASCII, within the code page, outside it with an 8.3 name that is
\* within ASCII, or outside it without one.
Names == {"plain", "accented", "short", "wide"}

ASSUME FolderAssumption ==
    /\ Junctions \subseteq Dirs /\ MaxPath \in Nat
    /\ Entries \in [Dirs -> Seq([kind : {"self", "parent", "dir", "file"},
                                 name : Names,
                                 to : Dirs \cup DOMAIN HashOf])]
    \* What opens has an entry, the folder itself if nothing else.
    /\ \A d \in Dirs : /\ Len(Entries[d]) > 0
                       /\ \A i \in DOMAIN Entries[d] : LET e == Entries[d][i]
                            IN  e.to \in IF e.kind = "file" THEN DOMAIN HashOf ELSE Dirs
    /\ Faults \subseteq {"folder", "file", "next", "load", "disk"}

VARIABLES
    walk,    \* [op, recursively, root, state] of the walk
    stack,   \* one frame per folder that is being gone through
    entry,   \* what readdir returned last
    handles, \* search handles that the system holds for the tool
    db,      \* the hashes in memory
    before,  \* history: the hashes when the walk began
    skipped  \* history: files and folders that could not be read

walkVars == <<walk, stack, entry, handles, db, before, skipped>>

Top == stack[Len(stack)]
NoEntry == [kind |-> "none", name |-> "plain", to |-> "none"]
NoWalk == [op |-> "none", recursively |-> FALSE, root |-> "none", state |-> "idle"]
WalkInit == /\ walk = NoWalk /\ stack = << >> /\ entry = NoEntry /\ handles = 0
            /\ db = {} /\ before = {} /\ skipped = {}

\* A walk starts, with the folder to be opened.
BeginWalk(op, root, recursively) ==
    /\ walk' = [op |-> op, recursively |-> recursively, root |-> root, state |-> "enter"]
    /\ entry' = [NoEntry EXCEPT !.to = root] /\ before' = db /\ skipped' = {}
    /\ UNCHANGED <<stack, handles, db>>

-----------------------------------------------------------------------------
(* Directory streams.                                                        *)

\* opendir: dirent_first leaves the first entry in memory.
Stream(dir) == [dir |-> dir, at |-> 1, cached |-> TRUE, open |-> TRUE]

\* Mutant: the entry in memory stays there.
NextEntryCached(s) == IF s.cached THEN s ELSE [s EXCEPT !.at = @ + 1]
\* dirent_next: the entry in memory, or else the next one; at the end nothing more
\* comes.
NextEntry(s) == IF s.cached THEN [s EXCEPT !.cached = FALSE] ELSE [s EXCEPT !.at = @ + 1]
AtEnd(s) == ~s.cached /\ ~(s.open /\ s.at < Len(Entries[s.dir]))

\* Mutant: the search handle is closed whether it has been or not.
CloseTwice(s) == 1
\* closedir: what it closes.
Closes(s) == IF s.open THEN 1 ELSE 0

-----------------------------------------------------------------------------
(* The walk.                                                                 *)

Return == IF stack = << >> THEN "done" ELSE "read"
Walking(state) == walk.state = state
GoTo(state) == walk' = [walk EXCEPT !.state = state]

TooLong == Len(stack) >= MaxPath

\* Mutant: links are followed.
RefusedLong == walk.op = "add" /\ TooLong
\* The name of the folder is too long for the buffers, or the folder is a link,
\* which only add_folder looks at.
Refused == walk.op = "add" /\ (TooLong \/ entry.to \in Junctions)

RefuseFolder ==
    /\ Walking("enter") /\ Refused
    /\ GoTo(Return) /\ entry' = NoEntry
    /\ UNCHANGED <<stack, handles, db, before, skipped>>

EnterFolder ==
    /\ Walking("enter") /\ ~Refused /\ ~TooLong
    /\ stack' = Append(stack, Stream(entry.to)) /\ handles' = handles + 1
    /\ GoTo("read") /\ entry' = NoEntry
    /\ UNCHANGED <<db, before, skipped>>

\* opendir fails: nothing is left open.
FolderFails ==
    /\ Walking("enter") /\ ~Refused /\ (TooLong \/ "folder" \in Faults)
    /\ GoTo(Return) /\ entry' = NoEntry
    /\ skipped' = IF TooLong THEN skipped ELSE skipped \cup {entry.to}
    /\ UNCHANGED <<stack, handles, db, before>>

\* For a name that is too long the C library may end the program instead.
NameEndsTool == Walking("enter") /\ ~Refused /\ TooLong

ReadEntry ==
    /\ Walking("read") /\ ~AtEnd(Top)
    /\ stack' = [stack EXCEPT ![Len(stack)] = NextEntry(Top)]
    /\ LET s == NextEntry(Top)
       IN  entry' = Entries[s.dir][s.at]
    /\ GoTo("entry")
    /\ UNCHANGED <<handles, db, before, skipped>>

\* readdir returns NULL.  FindNextFile may also have failed: the rest of the folder
\* is passed over.
ReadEnd ==
    /\ Walking("read")
    /\ \/ AtEnd(Top) /\ UNCHANGED skipped
       \/ ~Top.cached /\ ~AtEnd(Top) /\ "next" \in Faults /\ skipped' = skipped \cup {Top.dir}
    /\ stack' = [stack EXCEPT ![Len(stack)].open = FALSE]
    /\ handles' = handles - 1
    /\ GoTo("close")
    /\ UNCHANGED <<entry, db, before>>

CloseFolder ==
    /\ Walking("close")
    /\ handles' = handles - Closes(Top)
    /\ stack' = SubSeq(stack, 1, Len(stack) - 1)
    /\ GoTo(IF Len(stack) = 1 THEN "done" ELSE "read")
    /\ UNCHANGED <<entry, db, before, skipped>>

\* A name outside the code page gives way to its 8.3 name; an entry that has none is
\* returned as the file "?".
IsFolder(e) == e.kind # "file" /\ e.name # "wide"
Follow == IsFolder(entry) /\ walk.recursively /\ entry.kind = "dir"

TakeFolder ==
    /\ Walking("entry") /\ Follow
    /\ GoTo("enter")
    /\ UNCHANGED <<stack, entry, handles, db, before, skipped>>

SkipFolder ==
    /\ Walking("entry") /\ IsFolder(entry) /\ ~Follow
    /\ entry' = NoEntry /\ GoTo("read")
    /\ UNCHANGED <<stack, handles, db, before, skipped>>

\* The hash of a program is added, or removed.  A name with characters above 127 is
\* widened with its sign, and no such file is found; nor is "?".
FileOpens(e) == e.kind = "file" /\ e.name \in {"plain", "short"}
AddFile(h) == IF walk.op = "add" THEN db \cup ({h} \ {NoHash}) ELSE db \ ({h} \ {NoHash})
TakeFile ==
    /\ Walking("entry") /\ ~IsFolder(entry) /\ FileOpens(entry)
    /\ db' = AddFile(HashOf[entry.to])
    /\ entry' = NoEntry /\ GoTo("read")
    /\ UNCHANGED <<stack, handles, before, skipped>>

FileFails ==
    /\ Walking("entry") /\ ~IsFolder(entry)
    /\ ~FileOpens(entry) \/ "file" \in Faults
    /\ skipped' = skipped \cup {entry.to}
    /\ entry' = NoEntry /\ GoTo("read")
    /\ UNCHANGED <<stack, handles, db, before>>

Walk == \/ RefuseFolder \/ EnterFolder \/ FolderFails \/ ReadEntry \/ ReadEnd
        \/ CloseFolder \/ TakeFolder \/ SkipFolder \/ TakeFile \/ FileFails

-----------------------------------------------------------------------------
(* Properties.                                                               *)

Subfolders(d) == {e.to : e \in {Entries[d][i] : i \in {j \in DOMAIN Entries[d] :
                      Entries[d][j].kind = "dir"}}}
Enterable(op) == IF op = "add" THEN Dirs \ Junctions ELSE Dirs
\* The paths of at most n names that begin with d and pass by what is in without.
Paths(op, recursively, d, n, without) ==
    {p \in UNION {[1 .. l -> Dirs] : l \in 1 .. n} :
        /\ p[1] = d
        /\ \A f \in DOMAIN p : p[f] \in Enterable(op) \ without
        /\ \A f \in DOMAIN p \ {1} : recursively /\ p[f] \in Subfolders(p[f - 1])}
Below(op, recursively, d, n, without) ==
    {p[Len(p)] : p \in Paths(op, recursively, d, n, without)}
HashesIn(dirs, without) ==
    {HashOf[f] : f \in {g \in DOMAIN HashOf \ without : \E d \in dirs :
        \E i \in DOMAIN Entries[d] :
            Entries[d][i].kind = "file" /\ Entries[d][i].to = g}} \ {NoHash}
\* The hashes of all programs below the folder of a walk, whatever their names and the
\* names of the folders on the way, but for what is in without.
HashesBelow(w, without) ==
    HashesIn(Below(w.op, w.recursively, w.root, MaxPath, without), without)

\* add_folder adds the hash of every program below the folder (of a path that fits its
\* buffers and crosses no link) except what it has failed to open, and adds no other;
\* remove_folder removes them likewise.  A folder that does not open, or breaks off,
\* costs what is reached through it, a file its own hash, whatever the order of the
\* entries.  Always among what fails: a file whose name is of the code page but
\* not ASCII, and a file or a folder that has no name of the code page at all.
FolderExact ==
    Walking("done") =>
        LET all  == HashesBelow(walk, {})
            read == HashesBelow(walk, skipped)
        IN  IF walk.op = "add"
            THEN before \cup read \subseteq db /\ db \subseteq before \cup all
            ELSE before \ all \subseteq db /\ db \subseteq before \ read

\* All files of the folder are added, as the help says ("all the files in the
\* specified directory"), when no call fails: refuted by a program whose name is not
\* ASCII.
AllFilesAdded ==
    Walking("done") /\ Faults = {} /\ walk.op = "add" => HashesBelow(walk, {}) \subseteq db

\* opendir, readdir and closedir: a search handle is open for every stream that is
\* not at its end, each is closed once, and none outlives the walk.
HandlesKept == handles = Cardinality({i \in DOMAIN stack : stack[i].open})
===============================================================================
