# Process Dump: a verification development

TLA+ modules, TLC configurations and TLAPS proofs for Process Dump (`src/pd`),
a Windows tool that dumps the modules of running processes from memory, rebuilds
them as PE files, and leaves out what a database of clean hashes knows.

Run a configuration with `tlc -config X.cfg M`, check the proofs with
`tlapm M.tla` for every module named `...Proofs`.
`PROJECT.json` lists runs, mutants, the map from definitions to source lines,
hazards and theorems.

## 1. The system

### Components

| Component | Source | State | Operations |
|---|---|---|---|
| command line and dispatch | `pd.cpp` `_tmain` | flags, options | parse; then one of: `-pid`, `-p`, `-system`, `-closemon`, `-db ...` |
| console handler | `pd.cpp` `ConsoleHandler` | `ConsoleRequestingClose` | CTRL-C and CTRL-BREAK set it; CLOSE, LOGOFF, SHUTDOWN set it and sleep 30 s |
| close monitor | `close_watcher.cpp` | monitor thread, `_monitor_request_stop`, `hooked_pids`, `hooked_processes`, work queue | `start_monitor`, `stop_monitor`, `_monitor_dump_on_close` (sweep, poll, drain, join, cleanup), worker `_dump_process_worker_and_close` |
| terminate hook | `terminate_monitor_hook.cpp` | saved bytes, hook page, addresses, `_process_is_terminating`; in the target: the entry of NtTerminateProcess, the page with `is_waiting` and `thread_id` | `hook_terminate`, `is_terminate_waiting`, `resume_terminate`, `unhock_terminate`, the injected code |
| process dumper | `dump_process.cpp` | process handle, module list, export list, database | `dump_all`, `dump_region`, `dump_header`, `get_all_hashes`, `monitor_close_*` |
| system dump | `pd.cpp` `dump_system` | work queue, `dumping_pids`, `running_count`, `added_new_processes`, threads | snapshot, spawn, watch, second snapshot, replace threads, join |
| hash collection | `pd.cpp` `add_system_hashes` | work queue, threads | snapshot, spawn, watch, join |
| work queue | `work_queue.h` | `std::queue`, mutex, condition | `push`, `pop`, `empty`, `count` |
| clean-hash database | `pe_hash_database.cpp` | three hash sets, three files, a critical section | load, `add_*`, `remove_*`, `clear_database`, `contains*`, `save` |
| folder walk | `pe_hash_database.cpp` `add_folder`, `remove_folder`; `dirent.h` | a stack of open folders, each with a cached entry and a search handle | open, read, close, descend |
| PE image | `pe_header.cpp` | headers, sections, image buffer, disk image | open from file or memory, generate a header, lay out, hash, find the entry point, rebuild imports, pack, write |
| import table | `pe_imports.cpp` | import descriptors and fix-ups | add, size, build |
| export list | `export_list.cpp` | map of exported addresses with min, max and bit filters | add, merge, contains, find |
| memory streams | `stream_wrapper.h` | position and size of a read, region information | reads of a file or of process memory, block and section sizes |
| module list | `module_list.cpp` | the names of the modules the loader knows | one snapshot per dumper |
| process name search | `simple.cpp` | | a regular expression over a process snapshot |
| hashing | `hash.cpp` | | a CRC over a buffer |
| vendored | `nmd_assembly.h`, `DynArray.h` | | disassembler and container, not the program's own logic |

### How they interact

`_tmain` loads the database and runs one job.  The **jobs over all processes**
(`-system`, `-db gen`) fill a work queue from a snapshot, start
`NumberOfThreads` workers and look at them every 50 ms; each worker makes a
`dump_process` for an entry, uses it and deletes it.  All workers share one
database object.  The **close monitor** adds a monitor thread: it makes a
`dump_process` for every process, which injects a `terminate_monitor_hook`; it
polls the flags in the targets and moves the dumper of a process that asks to
terminate from its map to the queue, from where a worker takes it, dumps,
resumes and deletes it.  The targets are actors too: their threads run the
injected code and share two words of memory with the tool.  The console handler
runs in a thread of its own.

### What is hard here

* three kinds of threads of the tool and the threads of every target
  interleave; ownership of a dumper passes between threads by pointer;
* the hook protocol is a hand-written handshake across processes: flag, thread
  id and suspension are separate steps, and the code page is released by the
  other side;
* every system call on a target may fail, and a target may end at any moment;
* workers leave when they find the queue empty, while others still fill it;
* shut-down has to leave every process unhooked and unsuspended;
* two loops wait for thread counts that are out of date when they are used;
* the database is written under a lock and read without it; a process runs on
  between its dump and the collection of its hashes;
* the memory of a process is walked region by region while the process changes
  it, and two separate walks (`dump_all`, `get_all_hashes`) have to agree;
* header fields read from memory may say anything, and sections, tables and
  sizes are computed from them with DWORD arithmetic, in two widths;
* folders may contain links that lead back, names that cannot be represented and
  entries that fail to be read in the middle.

`hazards` in `PROJECT.json` lists these by line.

### What makes each component correct

* *Close monitor*: a dumper has one owner; a hooked or paused process has one at
  all; no process is released before its dump; CTRL-C leaves nothing hooked;
  new processes get hooked, paused ones are dumped and released, CTRL-C ends the
  tool.
* *Terminate hook*: no thread leaves its suspension before the dump; the page
  stays under threads that are in it; the original bytes come back; a call that
  was held goes through.
* *Jobs over all processes*: every process taken is processed once, none is left
  at the end, and the end comes; processes started meanwhile are included.
* *Database*: what is collected is in it at the end; what a dump adds to it has
  been dumped; a module is not dumped again and again.
* *Memory streams*: a read stays inside its buffer and what it reports as read
  is what was there, whatever the process does meanwhile.
* *Process dumper*: a dump holds exactly the modules and loose code chunks that
  are there and not known, each once; after a collection a dump finds nothing new.
* *Export list*: the filters never hide an entry of the map.
* *PE image and import table*: every section in the image gets into the file; a
  dumped file loads as the image that was dumped; the rebuilt imports are those
  the image refers to; a hash does not depend on where a module was met.
* *Command line and folder walk*: what is asked is what is dumped, added and
  removed; handles are closed once; the tool comes to an end.

## 2. The modules

| Module | Models | Extends or instantiates |
|---|---|---|
| `DumpOnClose` | what the close monitor promises: a process is watched, paused, dumped, released; unwatched only when quitting; nothing is held when it is over | |
| `CloseWatcher` | close monitor, main and console handler around it, the watched processes | `DumpOnClose` (refined) |
| `TerminateHook` | the hook protocol of one target, instruction by instruction where it matters | `DumpOnClose` (refined) |
| `ProcessJob` | what a pool of workers promises: each process taken is processed once, and at the end none is left | |
| `WorkerPool` | what the two jobs over all processes share: snapshot, queue, workers, insertion into the database | `ProcessJob` |
| `SystemHashes` | `add_system_hashes` | `WorkerPool` |
| `SystemDump` | `dump_system` with its second snapshot, thread replacement and the lookups and writes of `dump_all` | `WorkerPool` |
| `HashDatabase` | `pe_hash_database` and its three files over several runs of the tool: loading, the `-db` commands, saving, what dump jobs exclude | |
| `ExportList` | the map of exported addresses, its filters, reading an export directory | |
| `ProcessStream` | reads of the memory of a process that changes meanwhile | |
| `MemoryScan` | `dump_process`: building the export list, `dump_all`, `get_all_hashes`, `dump_region` | `ProcessStream`, `ExportList` |
| `ImportTable` | the import table that is rebuilt for an image | |
| `PEImage` | one image from memory or file to a rebuilt file, and back | `ImportTable` |
| `FolderWalk` | `add_folder`, `remove_folder` and the directory streams of `dirent.h` | |
| `CommandLine` | `_tmain`: arguments, their combinations, the steps they lead to, the name search | `FolderWalk` |
| `MCCloseWatcher`, `MCSystemDump`, `MCMemoryScan`, `MCPEImage`, `MCCommandLine` | instances for TLC: symmetry sets, processes, images, disks and command lines | |
| `CloseWatcherProofs` | theorems about `CloseWatcher` | `CloseWatcher` |
| `TerminateHookProofs` | theorems about `TerminateHook` | `TerminateHook` |
| `HashDatabaseProofs` | theorems about `HashDatabase` | `HashDatabase` |
| `SystemDumpProofs` | theorems about `SystemDump` | `SystemDump` |
| `SystemHashesProofs` | theorems about `SystemHashes` | `SystemHashes` |
| `MemoryScanProofs` | theorems about `MemoryScan`, `ProcessStream` and `ExportList` | `MemoryScan` |
| `CommandLineProofs` | theorems about `CommandLine` and `FolderWalk` | `CommandLine` |
| `PEImageProofs` | theorems about `PEImage` | `PEImage` |

Definitions whose comment begins "Mutant of" are not part of a specification:
each is a plausible bug in the definition it names, and `mutants` says which
property it violates when it takes that definition's place.

### CloseWatcher

One variable per piece of state of the code, with its name where there is one:
`hookedPids`, `hooked` (the map `hooked_processes`), `queue`, `stop`
(`_monitor_request_stop`), `closeRequested` (`ConsoleRequestingClose`); a program
counter for main, for the monitor and for each worker, and `holding`, the dumper
a worker has popped.  A dumper is named by the pid it was made for.  The targets
have `proc` (none, running, paused in the hook, leaving through the original
NtTerminateProcess), `aim` (the target of the call), `hook`, `dumped`, `starts`.

Each action is one handler or one turn of a loop.  What it does *not* split, and
why that loses nothing:

* the three tests on a snapshot entry (own pid and csrss, `hooked_pids`) are made
  when the snapshot is taken: only the monitor changes `hooked_pids`, and only
  with the entry it is at;
* `dump_all` is one step (`WorkerDump`), taken when it is complete: until then a
  worker is at `dump`, and everybody else may move;
* a hooked call pauses its process in one step, and resuming undoes it in one;
  `TerminateHook` opens up exactly these steps, and section 5 says under which
  timing they may be taken for one;
* a pid is not given out again while a dumper holds a handle of its process,
  which is what Windows guarantees; afterwards it may be (`StartProcess`).

`HandlerReturns` ends the tool 30 seconds after a forced close; it is enabled
when a dump is under way or the monitor waits for a queue nobody serves, the only
two waits that can last that long.

### TerminateHook

The target's side: the entry of NtTerminateProcess (`code`: original,
redirect, uninitialized bytes), the hook page, the words `isWaiting` and
`threadId`, and a program counter per thread through the injected code: store
the id, raise the flag, suspend, restore the original bytes and jump.  The
tool's side is the life of one dumper, whose owners follow each other
(`OneOwner` of `CloseWatcher`), so it has one program counter; each access to the
target (`ReadProcessMemory`, `WriteProcessMemory`, `ResumeThread`, ...) is a step
of its own.  `Faults` names the system calls that may fail, one name for each kind of
access the code makes, from the allocation of the page to its release; a call on a target
that is gone always fails.  A read of the flag that fails says that nobody waits, as in the
code (line 479), and the result of the write that restores the entry is ignored (64).
`failed` remembers where one of these two failures met a target that was there (`entry`: the
worker's look at the flag; `release`: the look before the page is released; `unhook`: the
restoring write); no action reads it, the properties name the one failure each cannot
survive.  When the original bytes were never read, unhooking
writes what is in the uninitialized array, or fails because the page is not
writable: both are possible.  The 32-bit and the 64-bit variant of the injected
code make the same steps and are one here.

### WorkerPool, SystemHashes, SystemDump

`mainPc` walks through snapshot, filling, the watching loop and the join; the
loop condition, the count of running threads and what follows are separate steps
since the queue and the threads change between them.  `SystemDump` adds the second
snapshot (`CheckRescan`), and for each new process the push and the replacement of
one ended thread (`RefillQueue`, `Respawn`).

A worker tests the queue and pops it in two steps, as the code does.  A dump is a
walk over the modules of the process: for each one the lookup in the database
(`CheckModule`) and the writing of the file (`WriteModule`) are two steps;
`get_all_hashes` is a second walk (`GetAllHashes`) over whatever is mapped by
then; `add_hashes` takes the lock and inserts hash by hash.  `contains` takes no
lock: with `RacyReads` a lookup may miss a hash while another thread inserts
(rehashing moves the elements of the set).  The other outcome the language allows
for this race is that the reading thread crashes, after which the tool does no
further step; it adds no behaviour the safety properties could tell apart.

A process has a set of module hashes that grows while it runs (`Loaders`) and is
empty when it has ended.  `Protected` pids cannot be opened: nothing can be read
of them and nothing is collected.

### HashDatabase

The three files (`exists`, `disk`) outlive the tool; one run of it follows another
(two at once are not modelled).  A run loads the files in the order of the
constructor (`LoadOrder`), does its `-db` command, saves in the order of `save`
(`SaveOrder`) and goes on to the dump jobs, which add to the set in memory and do
not save.  Opening a file for writing truncates it, and each hash is a step of
its own (`OpenForWriting`, `WriteHash`, `CloseFile`), so that a run can be killed
anywhere (`Kill`).  `Faults` names what may fail: opening an existing file (the tool
exits while loading, and skips the file while saving), reading (the loop waits
for an end of file that does not come), writing (the result is not looked at).
`-db gen` takes several snapshots and saves after each (`Rounds`).

`kept`, `dropped` and `learned` are what the properties compare the files with; no
action reads them in a guard.

### ExportList, ProcessStream, MemoryScan

`ExportList` has the map as a function (`entries`), the set of its addresses, and
the six filter fields; an address is a number, a bit mask the set of its bit
positions, and `UintMax` and `Width` are constants so that the border between the
two halves of the filter lies inside a small address space.

`ProcessStream` is the loop of `process_stream::read` as a record `rd` (arguments,
locals and the output buffer).  Each turn is two steps, the query of the region
and the copy, and the process may change its memory between them.  A cell of
memory holds its address and the body of its page, so that "what was there" can be
said of what a read returns; `spill` counts what is copied beyond the buffer.

`MemoryScan` walks over this memory: a job is `collect` (`get_all_hashes`), `dump`
(`dump_all`) or `region` (`dump_region`).  Every turn of the loops over regions and
pages, every export list that is merged, every image that is read and every chunk
is a step; `Flip` lets the process change the protection of its pages between any
two of them, which cuts and joins regions under the walk.  What a page that begins
with "MZ" parses to is `HeaderOf`, and what an image becomes on disk is left to
`PEImage`.

### ImportTable, PEImage

Memory is counted in cells of a DWORD; a cell holds a header, a number, a piece of
code, a descriptor or a name.  A header is a record whose fields are DWORDs or WORDs; the
two loops over its sections are steps (`BuildSection`, `PlaceSection`), with their locals in
`loop` and the offset as it would be without overflow in the history variable `space`.  One object (`pe`) is opened from memory, from a file
or by generating a header, laid out into an image, hashed, given an entry point and
imports, packed and written; `file` can then be opened again.  `larger` is the buffer
`process_disk_image` copies through.  Arithmetic on header fields is modulo `DW`,
and `MaxSection`, `MaxSections`, `Page`, `MinHeader` are the constants of the code made
small.  32- and 64-bit headers go through the code's two branches where these
differ (search for export addresses, thunks).  The import table is built as the code does
it: `RebuildImports` makes room behind the image and lists the libraries, the old
descriptors first and then one for each address of an export, `AddLibrary` writes one of
them (what its descriptor refers to from `table.extra` on, the descriptor at `table.at`, and nothing more once a
part does not fit), and `EndTable` writes the empty descriptor and moves the import
directory.  `LoadedAsLinked` says which modules a linker has made and the loader has put
into memory: it is the hypothesis of `SameHash`, and the modules of the runs are built from it or
against it.  Disassembly at the entry point is
reduced to the cell of code it looks at; `EpShorts`, `Eps` are the databases of
entry-point hashes.

### FolderWalk, CommandLine

A call of `add_folder` or `remove_folder` for a folder inside a folder is a frame on
`stack`, with the entry that `dirent.h` has cached and whether its handle is open.
`handles` counts what the system holds for the tool.  Names are of four kinds (`Names`):
plain; accented, in the code page but not ASCII, which become negative `char`s, so that
no file of such a name is opened (`pe_hash_database.cpp:233`) while a folder is; short, outside the code
page with an 8.3 name, under which `readdir` returns them (`dirent.h:726`) and they are
opened or entered like any other; and wide, without one, which arrive as the file `?` and are neither.
What is not opened, for whatever reason, is in the history variable `skipped`.  A junction
leads to another folder and possibly back.

`CommandLine` reads `args` from left to right into `flags` and `values` and checks the
combinations in the order of the code.  `pc` is the part of the work (`parse`,
`commands`, `dumps`, `end`, `exit`), or the place where the tool hangs: `loading` (`LoadHangs`, a read error in
`pe_hash_database.cpp:42`; `HashDatabase` has it as `stuck`), `dumping` (`SystemHangs`, the loop of
`pd.cpp:295`; the exception of `EndsOrHangs`), `quitting` (`QuitHangs`, `close_watcher.cpp:124`; the run
`closemon_quit`).  For `commands` and `dumps`, what the flags lead to
is a sequence of steps (`DbSteps`, `DumpSteps`), and `step` is the place in it.  The
processes that `process_find` has found wait in `matches`, and each goes through
`DumpMatch` and `CollectMatch`.  Between the two parts `-db ignore` gives up the set
in memory (`StartDumps`).  What another module models in
detail is one step here (`DumpAll`, `DumpSystem`, `QuitMonitor`, `AddSystemHashes`).
`ProcessEnds` may end a process between any two steps, but the idle process, which is the first.

`Below` and `HashesBelow` say, without looking at the walk, which folders a path of
entries leads to and which programs they hold, whatever the names; the last argument is what is
left out.  `FolderExact` compares the walk with them twice: nothing but what is below the folder
may be added, and everything that is below it when `skipped` is left out must be.

## 3. The runs

All runs of one module use the module's own definitions; constants only set the
size and the faults.

| Run | Instance | Shows |
|---|---|---|
| `closemon_safety` | 2 pids started up to twice, one may refuse the hook, 2 workers, calls on self and others, failing snapshots, forced closes; 616,377 states | `OneOwner`, `HookIsOwned`, `CleanQuit`, `DumpedBeforeRelease`, refinement of `DumpOnClose` |
| `closemon_live` | 2 pids, 2 workers, fair | `KeepsWatch`, `FulfilsPromise` (with the fairness of `DumpOnClose`), `QuitOrStranded` |
| `closemon_quit` | 1 pid, 2 workers, fair; *violated* | `QuitAlways`: CTRL-C may hang the tool |
| `hook_safety` | 3 threads, calls on self and others, all 12 faults; 1,145,637 states | `LeavesAfterDump`, `NotFreedUnderSuspended`, `RestoresWhatItRead` |
| `hook_prompt` | 1 thread, `Prompt`, fair, failing allocation, hooking writes, lowering and release; 367 states | `NeverCrashes`, `CallReturns`, refinement of `DumpOnClose` |
| `hashes` | 3 pids (1 protected, 1 loading modules late), 2 workers, failing snapshot, fair | `AllCollected`, `FulfilsJob` |
| `dump_safety` | 3 pids, 2 workers, 1 hash, late loads, images that cannot be rebuilt | `BoundedCopies`, `KeepsJob` |
| `dump_live` | 2 pids, 2 workers, 2 hashes (one of them in the database from the start), failing snapshot, unlocked lookups, fair | `ExcludedWasDumped`, `EndsOrHangs` |
| `database` | 2 runs of the tool, 2 hashes, every command, every fault, kills | `NothingLost`, `DumpsStayOut` |
| `scan` | 6 processes of 7 pages of 2 cells, 5 job lists, 2 changes of the memory, fair; 71,135 states | `FiltersExact`, `StaysInside`, `TellsTheTruth`, `DumpIsComplete`, `NothingNew`, `NothingTwice`, `ScanEnds` |
| `image` | 12 modules (2 honest, 9 tampered headers, 1 bare region), 5 job lists, 9 sets of options; 29,298 states | `FileHoldsSections`, `RoundTrip`, `TableReads`, `SameHash` |
| `commandline` | 37 command lines, 5 folders (one a link back), names of all four kinds, 4 processes, every fault, fair; 257,327 states | `FolderExact`, `HandlesKept`, `DumpsAsAsked`, `ToolEnds` |

**Bounds.**  Two pids and two workers are the smallest instance in which two
dumpers are in the queue at once, one worker empties it under another, one
worker is in a dump while another leaves, and the monitor sweeps one process
while another pauses; two starts per pid (`MaxStarts`) let a pid come back while
`hooked_pids` still has it.  The proofs remove the bounds on pids, workers and
starts for the safety of the close monitor.  Three threads in `hook_safety` are
one more than share the flag and the id at a time.  Three pids in
`dump_safety` let one be dumped, one queued and one started after the first
snapshot.  In `dump_live` two hashes and two pids make one worker look up what
another has just inserted, and a module that is known from the start shows the
skip.  In `database` two runs are one that writes and one that loads, is killed or
removes; two hashes leave a file half written; the proofs remove both bounds.

The processes of `scan` are a module with the executable region right behind it and
a loose one; headers beyond the page limit (2), in reserved memory and missing from
the module list; executable regions that begin with junk or with a header without
sections; more loose regions than the chunk limit (0) allows; and two whose pages
come and go (`MaxChanges` = 2) so that a region is cut, joined or lost between a
query and a copy.  Two cells are the smallest page in which a read begins or ends
inside one; addresses reach beyond `UintMax`, so both filters are used.  The proofs
remove these bounds for all seven properties but `ScanEnds`.

In `image` a page has 8 cells and a DWORD 1024 values; the tampered headers have
sections that overlap, reach beyond the image, are longer than `MaxSection` (40) or
make the sum of sizes wrap, a count larger than `MaxSections` (4), an alignment of 0,
an image size of 0 and one that is not aligned.  (What the limit
`MAX_SECTION_SIZE * (n + 1)` does when the product itself wraps needs 70 sections and is
outside the instance.)

In `commandline` the lines use every option and every check of a combination; a link
leads from a folder back to the top, and `MaxPath` = 3 ends the walk that follows it.

**Fairness.**  The threads of the tool are scheduled by the system and none of
them waits for a lock that is held over a wait: weak fairness of main, of the
monitor and of each worker.  Weak fairness of a running thread of the target (of
`FinishTerminate` in `CloseWatcher`): the original NtTerminateProcess completes.
In `scan` and `commandline` the tool is one thread: weak fairness of its steps, none of
the process it reads (so `ScanEnds` holds however often the bounded changes come).
Nothing is assumed of the user, of when processes start, end or call, of modules
being loaded, nor of which waiting worker gets the lock of the database: `ToolEnds`
counts waiting for an answer or for CTRL-C as an end, and the three hangs, which the models of
the parts show to be possible; what it adds is that there is no fourth: in the parsing, in the walks
over folders, over processes found by name, and in the sequence of the steps.

**Deadlock** is checked in `scan`, `image` and `commandline`, where the only step left
after the last job is a stutter.  The other systems may really stop (the tool has
ended and no process has anything to do), so it is not checked there.

**Restrictions of the passing runs.**  `closemon_live` lets processes end only
themselves and gives each pid once; what the other case does is in section 5, and
`KeepsWatch` speaks only of pids that have not been hooked.  `hook_prompt` assumes
`Prompt`: a thread that has entered the hook is suspended in it before the tool's
next access.  That is the usual timing (a few hundred instructions against a
polling interval) and guaranteed by nothing; section 5 says what may happen
without it.  It also leaves out the failures that do refute its properties when each is
added alone: of the restoring write all three; of the export, the protection or the reading of the
entry `NeverCrashes`; of a read of the flag or of the id `KeepsPromise` and `CallReturns`; of
OpenThread `CallReturns`.  They are all in `hook_safety`, whose properties hold in spite of them.
`ExcludedWasDumped` is run without late loads and without images that
cannot be rebuilt; with either it is refuted (section 5).  `BoundedCopies` is run
without racy lookups for the same reason.  `DumpIsComplete` and `NothingNew` speak of
a process that stands still; `NothingNew` leaves out the two cases in which the two
walks do differ, and `TableReads` those in which the rebuilt table misses something;
both are named in the comments there and in section 5.

## 4. What is proved

Every theorem holds for all values of the constants that the `ASSUME`s of the
modules admit (TLC evaluates them in every run); where a theorem needs more, it says
so.  Fairness is used nowhere.

### Close monitor: `CloseWatcherProofs`

For every set of pids, every non-empty finite set of workers, any number of starts
and every choice of the other constants:

* `TypeCorrect`, `SingleOwner` (`OneOwner`), `HookOwned` (`HookIsOwned`),
  `QuitsClean` (`CleanQuit`): `Spec => []...`;
* `ReleasedDumped` (`DumpedBeforeRelease`), an action property;
* `Refinement` (`KeepsPromise`): `CloseWatcher` implements `DumpOnClose`.

All rest on `Invariance`, the inductive invariant `IInv`.  The five properties are
not inductive by themselves.  What has to be added:

* a hooked process that is present is owned, and no process that is gone is
  hooked; a hook lives only where a dumper does (ownership in both directions);
* while a worker is past its look at the flag (`dump`, `resume`), its process is
  still paused and hooked, or has been killed: nobody else can resume it, since
  nobody else owns its dumper; at `resume` a paused process has been dumped;
* workers that hold nothing are at `test`, `pop`, `none` or `ended`, and holding
  a dumper excludes these;
* phase by phase of the monitor: before the workers are started there is no
  queue; from `join` on the queue is empty; from `cleanup` on all workers have
  ended and nothing is held; at `ended` nothing is hooked; main is done only
  then; from `drain` on the stop flag is up;
* what the monitor has still to visit in a poll is in its map, and in a sweep is
  in nobody's hands.

The proof has one lemma per group of actions; the handling of the queue goes through
`AppendElements` and `TailElements`, which say what push and pop do to the set of the
entries; the two jobs below use the same lemmas.

### Terminate hook: `TerminateHookProofs`

For every set of threads, every set of faults, with or without `Prompt`:
`TypeCorrect`, `PageStays` (`NotFreedUnderSuspended`), `BytesReturn`
(`RestoresWhatItRead`) and `LeavesDumped` (`LeavesAfterDump`).  The last three have one
exception each, which is part of the property: the read of the flag before the release, the
restoring write, the worker's read of the flag.  Any other failure, of the same calls at another place
too, is covered.  The invariant `HInv` adds
that before the redirect is written nobody is in the hook and the entry is as it
was; that a thread which has stored its id and is in the hook has announced itself; that the
steps which write back come after the read; and at which steps of the dumper a
thread may be resumed.  `CrashesNever` (`NeverCrashes`) needs `Prompt` and that
neither the export, the protection of the entry, the reading of it nor the write that restores it
fails; it adds `HookIsThere`: while a thread is in the hook, so is the page.

`Refinement` (`KeepsPromise`): under `Prompt` the hook implements `DumpOnClose`, for
every set of threads and all faults but those of the flag, of the id and of the restoring write.  It maps the target and the dumper to one process
of `DumpOnClose` (`Stage` names where it is), and what `CloseWatcher` takes as one
step, the pause of a call and its release, is one step of the promise and stutters
before and after it.

### Jobs over all processes: `SystemDumpProofs`, `SystemHashesProofs`

* `Refinement` (`KeepsJob`): `SystemDump` implements `ProcessJob`, for every set of
  processes and workers, failing snapshots, late loads and racy lookups included.
  The invariant `JobInv` says where a process is: in the queue (which has no
  repetitions), with exactly one worker, or processed once; never in `todo` and
  `taken` at the same time; and by phase of main, that nothing has been taken before the first
  snapshot, no worker runs before all is filled, and the queue is empty from `join` on.
  That the job is not over too early follows without any statement about
  `runningCount`: main goes to `join` only when it has seen the queue empty, and
  only main fills it.
* `CopiesBounded` (`BoundedCopies`), when lookups do not miss (`RacyReads = FALSE`):
  as long as a hash is unknown, all processes it has been dumped from are held by
  workers, and once it is known nobody begins to dump it; those who
  have begun are counted in `Copies`.
* `ExclusionsDumped` (`ExcludedWasDumped`), when no module is loaded meanwhile and every
  image can be rebuilt: `WalkInv` follows each module of a process through the walk,
  the file and the collection.
* `Collected` (`AllCollected`) of `SystemHashes`, without conditions: what a worker has
  still to insert and what is in the database cover what it has read.
* `Refinement` (`KeepsJob`) of `SystemHashes`: it implements `ProcessJob`, by the invariant of
  `SystemDump` without the second snapshot.

### Database: `HashDatabaseProofs`

For every set of hashes, commands and faults and any number of runs: `TypeCorrect`
(`TypeOK`), `NothingIsLost` (`NothingLost`), `DumpedStaysOut` (`DumpsStayOut`).  Each
has its own strengthening:

* `KInv`: every file loaded so far has in memory what was saved in it and not
  given up, and a file being written has got, or still has to get, all of it.
  Without it a save could replace a file by less than it had; it is what makes
  the exit on a failed open necessary;
* `LInv`: until the dump jobs start, memory holds only what a command took for
  clean, and so does what is waiting to be written; after a run memory is empty;
* `TInv`: a command at work has a save to come, which keeps `rounds` a number.

### Reading and walking memory: `MemoryScanProofs`

For every size of a page and of the memory, every content, every header, and any
number of changes the process makes while it is read:

* `BufferHolds` (`StaysInside`) and `ReadsAreTrue` (`TellsTheTruth`), which assume only
  that the mark of an unwritten cell is not the content of one
  (`CellsAreNoMark`).  `StreamInv` follows the loop of a read: what has been read so far is a
  prefix of what was asked, the buffer is filled in order, and every further region
  begins at a page; the last is why a whole region fits.  It needs
  some arithmetic of pages (`RegionFacts`, `AlignedSum`), proved as lemmas;
* `FiltersHold` (`FiltersExact`): minimum, maximum and bits of both halves cover every
  address in the map, through every order of adding and merging;
* `DumpedOnce` (`NothingTwice`): the invariant `FreshInv` says that what has been written
  lies behind the walk, that loose chunks are still to come or were taken out of the
  set, and that the two widths of a generated header follow each other.  It holds
  however the regions are cut and joined under the walk.

As long as the process does not change its memory, two more, from `CellsAreNoMark` and three
assumptions on the constants (`ScanAssumption`): the mark of an unwritten cell is no
body, the table of imports lies inside its image, and the 0x300 bytes a header needs are less
than a page and not none:

* `DumpComplete` (`DumpIsComplete`): what a dump writes is what a definition
  that knows no walk, no buffer and no order says of the memory (`Expected`).
* `CleanNotDumped` (`NothingNew`): after a collection nothing is dumped, although `dump_all` stops
  at the end of a region where `get_all_hashes` runs on into the next one.

Both follow from `StillHolds`, the invariant `StillInv`.  It was checked by TLC on the instance of `scan`
before it was proved.

* `ExactRead`: the buffer holds what can be read of what has been gone over so far, and nothing
  else; with it a hash that is computed from a buffer is one of the memory
  (`ImageRead`, `ChunkRead`).
* `WalkSeen`: at each step of the walk there is a page, always the first of a region, which the address
  stands for; the modules below the page in hand are the ones written (in a dump, the
  unknown ones, and no other page) or among the hashes (in a collection, where the walk may
  already have seen some that lie further on).  When the walk leaves a region no module of it
  is left (`RegionSeen`: a module lies in the first pages of a region, and has room for its header).
* `HeapsLeft`: the regions left are among those that no module seen so far covers,
  and the loose ones are never lost; a collection may lose one to a header without sections, and
  only there (`BareHeaders`).  At the end of the walk the two bounds meet.
* `ChunksSeen`: the loose regions are looked at in the order of their addresses, each counted once at most; so
  the count can exceed the limit only when there are more of them.
* `CleanOnce`: what a collection has found is in the database afterwards, and stays.

They rest on lemmas about regions: that `LastPage`, defined by counting, is the end of a row of
like pages (`LastPageIs`, by the smallest page that is not one of them, as induction is not
available), that a region begins where the one before it ends (`RegionEnds`), and that each page
has one beginning (`StartIs`).

### Command line and folder walk: `CommandLineProofs`

For every disk, every command line, every set of processes and every fault:

* `HandlesHold` (`HandlesKept`): the handles the system holds are those of the frames on
  the stack that say so.
* `FolderIsExact` (`FolderExact`): a walk has added, or removed, the
  hashes of all files that paths lead to, whatever the names, and no others, except that it may
  lack a file that is in `skipped` or to which no path leads but through a folder that is.
  `skipped` grows while the walk goes on, and the reference shrinks with it (`BelowLess`).  The walk is an
  iteration over a stack and the reference a statement about paths, so two
  invariants meet in the middle.  `SoundInv`: every frame is a folder that a path leads
  to, and what the walk has changed so far is in files of such folders.  `CoverInv`:
  what a path leads to is in what has been changed, or below an entry that a frame
  on the stack has still to read, or below the entry in hand.  Both need that the frames
  of the stack hang together (`FrameInv`, `EntryInv`) and that the walk works for
  the call in progress (`CallInv`, `WalkAt`); the lemmas about paths (`Goes`,
  `FramesReached`, `WalkFits`) say what one more entry does to `Below`.
* `ToolDumpsAsAsked` (`DumpsAsAsked`): its invariant is one conjunct per variable the
  property compares.  `OneJob` is what `Sane` leaves of the flags, `PlaceInv` what
  that says about the steps still to come (a command that changes the
  database is followed by a save).  `DiskInv` and `KeptInv` follow the files and the set
  in memory from there.  `MatchInv` and `DumpInv` say what is dumped of which process
  while matches are gone through: of those already dealt with, each hash once, by the first process
  that has it, and all of it is excluded for those to come.

### Image and file: `PEImageProofs`

For every image and every header, honest or not, every region list and every option,
from the assumptions that the constants are the numbers they stand for and that
the memory of a module has a region at each of its addresses, and an export a library name and an
address other than 0 (`export_entry` is made only with a name, `export_list.cpp:7`, 200; its address
is that of a loaded module):

* `ImageTyped`: `ImageInv`, the ranges of all header fields and the shape of all buffers.
  It is where the arithmetic is: a size of sections stays a DWORD through the cuts and the
  truncation (`Placing`), the entry point that is found is an address of the image
  (`EntryPointFound`), the last section grows to a DWORD again (`Grows`), the buffer
  with the new table has its cells in one piece.
* `SectionsHeld` (`FileHoldsSections`): a loop invariant of the layout, `LayoutInv`.  As long as
  `space`, the offset not cut to a DWORD, is one, the loop's own offset is equal
  to it, and each of the sections placed so far lies behind the headers and behind all those
  before it and ends before the offset (`Laid`).  At the end no two sections
  share a cell of the file, so the one that the packing copies last to a cell is the only
  one copied there.  The condition is needed: with sizes that add up to more than a DWORD the
  code's offset wraps and sections land on the headers (the tampered headers of `image` do so).
* `LoadedAsDumped` (`RoundTrip`): a module written with a header that is `Tidy` and
  loaded again as a file (`add_file` does this) has the same header, and its sections hold
  what was in memory.  Three invariants follow the object.  `ChainInv`: each section is placed at
  the end of the one before it, rounded up.  `FileInv`: the file is the image of the header and of the
  memory it was packed from.  `ReloadInv`: what the second opening has read so far is that header, its
  fields taken one by one from the cells of the file.  A tidy header has every section's
  pointer equal to its address, which goes up from section to section (`CountUp`, by the smallest
  counterexample, as induction is not available); from this the sections that are placed again
  come back from where they were put.
* `TableIsRead` (`TableReads`): the import directory of a dumped file, loaded again, has the
  descriptors the image had and then those for the addresses of exports that were found and for
  nothing else, each leading to its name or ordinal and to its library.  The loop over the libraries
  needs an invariant of its own, `LibrariesLeft`: each library that has been dealt with is `Placed`
  (its descriptor in its slot, what the descriptor refers to behind all slots and in front of
  `table.extra`), the slots do not reach that far, and what is left of the buffer holds what the
  libraries still to come need (`Rest`).  The last part is why sizing the table before it is built
  works: with it no test of `build_table` ever fails, and a new library writes over none before it
  (`LibraryAdded`, its arithmetic in `RoomFor`).  `TableBuilt` carries the whole table through layout,
  header copy and packing: the layout does not touch the buffer, and the copied header ends in front of the
  sections of a tidy image, hence of the table (`TableStays` has this as its condition).  `TableWritten` keeps it for the file that was written last, and
  `ReloadInv` brings the cells of the last section back.  There the search for the
  first empty descriptor ends where the table ends (`OldEnd`), because a placed descriptor is never
  empty.  What is listed for an image is shown to be what it refers to without induction:
  the i-th reference is the one with i - 1 below it (`Nth`), and `AllInOrder` gives each one a place.
  `TableInLast` is needed: the last section is made larger by the size of the table, so the
  table is packed only if the image ends in that section, and its addresses are counted from the
  size of the image, so they are right only if that is aligned (section 5).
* `SameHashed` (`SameHash`): `HashInv` compares everything with the file of the module, not two
  openings with each other.  `Agrees` says of the object on its way what it has in common with that
  file at each `pc`: the header but for the base, the zero import addresses, the code at the entry
  point.  It has to be weaker after the import directory has been gone over: then the import
  addresses hold other values, but none that is zero has become another (`Restored` writes only where
  both entries are not zero), which is all the hash looks at.  The end of the import addresses is the lowest
  index at which one of two conditions holds, so two images that agree about the zeros have the
  same end, without induction.

### Only model-checked

All liveness properties (`KeepsWatch`, `FulfilsPromise`, `QuitOrStranded`, `CallReturns`,
`FulfilsJob`, `EndsOrHangs`, `ScanEnds`, `ToolEnds`), which are out of the prover's reach, as is
ENABLED: that no run deadlocks is TLC's.  Every invariant and every action property of the passing
runs, and each of the refinements, is a theorem.

## 5. Behaviours met while modelling

One is a run that TLC refutes and is listed as a finding: *CTRL-C may hang the
tool* (`closemon_quit`).  The workers leave when the stop flag is up and the queue is
empty; the monitor may still be in its last poll and push a dumper afterwards, and
then waits for the queue to empty.

Four more are definitions that TLC refutes when they are put into a configuration
with the constants named here:

* *A lost wake-up in the hook* (`ClosesNormally`: one thread, no fault, no `Prompt`).
  The flag is raised before the thread suspends itself; a tool that lowers the flag
  and resumes in between resumes nobody, and the thread sleeps for ever.
* *Uninitialized bytes over NtTerminateProcess* (`OriginalCodeBack`: one thread, a
  missing export).  A hook that is given up after the address is known and before
  the original bytes are read is taken out by writing an array that was never filled.
* *Files that are not added* (`AllFilesAdded`: the disk of `commandline` with `Faults = {}`).
  The help says that `-db add` adds "all the files in the specified directory" (`pd.cpp:844`,
  `src/README.md:58`).  A file whose name is not ASCII is added only if it is outside the code page and
  has an 8.3 name.
* *`-system` may not end* (`RescanHappens`: one process, one worker).  The second
  snapshot is taken only while a worker runs, and the loop does not end without it.

Two can be read off `HashDatabase`: a read error while loading leaves the tool in a
loop (`ReadFails`; `stuck` is left only by killing it), and a run killed while it
saves leaves that one file with a part of its hashes, the next run starting from
there.

Others show when a constant is changed:

* `CloseWatcher`, `MaxStarts = 2`: a process that gets the pid of one that was
  hooked and has ended is never hooked (`hookedPids` only grows).
* `CloseWatcher`, `Aims <- AnyAim`: a process that terminates another one is
  paused, dumped and resumed like any other, loses its redirect (the injected
  code puts the original bytes back) and is never hooked again.
* `CloseWatcher`, `ForcedClose = TRUE`: after a close event the tool may be ended
  with a process suspended in its hook.
* `TerminateHook`, two threads: a second thread overwrites `thread_id` before the
  first is resumed; the first one then stays suspended.  (When both end their own
  process this does no harm.)
* `TerminateHook`, without `Prompt`: the page may be released under a thread that
  has entered it and not yet raised the flag, and the target crashes.
* `TerminateHook`, a failing restore (`"restore"` in `Faults`): line 64 ignores the result, line 77
  frees the page, and the entry still leads there: the next call of NtTerminateProcess crashes the
  target.  (`RestoresWhatItRead` excepts this failure, `CrashesNever` assumes that it does not happen.)
* `TerminateHook`, a failing read of the flag (`"flag"`): the worker takes the process for one that does not
  wait (`dump_process.cpp:621`) and deletes the dumper, whose destructor reads the flag again and
  resumes the thread undumped; or the destructor's read fails, and the page goes under a thread that
  sleeps in it.  A failing read of the id (`"id"`) leaves the thread suspended for good.
* `SystemDump`, `Loaders = Pids`: a module loaded between the dump of a process
  and the collection of its hashes is excluded from all later dumps without having
  been dumped; the same for an image that cannot be rebuilt (`BadImage`).
* `SystemDump`, `RacyReads = TRUE`, three pids: a module is written again although
  it has been excluded.
* `SystemDump`: workers that end after they were counted leave a new process in the
  queue for ever (`Unserved`, the second disjunct of `EndsOrHangs`).

The sequential modules do what the code does in these cases too, and their
properties are stated around them:

* *Memory*: `read` asks for a whole region and takes the offset off afterwards
  (`stream_wrapper.h:433`), which is right because all but the first region begin at
  a page.  An executable region that starts right behind a module
  counts as part of it (`dump_process.cpp:712`).  The chunk limit is tested with `>` after the
  increment (804), so one more is dumped.  `get_all_hashes` leaves out an
  executable region that begins with a header without sections, `dump_all` does not (232 and
  706).  The import count of a chunk begins two pages before its region.
  `dump_region` asks for a section of `0x1000ffff` (536), which is too large to get one.
* *Images*: the import table is placed at the aligned image size and built with the
  unaligned one (`pe_header.cpp:1425`); the search for export addresses leaves out the last
  eight bytes and wraps for an image smaller than that (1328, 1381); 32-bit
  candidates are sign-extended, so exports in the upper half are not found (1384);
  the loop over 64-bit thunks steps by 32 bits (1963); a section whose raw data reaches beyond
  the buffer is left out (1560); `MAX_SECTION_SIZE * (n + 1)` is a DWORD product (1051);
  `SizeOfImage` becomes the size of the file (1516); an alignment of 0 is
  divided by when imports are rebuilt in the 64-bit branch (2057); ImportRec on a header without sections writes before
  the array of section headers (1413); the search for an entry point depends on `-v`
  (1350); the two flags of `ReconstructHeaderAsDll` are swapped (798);
  `_header_import_descriptors` is not initialized for an image from a file; `write_image`
  returns false in every case.
* *Database and folders*: `add_file` leaves `EntryPointHash` uninitialized
  (`pe_hash_database.cpp:397`); a name that is returned with characters above 127 is never opened (233), and one that
  cannot be represented arrives under its 8.3 name or as `?` (`dirent.h:726`); `remove_folder` follows links to folders,
  `add_folder` does not (218, 300), so only `PATH_MAX` ends a removal that comes back to itself;
  an error of FindNextFile ends a folder as if it were complete (`dirent.h:601`);
  `-db add` of a link adds nothing and says nothing.
* *Command line*: `-db remove` is missing from the sum that admits one command
  (`pd.cpp:851`), and with `-db add X -db remove Y` the last folder is added; an unknown word
  after `-db` is passed over; `-h` does not end the tool; `-db ignore` empties the database only after
  it has been saved; `-db gen` adds `%USERPROFILE%` where the help (842) says `%HOMEPATH%`;
  `process_find` passes over the first process and leaks its snapshot when the
  expression is malformed (`simple.cpp:15`, 30).

## 6. Not modelled

* *Disassembler* (`nmd_assembly.h`, the longest file) and `DynArray.h`: third-party code; what
  the tool asks of them is a constant or a cell.
* *Hashing* (`hash.cpp`): a CRC over a buffer; hashes are model values, which assumes
  that different contents have different ones.
* *Module list*: its array of 2048 handles and the loop that may run past it
  (`module_list.cpp:23`); a process with so many modules is beyond an instance.
* *Work queue*: the blocking `pop`, which nothing calls, and `count`, which serves the
  progress line only.
* *`dirent.h`*: `scandir`, `rewinddir` and the wide-character side, which nothing calls.
* *Failures and details inside one step*.  `MemoryScan`: `dump_all` writes no module whose hash is 0
  or for which `process_disk_image` fails (`dump_process.cpp:725`, 741), and looks the hash of a generated header
  up again (463); there every module has a hash and an image, and no generated header a known hash.  (`SystemDump` has the
  images that cannot be rebuilt.)  `PEImage`: a process that cannot be opened
  has no stream there; the code makes one whose reads fail (`pe_header.cpp:90`) and goes on to a
  generated header without sections (705).  `Restored` copies all thunks of a descriptor from the image as it
  was, the code one after the other (1890), which differs only for tables that overlap, and a descriptor is
  one cell, while the code takes any 20 bytes that are not all zero for one (1871).  `WorkerPool`: a worker that
  has seen an empty queue has ended in the same step; in the code it is counted as running for a moment more, so that `Respawn` may find no thread to replace
  and leave a new process in the queue in one more way (`Unserved`, which `EndsOrHangs` names anyway).
* *Two tools at once*: the files of the database have no lock, and nothing in
  the code speaks of a second tool.
* Text and path handling, help and progress output; the name a file gets.

What could follow: a statement of what a dump of a process that does change has to
contain; the code promises nothing there beyond `TellsTheTruth` and `NothingTwice`.
