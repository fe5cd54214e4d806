----------------------------- MODULE MemoryScan -----------------------------
(* The process dumper's walks over the memory of a process that goes on      *)
(* running (dump_process.cpp): building the export list, dump_all,           *)
(* get_all_hashes and dump_region.  Every image is read through              *)
(* ProcessStream; what an image turns into on disk is the subject of         *)
(* PEImage.                                                                  *)
EXTENDS ProcessStream, ExportList, Sequences

CONSTANTS Layouts,     \* processes: [mem, loaded, flips, build]
          JobLists,    \* what the tool is asked to do, in order
          OptionSets,  \* [chunks, genHeader, importRec]
          Headers,     \* bodies that begin with "MZ"
          HeaderOf,    \* body -> [id, wide, parses, sections, pages, iat,
                  \*         hasDir, dir]
          Refs,        \* body -> addresses its code refers to
          HeaderCells, \* the 0x300 bytes a header needs in its region
          PageLimit,   \* "Skip the rest of the section if we have looped over 1000 pages"
          ChunkLimit,  \* CODECHUNK_NEW_HASH_LIMIT
          RegionMinSize, \* the 0x1000ffff dump_region passes to build_pe_header
          MaxChanges   \* bound: changes of the memory during the jobs

ASSUME ScanAssumption ==
    /\ \A l \in Layouts : DOMAIN l.loaded \subseteq Nat
    /\ \A j \in JobLists : j \in Seq([kind : {"collect", "dump", "region"}, base : Nat])
    /\ \A l \in Layouts : \A p \in Pages : l.mem[p].body # Untouched
    /\ \A b \in Headers : /\ HeaderOf[b].pages \in Nat
                         /\ HeaderOf[b].iat \in 0 .. HeaderOf[b].pages - 1
                         /\ {"base", "names"} \subseteq DOMAIN HeaderOf[b].dir
                         /\ Len(HeaderOf[b].dir.names) \in Nat
                         /\ \A i \in 1 .. Len(HeaderOf[b].dir.names) :
                                HeaderOf[b].dir.names[i].rva \in Nat
    /\ HeaderCells \in 1 .. PageSize - 1
    /\ PageLimit \in Nat /\ ChunkLimit \in Nat /\ MaxChanges \in Nat

VARIABLES loaded,    \* base -> name: the modules the loader knows
          flips,     \* pages whose protection the process changes
          changes,   \* how often it has
          options, jobs,
          pc, job,
          modules,   \* the snapshot of loaded (module_list)
          exports, listBuilt, todo, found, index, \* building _export_list
          address, mbi, base, count,              \* the walk
          heaps, heap, newChunks,                 \* loose executable regions
          hashes, db,                             \* what was collected, the clean hashes
          header,    \* the header parsed last: HeaderOf its body
          gens,      \* generated headers still to be dumped: 64, 32
          written,   \* the files of this job, in the order they were written
          last       \* history: the job before

streamVars == <<mem, build, rd>>
listVars == <<exports, listBuilt, todo, found, index>>
walkVars == <<address, mbi, base, count, header>>
chunkVars == <<heaps, heap, newChunks>>
hashVars == <<hashes, db>>
envVars == <<loaded, flips, changes, options>>
vars == <<streamVars, envVars, jobs, pc, job, modules, listVars, walkVars,
          chunkVars, hashVars, gens, written, last>>

NoRegion == [base |-> 0, end |-> 0, valid |-> FALSE, executable |-> FALSE]
NoGens == [at |-> 0, minSize |-> 0, name |-> NoName, wides |-> << >>, back |-> "end"]
NoHeader == [id |-> "none", wide |-> 64, iat |-> 0]
NoFound == [list |-> NewList, dir |-> [names |-> << >>]]
BodyAt(a) == mem[PageOf(a)].body
IsHeader(a) == Accessible(a) /\ BodyAt(a) \in Headers

Init ==
    /\ \E l \in Layouts : /\ mem = l.mem /\ loaded = l.loaded
                          /\ flips = l.flips /\ build = l.build
    /\ rd = NoRead /\ changes = 0 /\ options \in OptionSets /\ jobs \in JobLists
    /\ pc = "ready" /\ job = [kind |-> "none", base |-> 0]
    /\ modules = [b \in {} |-> NoName]
    /\ exports = NewList /\ listBuilt = FALSE /\ todo = {} /\ found = NoFound /\ index = 0
    /\ address = 0 /\ mbi = NoRegion /\ base = 0 /\ count = 0
    /\ header = NoHeader
    /\ heaps = {} /\ heap = 0 /\ newChunks = 0
    /\ hashes = {} /\ db = {} /\ gens = NoGens /\ written = << >> /\ last = "none"

\* The process changes the protection of one of its pages.
Flip ==
    /\ changes < MaxChanges /\ pc # "ready"
    /\ \E p \in flips :
          mem' = [mem EXCEPT ![p].prot = IF @ = "none" THEN "rw" ELSE "none"]
    /\ changes' = changes + 1
    /\ UNCHANGED <<build, rd, loaded, flips, options, jobs, pc, job, modules, listVars,
                   walkVars, chunkVars, hashVars, gens, written, last>>

-----------------------------------------------------------------------------
(* The jobs.                                                                 *)

\* get_mbi_info: a region is worth a look unless it is free or may not be touched.
MbiInfo(a) ==
    IF ~InSpace(a) THEN NoRegion
    ELSE LET r == Region(a)
         IN  [base |-> r.base, end |-> r.base + r.size,
              valid |-> r.prot \notin {"free", "none"}, executable |-> r.prot = "rx"]
Usable(r) == r.base > 0 /\ r.end > 0 /\ r.valid

NeedsExports(j) == CASE j.kind = "collect" -> options.chunks
                     [] j.kind = "dump"    -> TRUE
                     [] j.kind = "region"  -> options.importRec

\* build_export_list of a process is done once.
StartJob ==
    /\ pc = "ready" /\ jobs # << >>
    /\ job' = Head(jobs) /\ jobs' = Tail(jobs)
    /\ pc' = IF NeedsExports(job') /\ ~listBuilt THEN "list" ELSE "begin"
    /\ written' = << >> /\ last' = job.kind
    /\ UNCHANGED <<streamVars, envVars, modules, listVars, walkVars, chunkVars,
                   hashVars, gens>>

\* module_list: the list stays empty when the process cannot be opened for it.
Snapshot == modules' \in {loaded, [b \in {} |-> NoName]}
ListModules64 == build = 64 /\ Snapshot
ListModules32 == build = 32 /\ Snapshot
ListModules == ListModules64 \/ ListModules32

\* The name of the image at b: what the stream finds in the module list.
NameIn(list, b) == IF b \in DOMAIN list THEN list[b] ELSE "hiddenmodule"

BeginList == /\ pc = "list" /\ ListModules /\ todo' = DOMAIN modules'
             /\ pc' = "exports"
             /\ UNCHANGED <<streamVars, envVars, jobs, job, exports, listBuilt, found,
                            index, walkVars, chunkVars, hashVars, gens, written, last>>

\* Header, sections and export directory of the module at b can be read.
HasExports(b) == /\ IsHeader(b)
                 /\ HeaderOf[BodyAt(b)].parses /\ HeaderOf[BodyAt(b)].sections
                 /\ HeaderOf[BodyAt(b)].hasDir

LoadExports(b) ==
    /\ pc = "exports" /\ b \in todo
    /\ IF HasExports(b)
       THEN LET dir == [HeaderOf[BodyAt(b)].dir EXCEPT !.base = b]
            IN  /\ found' = [list |-> NewList, dir |-> dir]
                /\ index' = 1
                /\ pc' = IF Parsed(dir) THEN "names" ELSE "merge"
                /\ UNCHANGED todo
       ELSE todo' = todo \ {b} /\ UNCHANGED <<found, index, pc>>
    /\ UNCHANGED <<streamVars, envVars, jobs, job, modules, exports, listBuilt, walkVars,
                   chunkVars, hashVars, gens, written, last>>

\* add_exports of an image, one name at a time.
LoadName ==
    /\ pc = "names"
    /\ IF index > Len(found.dir.names) THEN pc' = "merge" /\ UNCHANGED <<found, index>>
       ELSE /\ found' = [found EXCEPT !.list = AddName(@, found.dir, found.dir.names[index])]
            /\ index' = index + 1 /\ UNCHANGED pc
    /\ UNCHANGED <<streamVars, envVars, jobs, job, modules, exports, listBuilt, todo,
                   walkVars, chunkVars, hashVars, gens, written, last>>

\* add_exports of another list: an entry at a time, in the order of its hash table.
MergeExport(a) ==
    /\ pc = "merge" /\ a \in found.list.addresses \ exports.addresses
    /\ exports' = AddExport(exports, a, Find(found.list, a))
    /\ UNCHANGED <<streamVars, envVars, jobs, pc, job, modules, listBuilt, todo, found,
                   index, walkVars, chunkVars, hashVars, gens, written, last>>

MergeDone ==
    /\ pc = "merge" /\ found.list.addresses \subseteq exports.addresses
    /\ todo' = {b \in todo : b # found.dir.base}
    /\ pc' = "exports" /\ found' = NoFound
    /\ UNCHANGED <<streamVars, envVars, jobs, job, modules, exports, listBuilt, index,
                   walkVars, chunkVars, hashVars, gens, written, last>>

ListDone ==
    /\ pc = "exports" /\ todo = {} /\ listBuilt' = TRUE /\ pc' = "begin"
    /\ UNCHANGED <<streamVars, envVars, jobs, job, modules, exports, todo, found, index,
                   walkVars, chunkVars, hashVars, gens, written, last>>

-----------------------------------------------------------------------------
(* The walk over the regions, the same in dump_all and get_all_hashes: once  *)
(* for the executable regions, once for headers.                             *)

BeginWalk ==
    /\ pc = "begin" /\ job.kind \in {"collect", "dump"} /\ ListModules
    /\ address' = 0 /\ heaps' = {} /\ newChunks' = 0 /\ heap' = 0
    /\ pc' = IF options.chunks THEN "heaps" ELSE "walk"
    /\ hashes' = IF job.kind = "collect" THEN {} ELSE hashes
    /\ UNCHANGED <<streamVars, envVars, jobs, job, listVars, mbi, base, count, header, db,
                   gens, written, last>>

\* The next region lies at end + 1; a failed query (base and end 0) ends the walk.
LastRegion(r) == r.end + 1 <= address

FindHeaps ==
    LET r == MbiInfo(address)
    IN  /\ pc = "heaps"
        /\ heaps' = IF Usable(r) /\ r.executable THEN heaps \cup {r.base} ELSE heaps
        /\ IF LastRegion(r) THEN pc' = "walk" /\ address' = 0
           ELSE address' = r.end + 1 /\ UNCHANGED pc
        /\ UNCHANGED <<streamVars, envVars, jobs, job, modules, listVars, mbi, base, count,
                       header, heap, newChunks, hashVars, gens, written, last>>

QueryNext ==
    /\ pc = "walk"
    /\ mbi' = MbiInfo(address)
    /\ base' = mbi'.base - (mbi'.base % PageSize) /\ count' = 0
    /\ pc' = "pages"
    /\ UNCHANGED <<streamVars, envVars, jobs, job, modules, listVars, address, header,
                   chunkVars, hashVars, gens, written, last>>

\* Mutant: get_all_hashes asks for a whole page behind the first one.
MorePagesLong == /\ Usable(mbi) /\ count < PageLimit
                 /\ \/ job.kind = "dump" /\ base + HeaderCells < mbi.end
                    \/ job.kind = "collect" /\ mbi.base + PageSize < mbi.end

\* dump_all stops at the end of the region; get_all_hashes tests the base of the
\* region instead, so only the limit stops it and it runs on into what follows.
MorePages == /\ Usable(mbi) /\ count < PageLimit
             /\ \/ job.kind = "dump" /\ base + HeaderCells < mbi.end
                \/ job.kind = "collect" /\ mbi.base + HeaderCells < mbi.end

NextRegion ==
    /\ pc = "pages" /\ ~MorePages
    /\ IF LastRegion(mbi) THEN pc' = "chunks" /\ UNCHANGED address
       ELSE pc' = "walk" /\ address' = mbi.end + 1
    /\ UNCHANGED <<streamVars, envVars, jobs, job, modules, listVars, mbi, base, count,
                   header, chunkVars, hashVars, gens, written, last>>

NextPage == base' = base + PageSize /\ count' = count + 1 /\ pc' = "pages"

Skip == /\ pc = "pages" /\ MorePages /\ ~IsHeader(base) /\ NextPage
        /\ UNCHANGED <<streamVars, envVars, jobs, job, modules, listVars, address, mbi,
                       header, chunkVars, hashVars, gens, written, last>>

\* Mutants: every region behind the image is taken for a part of it, ...
ExcludeHeapsBehind(b, size) == heaps' = {h \in heaps : ~(h >= b)}
\* ... or the region the image begins in is not.
ExcludeHeapsInside(b, size) == heaps' = {h \in heaps : ~(h <= b + size /\ h > b)}

\* "*it <= end_address": the region that begins where the image ends goes too.
ExcludeHeaps(b, size) == heaps' = {h \in heaps : ~(h <= b + size /\ h >= b)}

\* An "MZ": the header is parsed; with sections the image is read.
FoundHeader ==
    LET h == HeaderOf[BodyAt(base)]
    IN  /\ pc = "pages" /\ MorePages /\ IsHeader(base)
        /\ IF h.parses /\ h.sections
           THEN /\ header' = h /\ rd' = NewRead(base, h.pages * PageSize) /\ pc' = "image"
                /\ UNCHANGED <<base, count, heaps>>
           ELSE /\ NextPage /\ UNCHANGED <<rd, header>>
                /\ IF h.parses /\ job.kind = "collect" THEN ExcludeHeaps(base, 0)
                   ELSE UNCHANGED heaps
        /\ UNCHANGED <<mem, build, envVars, jobs, job, modules, listVars, address, mbi,
                       heap, newChunks, hashVars, gens, written, last>>

\* What the hash of a module depends on: its header and its import addresses.
BodyRead(i) == IF rd.out[i] = Untouched THEN Untouched ELSE rd.out[i][2]
ModuleHash(h) == <<"module", h.id, BodyRead(h.iat * PageSize)>>

File(b, wide, name) == [base |-> b, wide |-> wide, name |-> name, image |-> rd.out]
Generated(a, minSize, name, back) ==
    [at |-> a, minSize |-> minSize, name |-> name, wides |-> <<64, 32>>, back |-> back]

\* build_pe_header: two pages of headers are put before the region, and one
\* section is made of each region that follows without a gap, but for a minimum
\* size that exceeds those two pages there is none.
GenHeader == 2 * PageSize
FirstGap(a) == a + Copied(a, NumPages * PageSize - a)
ImageEnd(a, minSize, limit) ==
    IF GenHeader < minSize THEN a
    ELSE IF limit = 1 THEN a + EstimateSectionSize(a) ELSE FirstGap(a)
ReadGenerated(a, minSize, limit) ==
    rd' = NewRead(a - GenHeader, GenHeader + ImageEnd(a, minSize, limit) - a)

\* get_all_hashes: the image has been read, its hash is collected.
CollectModule ==
    /\ pc = "image" /\ job.kind = "collect" /\ ReadDone
    /\ ExcludeHeaps(base, rd.size)
    /\ hashes' = hashes \cup ({ModuleHash(header)} \ db)
    /\ rd' = NoRead /\ NextPage
    /\ UNCHANGED <<mem, build, header, envVars, jobs, job, modules, listVars, address, mbi,
                   heap, newChunks, db, gens, written, last>>

\* dump_all: an image with an unknown hash is written, with its own header or
\* with two generated ones.
DumpModule ==
    /\ pc = "image" /\ job.kind = "dump" /\ ReadDone
    /\ ExcludeHeaps(base, rd.size)
    /\ rd' = NoRead
    /\ IF ModuleHash(header) \in db THEN NextPage /\ UNCHANGED <<gens, written>>
       ELSE IF options.genHeader
       THEN /\ gens' = Generated(base, GenHeader, NameIn(modules, base), "pages")
            /\ pc' = "generate" /\ UNCHANGED <<base, count, written>>
       ELSE /\ written' = Append(written, File(base, header.wide, NameIn(modules, base)))
            /\ NextPage /\ UNCHANGED gens
    /\ UNCHANGED <<mem, build, header, envVars, jobs, job, modules, listVars, address, mbi,
                   heap, newChunks, hashVars, last>>

-----------------------------------------------------------------------------
(* Loose executable regions, in the order of their addresses.                *)

\* The CRC of the first bytes of a region, 0 if they cannot be read.
HeaderHash(a) == IF Accessible(a) THEN <<"crc", BodyAt(a)>> ELSE <<"none">>

MoreHeaps == {h \in heaps : h > heap}

\* "Too many unique loose code chunks": tested before the count is raised.
TooManyChunks == newChunks > ChunkLimit

LookAtHeap(h) ==
    LET hash == HeaderHash(h)
        known == \/ hash = <<"none">> \/ hash \in db
                 \/ job.kind = "collect" /\ hash \in hashes
    IN  /\ pc = "chunks" /\ h \in MoreHeaps /\ \A y \in MoreHeaps : h <= y
        /\ heap' = h
        /\ newChunks' = IF known THEN newChunks ELSE newChunks + 1
        /\ IF known THEN UNCHANGED <<pc, rd, hashes>>
           ELSE IF TooManyChunks THEN pc' = "end" /\ UNCHANGED <<rd, hashes>>
           ELSE /\ pc' = "chunk" /\ ReadGenerated(h, GenHeader, 1)
                /\ hashes' = IF job.kind = "collect" THEN hashes \cup {hash} ELSE hashes
        /\ UNCHANGED <<mem, build, envVars, jobs, job, modules, listVars, walkVars, heaps,
                       db, gens, written, last>>

HeapsDone ==
    /\ pc = "chunks" /\ MoreHeaps = {} /\ pc' = "end"
    /\ UNCHANGED <<streamVars, envVars, jobs, job, modules, listVars, walkVars, chunkVars,
                   hashVars, gens, written, last>>

\* get_imports_information: the exports the image refers to, the two pages in
\* front of the region included.
BodiesRead == {BodyRead(i) : i \in DOMAIN rd.out} \ {Untouched}
Imports == {a \in UNION {Refs[b] : b \in BodiesRead} : Contains(exports, a)}
GenericHash == <<"imports", Imports>>

CollectChunk ==
    /\ pc = "chunk" /\ job.kind = "collect" /\ ReadDone
    /\ hashes' = hashes \cup ({GenericHash} \ db)
    /\ rd' = NoRead /\ pc' = "chunks"
    /\ UNCHANGED <<mem, build, envVars, jobs, job, modules, listVars, walkVars, chunkVars,
                   db, gens, written, last>>

DumpChunk ==
    /\ pc = "chunk" /\ job.kind = "dump" /\ ReadDone
    /\ rd' = NoRead
    /\ IF GenericHash \notin db /\ Cardinality(Imports) >= 2
       THEN /\ pc' = "generate"
            /\ gens' = Generated(heap, GenHeader, "codechunk", "chunks")
       ELSE pc' = "chunks" /\ UNCHANGED gens
    /\ UNCHANGED <<mem, build, envVars, jobs, job, modules, listVars, walkVars, chunkVars,
                   hashVars, written, last>>

-----------------------------------------------------------------------------
(* Dumping with a generated header, first a 64-bit and then a 32-bit one, and *)
(* dump_region.                                                               *)

BuildHeader ==
    /\ pc = "generate"
    /\ ReadGenerated(gens.at, gens.minSize, 99) /\ pc' = "generated"
    /\ UNCHANGED <<mem, build, envVars, jobs, job, modules, listVars, walkVars, chunkVars,
                   hashVars, gens, written, last>>

\* dump_header: the hash of a generated header is in no database.
DumpGenerated ==
    /\ pc = "generated" /\ ReadDone
    /\ written' = Append(written, File(gens.at, Head(gens.wides), gens.name))
    /\ rd' = NoRead
    /\ gens' = [gens EXCEPT !.wides = Tail(@)]
    /\ IF Len(gens.wides) > 1 THEN pc' = "generate" /\ UNCHANGED <<base, count>>
       ELSE IF gens.back = "pages" THEN NextPage
       ELSE pc' = gens.back /\ UNCHANGED <<base, count>>
    /\ UNCHANGED <<mem, build, envVars, jobs, job, modules, listVars, address, mbi, header,
                   chunkVars, hashVars, last>>

BeginRegion ==
    LET a == job.base
        known == IsHeader(a) /\ Aligned(a) /\ HeaderOf[BodyAt(a)].parses
    IN  /\ pc = "begin" /\ job.kind = "region" /\ ListModules
        /\ IF options.genHeader \/ ~known
           THEN /\ pc' = "generate" /\ UNCHANGED <<rd, header>>
                /\ gens' = Generated(a, RegionMinSize, NameIn(modules', a), "end")
           ELSE /\ header' = HeaderOf[BodyAt(a)] /\ UNCHANGED gens
                /\ IF header'.sections
                   THEN rd' = NewRead(a, header'.pages * PageSize) /\ pc' = "region"
                   ELSE pc' = "end" /\ UNCHANGED rd
        /\ UNCHANGED <<mem, build, envVars, jobs, job, listVars, address, mbi, base, count,
                       chunkVars, hashVars, written, last>>

DumpRegion ==
    /\ pc = "region" /\ ReadDone
    /\ written' = IF ModuleHash(header) \in db THEN written
                  ELSE Append(written, File(job.base, header.wide, NameIn(modules, job.base)))
    /\ rd' = NoRead /\ pc' = "end"
    /\ UNCHANGED <<mem, build, envVars, jobs, job, modules, listVars, walkVars, chunkVars,
                   hashVars, gens, last>>

-----------------------------------------------------------------------------
\* The caller of get_all_hashes adds what it returns to its database.
EndJob ==
    /\ pc = "end" /\ pc' = "ready"
    /\ db' = IF job.kind = "collect" THEN db \cup hashes ELSE db
    /\ UNCHANGED <<streamVars, envVars, jobs, job, modules, listVars, walkVars, chunkVars,
                   hashes, gens, written, last>>

Read == /\ ReadStep
        /\ UNCHANGED <<mem, build, envVars, jobs, pc, job, modules, listVars, walkVars,
                       chunkVars, hashVars, gens, written, last>>

Terminated == pc = "ready" /\ jobs = << >> /\ UNCHANGED vars

Tool == \/ StartJob \/ BeginList \/ (\E b \in todo : LoadExports(b)) \/ LoadName
        \/ (\E a \in found.list.addresses : MergeExport(a)) \/ MergeDone \/ ListDone
        \/ BeginWalk \/ FindHeaps \/ QueryNext \/ NextRegion \/ Skip \/ FoundHeader
        \/ CollectModule \/ DumpModule \/ (\E h \in heaps : LookAtHeap(h)) \/ HeapsDone
        \/ CollectChunk \/ DumpChunk \/ BuildHeader \/ DumpGenerated
        \/ BeginRegion \/ DumpRegion \/ EndJob \/ Read

Next == Tool \/ Flip \/ Terminated
Spec == Init /\ [][Next]_vars /\ WF_vars(Tool)

-----------------------------------------------------------------------------
(* Properties.                                                               *)

TypeOK ==
    /\ pc \in {"ready", "list", "exports", "names", "merge", "begin", "heaps", "walk",
               "pages", "image", "chunks", "chunk", "generate", "generated", "region", "end"}
    /\ rd.loc \in {"idle", "query", "copy"}
    /\ (rd.loc # "idle") <=> (pc \in {"image", "chunk", "generated", "region"})
    /\ address \in Nat /\ base \in Nat /\ count \in 0 .. PageLimit
    /\ heaps \subseteq {PageSize * p : p \in Pages} /\ heap \in heaps \cup {0}
    /\ newChunks \in 0 .. ChunkLimit + 2

\* Before every lookup the filters of both lists agree with what the lists hold,
\* through every order in which names are added and lists are merged.
FiltersExact == ExactFilters(exports) /\ ExactFilters(found.list)

\* What a dump of this memory has to write, said without the walks: the headers in
\* the first PageLimit pages of a region that can be touched ...
RegionStarts == {p \in Pages : p - 1 \in Pages => ~SamePages(p - 1, p)}
StartOf(p) == CHOOSE q \in RegionStarts : q <= p /\ \A k \in q .. p : SamePages(q, k)
ModulePages ==
    {p \in Pages : /\ IsHeader(p * PageSize) /\ StartOf(p) > 0 /\ p - StartOf(p) < PageLimit
                   /\ HeaderOf[mem[p].body].parses /\ HeaderOf[mem[p].body].sections}
UnknownModule(p) ==
    LET h == HeaderOf[mem[p].body]
        iat == (p + h.iat) * PageSize
    IN  <<"module", h.id, IF Accessible(iat) THEN BodyAt(iat) ELSE Untouched>> \notin db
\* ... and the executable regions no module covers that call two exports.
LoosePages ==
    {p \in RegionStarts \ {0} : /\ mem[p].prot = "rx"
        /\ \A m \in ModulePages : p < m \/ p > m + HeaderOf[mem[m].body].pages}
CalledFrom(p) == UNION {Refs[mem[q].body] : q \in {k \in (p - 2) .. LastPage(p) :
                            k \in Pages /\ Accessible(k * PageSize)}}
ImportsOf(p) == CalledFrom(p) \cap exports.addresses
UnknownChunk(p) == /\ <<"crc", mem[p].body>> \notin db
                   /\ <<"imports", ImportsOf(p)>> \notin db
                   /\ Cardinality(ImportsOf(p)) >= 2
Expected == {p \in ModulePages : UnknownModule(p)} \cup
            (IF options.chunks THEN {p \in LoosePages : UnknownChunk(p)} ELSE {})

Settled(kind) == pc = "ready" /\ job.kind = kind /\ changes = 0

\* A dump of a process that stands still writes exactly the modules and the loose
\* chunks that are not known to be clean, unless it gives up on the chunks.
DumpIsComplete ==
    Settled("dump") /\ newChunks <= ChunkLimit + 1 =>
        {PageOf(written[i].base) : i \in DOMAIN written} = Expected

\* After its hashes were collected as clean, a process that stands still is not
\* dumped at all: the two walks see the same modules and the same chunks.  (They
\* do not where an executable region begins with a header that has no sections,
\* and where there are more chunks than the limit.)
BareHeaders == {p \in RegionStarts : /\ mem[p].prot = "rx" /\ IsHeader(p * PageSize)
                                     /\ HeaderOf[mem[p].body].parses
                                     /\ ~HeaderOf[mem[p].body].sections}
NothingNew ==
    /\ Settled("dump") /\ last = "collect"
    /\ BareHeaders = {} /\ Cardinality(LoosePages) <= ChunkLimit + 1
    => written = << >>

\* No address is dumped twice with the same width, even when the regions are cut
\* and joined under the walk.
NothingTwice ==
    \A i, j \in DOMAIN written :
        written[i].base = written[j].base /\ written[i].wide = written[j].wide => i = j

\* Every job ends.
ScanEnds == <>(pc = "ready" /\ jobs = << >>)
=============================================================================
