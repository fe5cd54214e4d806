------------------------------- MODULE PEImage -------------------------------
(* One image on its way from memory, or from a file, to a rebuilt file       *)
(* (pe_header.cpp): the header is read or generated, the sections are laid   *)
(* out in memory, hashes are taken, the entry point and the import table are *)
(* rebuilt and the image is packed into a file.  Memory is counted in cells  *)
(* of a DWORD; a header is one cell, and so is the code at an entry point.   *)
EXTENDS ImportTable, FiniteSets

CONSTANTS Modules,     \* the images: [file, memory, base, end, exports]; end: address ->
                       \* the end of its region, exports: address -> [library, name, ord]
          JobLists,    \* what is done with an image, in order: [what, from]
          OptionSets,  \* [ImportRec, Verbose, ForceEntryPoint, EntryPointHash, AsDll]
          Gap,         \* a cell of memory that cannot be read
          DW,          \* number of values of a DWORD
          Page,        \* 0x1000
          MinHeader,   \* 0x500, what a header needs at least
          SectionsAt, SectionCells, \* where section headers begin, size of one
          SectionNames, Access, \* what sections are called, and what may be done with them
          MaxSections, \* 0x100, and the 99 of a generated header
          MaxSection,  \* MAX_SECTION_SIZE
          CodeCells,   \* the 20 bytes the code of an entry point needs
          EpShorts, Eps, \* the code in the entry-point hash databases
          FullHash     \* code long enough for a hash of its own

\* The headers of a PE file: what the bytes in their place are read as.
DWord == 0 .. DW - 1
SectionHeader == [name : SectionNames, va : DWord, vs : DWord, raw : DWord, ptr : DWord, ch : Access]
Header == [bits : {32, 64}, n : Nat, sa : DWord, fa : DWord, soh : DWord, soi : DWord,
           ep : DWord, base : Int, dll : BOOLEAN, imp : DWord, exp : DWord, iat : DWord,
           secs : Seq(SectionHeader)]

\* A buffer has its cells at 0 .. n - 1.
Size(f) == Cardinality(DOMAIN f)
Buffer(f) == IsFiniteSet(DOMAIN f) /\ DOMAIN f = 0 .. Size(f) - 1

ASSUME ImageAssumption ==
    /\ DW \in Nat \ {0} /\ Page \in Nat \ {0} /\ 2 * Page < DW /\ MaxSection < DW
    /\ {MinHeader, SectionsAt, MaxSections, MaxSection, CodeCells} \subseteq Nat
    /\ MinHeader > 0 /\ SectionCells \in Nat \ {0}
    /\ \A m \in Modules : /\ Buffer(m.file)
                          /\ m.base \in DOMAIN m.memory /\ DOMAIN m.memory \subseteq Int
                          /\ m.end \in [DOMAIN m.memory -> Int]
                          /\ DOMAIN m.exports \subseteq Int \ {0}
                          /\ \A a \in DOMAIN m.exports : m.exports[a].library # NoRva
ASSUME NamesAssumption == {"", "pd_rec"} \subseteq SectionNames /\ {"", "rwx"} \subseteq Access

VARIABLES module, options, jobs, \* chosen at the start
          pc, job,
          pe,      \* the pe_header object
          larger,  \* larger_image
          loop,    \* the loops over the sections: [i, at], where at is the offset
                   \* (image_size, required_space) behind the sections before the i-th
          table,   \* the import table being built: its libraries, and how far its
                   \* descriptors (at) and what they refer to (extra) have got
          file,    \* the file written last
          space,   \* history: that offset, not cut to a DWORD
          dumped,  \* history: header and image of that file, the image as it was read,
                   \* and its import directory
          hashes   \* history: the hashes taken of the module

given == <<module, options, jobs, job>>
done == <<file, dumped, hashes>>
counted == <<loop, space, table>>
vars == <<given, pc, pe, larger, counted, done>>

Empty == [i \in {} |-> Zero]
NoHeader == [bits |-> 0]
NewPe == [stream |-> "none", base |-> 0, hdr |-> NoHeader, raw |-> Empty,
          bits |-> 0, sections |-> FALSE, image |-> Empty, desc |-> NoRva,
          disk |-> Empty, hash |-> << >>,
          epHash |-> [short |-> Zero, full |-> Zero], exports |-> FALSE, imports |-> {}]
NoDump == [hdr |-> NoHeader, image |-> Empty, read |-> Empty, desc |-> NoRva]
NoTable == [libs |-> << >>, at |-> 0, extra |-> 0]

Blank(n) == [i \in 0 .. n - 1 |-> Zero]
Cells(f, at, n) == [i \in 0 .. n - 1 |-> f[at + i]]
InImage(at, n) == Inside(Size(pe.image), at, n)
Larger(a, b) == IF a > b THEN a ELSE b
Lowest(A) == CHOOSE a \in A : \A b \in A : a <= b
Highest(A) == CHOOSE a \in A : \A b \in A : a >= b

Init == /\ module \in Modules /\ options \in OptionSets /\ jobs \in JobLists
        /\ pc = "ready" /\ job = [what |-> "none", from |-> "none"]
        /\ pe = NewPe /\ larger = Empty /\ loop = [i |-> 0, at |-> 0] /\ space = 0 /\ table = NoTable
        /\ file = Empty /\ dumped = NoDump /\ hashes = {}

-----------------------------------------------------------------------------
(* The streams an image is read from.                                        *)

FileCells == IF job.from = "written" THEN file ELSE module.file
Readable(a) == a \in DOMAIN module.memory /\ module.memory[a] # Gap
Accessible(at) == pe.stream = "memory" /\ Readable(pe.base + at)

\* file_stream: read, block_size.
InFile(at) == pe.stream = "file" /\ at \in DOMAIN FileCells
\* process_stream: the cells that can be read, and the region at an offset.
RegionSize(at) == module.end[pe.base + at] - pe.base - at
EstimateSectionSize(at) == IF Accessible(at) THEN RegionSize(at) ELSE 0
BlockSize == CASE pe.stream = "file" -> Size(FileCells)
               [] pe.stream = "memory" -> RegionSize(0)
               [] OTHER -> 0
StreamCell(at, old) == IF Accessible(at) THEN module.memory[pe.base + at]
                       ELSE IF InFile(at) THEN FileCells[at] ELSE old

StartJob == /\ pc = "ready" /\ jobs # << >>
            /\ job' = Head(jobs) /\ jobs' = Tail(jobs) /\ pc' = "open"
            /\ UNCHANGED <<module, options, pe, larger, counted, done>>

\* What is done with a header that is made up: dump_region, dump_all and both of
\* them for a loose region.
Generated == {"generate64", "generate32", "region64", "region32", "chunk"}

\* The constructors: a file, or an address in the process; either may not open.
OpenFile ==
    /\ pc = "open" /\ job.from \in {"file", "written"}
    /\ pe' = [NewPe EXCEPT !.stream = "file"]
    /\ pc' = "header"
    /\ UNCHANGED <<given, larger, counted, done>>

OpenAddress ==
    /\ pc = "open" /\ job.from = "memory" /\ job.what # "is64"
    /\ pe' \in {[NewPe EXCEPT !.stream = s, !.base = module.base] : s \in {"memory", "none"}}
    /\ pc' = IF job.what \in Generated THEN "build" ELSE "header"
    /\ UNCHANGED <<given, larger, counted, done>>

OpenHandle ==
    /\ pc = "open" /\ job.from = "memory" /\ job.what = "is64"
    /\ pe' = [NewPe EXCEPT !.stream = "memory", !.base = module.base]
    /\ pc' = "header"
    /\ UNCHANGED <<given, larger, counted, done>>

-----------------------------------------------------------------------------
(* The header.                                                               *)

\* process_pe_header reads the first region whole.
RawCells == [i \in 0 .. BlockSize - 1 |-> StreamCell(i, Gap)]
IsPE(raw) == /\ Size(raw) >= MinHeader
             /\ \A i \in DOMAIN raw : raw[i] # Gap
             /\ raw[0][1] = "header" /\ raw[0][2] \in Header

ReadHeader ==
    /\ pc = "header"
    /\ IF IsPE(RawCells)
       THEN /\ pe' = [pe EXCEPT !.raw = RawCells, !.hdr = RawCells[0][2],
                                !.bits = RawCells[0][2].bits]
            /\ pc' = IF job.what = "is64" THEN "close" ELSE "sections"
       ELSE pc' = "close" /\ UNCHANGED pe
    /\ UNCHANGED <<given, larger, counted, done>>

\* build_pe_header puts two pages in front of the address ...
HeaderCells == 2 * Page
GeneratedHeader(bits) ==
    [bits |-> bits, n |-> 0, sa |-> Page, fa |-> Page, soh |-> HeaderCells, soi |-> 0,
     ep |-> HeaderCells, base |-> module.base - HeaderCells, dll |-> ~options.AsDll,
     imp |-> 0, exp |-> 0, iat |-> 0, secs |-> << >>]
Build(bits) ==
    pe' = IF pe.stream = "none" THEN pe
          ELSE [pe EXCEPT !.base = @ - HeaderCells, !.hdr = GeneratedHeader(bits),
                          !.bits = bits, !.raw = Blank(HeaderCells)]
Build32 == job.what \in {"generate32", "region32"} /\ Build(32)
Build64 == job.what \in {"generate64", "region64", "chunk"} /\ Build(64)

BuildHeader ==
    /\ pc = "build" /\ (Build32 \/ Build64)
    /\ loop' = [i |-> 0, at |-> HeaderCells]
    /\ pc' = IF pe.stream = "none" THEN "close" ELSE "regions"
    /\ UNCHANGED <<given, larger, space, table, done>>

\* ... and from there on to the first gap every region becomes a section (its name
\* has its number in it).  The minimum size dump_region asks for is larger than the two
\* pages, which ends the loop at once.
SectionLimit == CASE job.what = "chunk" -> 1
                  [] job.what \in {"region64", "region32"} -> 0
                  [] OTHER -> MaxSections
MoreRegions == EstimateSectionSize(loop.at) # 0 /\ loop.i < SectionLimit
BuildSection ==
    LET at == loop.at % DW
        size == EstimateSectionSize(loop.at)
    IN  /\ pc = "regions" /\ MoreRegions
        /\ pe' = [pe EXCEPT !.hdr.secs = Append(@, [name |-> "pd_rec", va |-> at,
                         vs |-> size % DW, raw |-> size % DW, ptr |-> at, ch |-> "rwx"])]
        /\ loop' = [i |-> loop.i + 1, at |-> loop.at + size]
        /\ UNCHANGED <<given, pc, larger, space, table, done>>
EndBuild ==
    /\ pc = "regions" /\ ~MoreRegions
    /\ pe' = [pe EXCEPT !.hdr.n = loop.i, !.hdr.soi = loop.at % DW]
    /\ pc' = "sections"
    /\ UNCHANGED <<given, larger, counted, done>>

-----------------------------------------------------------------------------
(* The sections, process_sections.                                           *)

\* Section headers that were not there when the header was made are zeros.
NoSection == [name |-> "", va |-> 0, vs |-> 0, raw |-> 0, ptr |-> 0, ch |-> ""]
Sections(h) == [i \in 1 .. h.n |-> IF i \in DOMAIN h.secs THEN h.secs[i] ELSE NoSection]

Least(a, b) == IF a < b THEN a ELSE b
\* The section headers that fit into what was read, and no more than 0x100.
Room == (Size(pe.raw) - SectionsAt - 1) \div SectionCells
CountSections ==
    LET n == Least(pe.hdr.n, MaxSections)
        m == IF Inside(Size(pe.raw), SectionsAt, n * SectionCells) THEN n ELSE Room
        h == [pe.hdr EXCEPT !.n = m]
    IN  IF Inside(Size(pe.raw), SectionsAt, SectionCells)
        THEN /\ pe' = [pe EXCEPT !.sections = TRUE, !.hdr = [h EXCEPT !.secs = Sections(h)]]
             /\ pc' = "load"
        ELSE /\ pe' = [pe EXCEPT !.hdr.n = n]
             /\ pc' = "close"

CountSections32 == pe.bits = 32 /\ CountSections
CountSections64 == pe.bits = 64 /\ CountSections

ParseSections ==
    /\ pc = "sections" /\ (CountSections32 \/ CountSections64)
    /\ UNCHANGED <<given, larger, counted, done>>

\* The size of the image: the end of the last section or the size the header
\* gives, whichever is larger, in the arithmetic of a DWORD.
EndOfSections ==
    LET last == pe.hdr.secs[pe.hdr.n]
    IN  IF pe.hdr.n = 0 THEN 0
        ELSE IF last.vs <= MaxSection THEN (last.va + last.vs) % DW
        ELSE IF last.va < pe.hdr.soi /\ pe.hdr.soi < (last.va + MaxSection) % DW
             THEN pe.hdr.soi
        ELSE (last.va + MaxSection) % DW
SizeLimit(n) == (MaxSection * (n + 1)) % DW
ImageSize == Least(Larger(EndOfSections, pe.hdr.soi), SizeLimit(pe.hdr.n))

\* A file is read section by section, each to its virtual address ...
Holding(a, size) == {i \in 1 .. pe.hdr.n :
    LET s == pe.hdr.secs[i]
    IN  /\ Inside(size, s.va, s.raw) /\ a >= s.va /\ a < s.va + s.raw
        /\ InFile(s.ptr + a - s.va)}
FileImage(size) ==
    [a \in 0 .. size - 1 |->
        LET in == Holding(a, size)
            s == pe.hdr.secs[Highest(in)]
        IN  IF in # {} THEN FileCells[s.ptr + a - s.va]
            ELSE IF Inside(size, 0, pe.hdr.soh) /\ a < pe.hdr.soh THEN StreamCell(a, Zero)
            ELSE Zero]
\* ... and memory as it is; what cannot be read stays zero.
MemoryImage(size) == [a \in 0 .. size - 1 |-> StreamCell(a, Zero)]

LoadImage == pe' = [pe EXCEPT !.image = IF pe.stream = "file" THEN FileImage(ImageSize)
                                        ELSE MemoryImage(ImageSize)]
LoadImage32 == pe.bits = 32 /\ LoadImage
LoadImage64 == pe.bits = 64 /\ LoadImage

LoadSections ==
    /\ pc = "load" /\ (LoadImage32 \/ LoadImage64)
    /\ pc' = CASE job.what \in {"clean", "collect"} -> "hash"
                [] job.what = "exports" -> "exports"
                [] job.what = "chunk" -> "references"
                [] OTHER -> "imports"
    /\ UNCHANGED <<given, larger, counted, done>>

-----------------------------------------------------------------------------
(* The directories of the image.                                             *)

\* process_import_directory gives every entry of an import address table the
\* value of the original table, as long as both hold one: four bytes at a time,
\* in a 64-bit image too.
IsDescriptor(i) == DescriptorAt(pe.image, Size(pe.image), pe.hdr.imp, i)[1] = "descriptor"
Descriptors == {i \in 0 .. Size(pe.image) - 1 : \A j \in 0 .. i : IsDescriptor(j)}
Entries(d) == {k \in 0 .. Size(pe.image) - 1 : \A j \in 0 .. k :
    /\ InImage(d[4] + j, 1) /\ InImage(d[2] + j, 1)
    /\ pe.image[d[4] + j] # Zero /\ pe.image[d[2] + j] # Zero}
Restored ==
    [a \in DOMAIN pe.image |->
        LET from == {q \in Descriptors \X DOMAIN pe.image :
                        LET d == pe.image[pe.hdr.imp + q[1]]
                        IN  q[2] \in Entries(d) /\ d[4] + q[2] = a}
        IN  IF from = {} THEN pe.image[a]
            ELSE LET p == CHOOSE p \in from : \A q \in from : q[1] <= p[1]
                 IN  pe.image[pe.image[pe.hdr.imp + p[1]][2] + p[2]]]

RestoreThunks ==
    pe' = IF pe.hdr.imp = 0 \/ Descriptors = {} THEN pe
          ELSE [pe EXCEPT !.image = Restored, !.desc = pe.hdr.imp]
RestoreThunks32 == pe.bits = 32 /\ RestoreThunks
RestoreThunks64 == pe.bits = 64 /\ RestoreThunks

ImportDirectory ==
    /\ pc = "imports" /\ (RestoreThunks32 \/ RestoreThunks64)
    /\ pc' = "hash"
    /\ UNCHANGED <<given, larger, counted, done>>

\* process_export_directory hands what it finds to the export list.
ExportDirectory ==
    /\ pc = "exports"
    /\ pe' = [pe EXCEPT !.exports = InImage(pe.hdr.exp, 1)]
    /\ pc' = "close"
    /\ UNCHANGED <<given, larger, counted, done>>

-----------------------------------------------------------------------------
(* Hashes.                                                                   *)

\* Mutant: every entry is taken for four bytes.
WidthAlways4 == 1

\* process_hash: which entries of the import addresses are zero, up to two zeros
\* in a row or the end of the image, and the sections.
Width == IF pe.bits = 32 THEN 1 ELSE 2
IatInside(i) == InImage(pe.hdr.iat + i * Width, Width)
IatZero(i) == \A c \in 0 .. Width - 1 : pe.image[pe.hdr.iat + i * Width + c] = Zero
IatEnds(i) == ~IatInside(i) \/ (i > 0 /\ IatZero(i) /\ IatZero(i - 1))
IatLength == CHOOSE n \in 0 .. Size(pe.image) : IatEnds(n) /\ \A i \in 0 .. n - 1 : ~IatEnds(i)
Hash == <<[i \in 1 .. IatLength |-> IatZero(i - 1)],
          [i \in DOMAIN pe.hdr.secs |-> <<pe.hdr.secs[i].name, pe.hdr.secs[i].raw,
                                          pe.hdr.secs[i].ch>>]>>

\* The first eight bytes of the code at an offset, and the hash of its instructions,
\* for which there have to be enough of them; none with -nep.
HashShortAsm(at, on) == IF at # 0 /\ on /\ InImage(at, 2) THEN pe.image[at] ELSE Zero
HashAsm(at, on) == IF /\ at # 0 /\ on /\ InImage(at, CodeCells)
                      /\ pe.image[at] \in FullHash
                   THEN <<"full", pe.image[at]>> ELSE Zero
HashEp(on) == LET ep == pe.hdr.ep
              IN  [short |-> HashShortAsm(ep, on),
                   full |-> IF HashShortAsm(ep, on) = Zero THEN Zero ELSE HashAsm(ep, on)]

\* add_file leaves the option uninitialised.
EntryPointHash == IF job.what = "clean" THEN BOOLEAN ELSE {options.EntryPointHash}

TakeHash ==
    /\ pc = "hash"
    /\ \E on \in EntryPointHash :
          pe' = [pe EXCEPT !.hash = Hash,
                   !.epHash = IF job.what \in {"clean", "collect"} THEN HashEp(on) ELSE @]
    /\ hashes' = IF job.from = "written" \/ job.what \in Generated THEN hashes
                 ELSE hashes \cup {[hash |-> pe'.hash, ep |-> pe'.epHash]}
    /\ pc' = IF job.what \in {"clean", "collect"} THEN "close" ELSE "entry"
    /\ UNCHANGED <<given, larger, counted, file, dumped>>

\* get_imports_information: the exports the image holds the address of, 32-bit
\* addresses unsigned, up to its last eight bytes.
Scanned == {a \in DOMAIN pe.image : a < Size(pe.image) - 2}
Value(c) == IF c[1] = "number" THEN c[2] ELSE 0
Value64(a) == Value(pe.image[a]) + DW * Value(pe.image[a + 1])
Referenced == {Value(pe.image[a]) : a \in Scanned} \cup
              {v \in {Value64(a) : a \in Scanned} : v >= DW}
CountImports ==
    /\ pc = "references"
    /\ pe' = [pe EXCEPT !.imports = Referenced \cap DOMAIN module.exports]
    /\ pc' = "close"
    /\ UNCHANGED <<given, larger, counted, done>>

-----------------------------------------------------------------------------
(* The entry point and the import table, process_disk_image.                 *)

EntryPointLost == \/ pe.hdr.ep \in {0, HeaderCells} \/ options.ForceEntryPoint
                  \/ ~InImage(pe.hdr.ep, CodeCells)
\* A known short hash is a candidate, with a known full hash a good one: the first
\* good one is taken, or the last if Verbose is on, or else the first candidate.
Candidates == {a \in Scanned : a >= Page /\ pe.image[a] \in EpShorts}
Strong == {a \in Candidates : HashAsm(a, options.EntryPointHash) # Zero /\ pe.image[a] \in Eps}
BestEntryPoint == IF Strong # {} THEN IF options.Verbose THEN Highest(Strong) ELSE Lowest(Strong)
                  ELSE IF Candidates # {} THEN Lowest(Candidates) ELSE pe.hdr.ep
RebuildEntryPoint ==
    pe' = [pe EXCEPT !.hdr.ep = IF EntryPointLost THEN BestEntryPoint ELSE @]
RebuildEntryPoint32 == pe.bits = 32 /\ RebuildEntryPoint
RebuildEntryPoint64 == pe.bits = 64 /\ RebuildEntryPoint

\* The loop ends eight bytes before the end of the image, in unsigned arithmetic:
\* an image of less than that is read beyond its end.
EntryPoint ==
    /\ pc = "entry" /\ Size(pe.image) >= 2 /\ (RebuildEntryPoint32 \/ RebuildEntryPoint64)
    /\ pc' = "table"
    /\ UNCHANGED <<given, larger, counted, done>>

Align(a, n) == IF n > 0 /\ a % n > 0 THEN a - (a % n) + n ELSE a

\* A place that holds the address of an export: in a 32-bit image the address is
\* sign-extended before it is looked up.  (A value is passed over if it is the last one
\* that was no export, or 0 in the beginning: never that of an export.)
Candidate32(a) == LET v == Value(pe.image[a]) IN IF 2 * v < DW THEN v ELSE NoRva
Candidate64(a) == Value64(a)
Candidate(a) == IF pe.bits = 32 THEN Candidate32(a) ELSE Candidate64(a)
References == {a \in Scanned : Candidate(a) \in DOMAIN module.exports}

Fixup(a) == LET e == module.exports[Candidate(a)]
            IN  IF e.name # NoRva THEN ByName(e.library, e.name, a)
                ELSE ByOrdinal(e.library, e.ord, a)
Libraries ==
    LET nth(i) == CHOOSE a \in References : Cardinality({b \in References : b < a}) = i - 1
    IN  OldLibraries(pe.image, Size(pe.image), pe.desc) \o
        [i \in 1 .. Cardinality(References) |-> Fixup(nth(i))]

Extended(n) == [a \in 0 .. n - 1 |-> IF a \in DOMAIN pe.image THEN pe.image[a] ELSE Zero]

\* The last section grows to hold the table.  If there is none, the same two writes
\* land in front of the section headers, in the data directories.
GrowLast(hdr, by) ==
    IF hdr.n = 0 THEN [hdr EXCEPT !.iat = (Align(@, hdr.sa) + by) % DW]
    ELSE LET vs == (Align(hdr.secs[hdr.n].vs, hdr.sa) + by) % DW
         IN  [hdr EXCEPT !.secs[hdr.n] = [@ EXCEPT !.vs = vs, !.raw = vs]]

\* The table is placed at the aligned size of the image ...
TableStart == Align(Size(pe.image), pe.hdr.sa)
TableSize(libs) == Align(DescriptorSize(libs) + DataSize(libs), pe.hdr.sa)
MakeRoom ==
    /\ larger' = Extended(TableStart + TableSize(Libraries))
    /\ pe' = [pe EXCEPT !.hdr = GrowLast(@, TableSize(Libraries))]
    /\ table' = [libs |-> Libraries, at |-> 0, extra |-> DescriptorSize(Libraries)]
    /\ loop' = [loop EXCEPT !.i = 1]
    /\ pc' = "libraries"
KeepImports == /\ larger' = pe.image /\ pc' = "layout"
               /\ UNCHANGED <<pe, table, loop>>
TableStep == IF options.ImportRec THEN pe.hdr.sa > 0 /\ MakeRoom ELSE KeepImports
ImportTable32 == pe.bits = 32 /\ TableStep
ImportTable64 == pe.bits = 64 /\ TableStep

RebuildImports ==
    /\ pc = "table" /\ (ImportTable32 \/ ImportTable64)
    /\ UNCHANGED <<given, space, done>>

\* ... and built one library after the other, with addresses that are counted from
\* the size itself.
AddLibrary ==
    /\ pc = "libraries" /\ loop.i <= Len(table.libs)
    /\ LET t == BuildLibrary([cells |-> larger, at |-> table.at, extra |-> table.extra],
                             TableStart, Size(larger) - TableStart, Size(pe.image),
                             table.libs[loop.i])
       IN  larger' = t.cells /\ table' = [table EXCEPT !.at = t.at, !.extra = t.extra]
    /\ loop' = [loop EXCEPT !.i = @ + 1]
    /\ UNCHANGED <<given, pc, pe, space, done>>

\* At the end an empty descriptor is put behind the last one, and the import directory is
\* moved to the table.
WithBlank == IF Inside(Size(larger) - TableStart, table.at, DescriptorCells)
             THEN [larger EXCEPT ![TableStart + table.at] = Zero] ELSE larger
EndTable ==
    /\ pc = "libraries" /\ loop.i > Len(table.libs)
    /\ larger' = WithBlank
    /\ pe' = [pe EXCEPT !.hdr.imp = TableStart % DW]
    /\ table' = NoTable
    /\ pc' = "layout"
    /\ UNCHANGED <<given, loop, space, done>>

\* What no guard of the code prevents: reading beyond an image of less than eight
\* bytes, and dividing by a section alignment of zero.
Crash ==
    /\ \/ pc = "entry" /\ Size(pe.image) < 2 /\ EntryPointLost
       \/ pc = "table" /\ options.ImportRec /\ pe.hdr.sa = 0
    /\ pc' = "crashed"
    /\ UNCHANGED <<given, pe, larger, counted, done>>

-----------------------------------------------------------------------------
(* The layout of the file and the packing, process_disk_image.               *)

\* One section, once the ones before it take up the file up to at: a size that is
\* too large is cut at the next section or at the maximum, and then at the end of
\* the image; the file holds at least the virtual size.
CutAtNext(secs, i) ==
    IF /\ i + 1 \in DOMAIN secs /\ secs[i + 1].va > secs[i].va
       /\ secs[i + 1].va < (secs[i].va + MaxSection) % DW
    THEN secs[i + 1].va - secs[i].va ELSE MaxSection
Place(secs, i, at) ==
    LET s  == secs[i]
        v1 == IF s.vs > MaxSection THEN CutAtNext(secs, i) ELSE s.vs
        v2 == IF (v1 + s.va) % DW > Size(larger) THEN (Size(larger) - s.va) % DW ELSE v1
    IN  [s EXCEPT !.vs = v2, !.raw = Larger(@, v2), !.ptr = at]

\* Mutant: the next section follows the virtual size of the one before.
BehindTight(s, h, at) == Align(at + s.vs, h.sa)

Headers(h) == Align(h.soh, h.sa)
\* The next section follows the raw data.
Behind(s, h, at) == Align(at + s.raw, h.sa)

\* A 32-bit image base is cut to a DWORD; an address of 0 is that of a file.
ImageBase32 == pe.base % DW
ImageBase64 == pe.base
NewBase == IF pe.base = 0 THEN pe.hdr.base
           ELSE IF pe.bits = 32 THEN ImageBase32 ELSE ImageBase64

Layout ==
    /\ pe' = [pe EXCEPT !.hdr.fa = pe.hdr.sa, !.hdr.base = NewBase,
                        !.hdr.soh = Headers(pe.hdr) % DW]
    /\ loop' = [i |-> 1, at |-> Headers(pe'.hdr) % DW]
    /\ space' = Align(Headers(pe.hdr), pe.hdr.sa)
Layout32 == pe.bits = 32 /\ Layout
Layout64 == pe.bits = 64 /\ Layout

LayOutHeaders ==
    /\ pc = "layout" /\ (Layout32 \/ Layout64)
    /\ pc' = "place"
    /\ UNCHANGED <<given, larger, table, done>>

\* One section after the other gets its place, ...
PlaceOne == LET s == Place(pe.hdr.secs, loop.i, loop.at)
            IN  /\ loop.i <= pe.hdr.n
                /\ pe' = [pe EXCEPT !.hdr.secs[loop.i] = s]
                /\ loop' = [i |-> loop.i + 1, at |-> Behind(s, pe.hdr, loop.at % DW) % DW]
                /\ space' = Behind(s, pe.hdr, space)
PlaceOne32 == pe.bits = 32 /\ PlaceOne
PlaceOne64 == pe.bits = 64 /\ PlaceOne
PlaceSection == /\ pc = "place" /\ (PlaceOne32 \/ PlaceOne64)
                /\ UNCHANGED <<given, pc, larger, table, done>>

\* ... and the space they take is what the file will take.
EndLayout ==
    /\ pc = "place" /\ loop.i > pe.hdr.n
    /\ pe' = [pe EXCEPT !.hdr.soi = loop.at]
    /\ pc' = "copy"
    /\ UNCHANGED <<given, larger, counted, done>>

\* Mutant: the header goes out as it was read.
RawCellOld(i) == pe.raw[i]

\* The changed header goes over the one in the image: SizeOfHeaders of it, or what
\* was read of it if that is less, if the image has room for it.
RawCell(i) == IF i = 0 THEN <<"header", pe.hdr>> ELSE pe.raw[i]
HeaderCopied == LET fits(n) == n <= Size(larger) /\ n <= Size(pe.raw)
                IN  IF fits(pe.hdr.soh) THEN pe.hdr.soh
                    ELSE IF fits(Size(pe.raw)) THEN Size(pe.raw) ELSE 0
CopyHeader32 == pe.bits = 32
CopyHeader64 == pe.bits = 64
CopyHeader ==
    /\ pc = "copy" /\ (CopyHeader32 \/ CopyHeader64)
    /\ larger' = [a \in DOMAIN larger |-> IF a < HeaderCopied THEN RawCell(a) ELSE larger[a]]
    /\ pc' = "pack"
    /\ UNCHANGED <<given, pe, counted, done>>

\* Headers and sections are copied to their place in the file, if both ends fit.
Copied(a, size) == {i \in 1 .. pe.hdr.n :
    LET s == pe.hdr.secs[i]
    IN  /\ Inside(size, s.ptr, s.raw) /\ Inside(Size(larger), s.va, s.raw)
        /\ a >= s.ptr /\ a < s.ptr + s.raw}
DiskImage(size) ==
    [a \in 0 .. size - 1 |->
        LET in == Copied(a, size)
            s == pe.hdr.secs[Highest(in)]
        IN  IF in # {} THEN larger[s.va + a - s.ptr]
            ELSE IF pe.hdr.soh <= size /\ pe.hdr.soh <= Size(larger) /\ a < pe.hdr.soh
                 THEN larger[a] ELSE Zero]
Pack == pe' = [pe EXCEPT !.disk = DiskImage(pe.hdr.soi)]
Pack32 == pe.bits = 32 /\ Pack
Pack64 == pe.bits = 64 /\ Pack

PackSections ==
    /\ pc = "pack" /\ (Pack32 \/ Pack64)
    /\ pc' = "write"
    /\ UNCHANGED <<given, larger, counted, done>>

\* write_image; a file that cannot be opened is passed over in silence.
WriteImage ==
    /\ pc = "write" /\ pc' = "close"
    /\ \/ /\ Size(pe.disk) > 0 /\ file' = pe.disk
          /\ dumped' = [hdr |-> pe.hdr, image |-> larger, read |-> pe.image, desc |-> pe.desc]
       \/ UNCHANGED <<file, dumped>>
    /\ UNCHANGED <<given, pe, larger, counted, hashes>>

\* The destructor.
Close ==
    /\ pc = "close" /\ pe' = NewPe /\ larger' = Empty /\ pc' = "ready"
    /\ UNCHANGED <<given, counted, done>>

Terminated == pc = "crashed" \/ (pc = "ready" /\ jobs = << >>)
Stop == Terminated /\ UNCHANGED vars

Next == \/ StartJob \/ OpenFile \/ OpenAddress \/ OpenHandle \/ ReadHeader \/ BuildHeader
        \/ BuildSection \/ EndBuild \/ ParseSections \/ LoadSections \/ ImportDirectory \/ ExportDirectory
        \/ TakeHash \/ CountImports \/ EntryPoint \/ RebuildImports \/ AddLibrary \/ EndTable
        \/ LayOutHeaders \/ PlaceSection \/ EndLayout \/ CopyHeader \/ PackSections \/ WriteImage \/ Close \/ Crash \/ Stop
Spec == Init /\ [][Next]_vars

-----------------------------------------------------------------------------
(* Properties.                                                               *)

\* Whatever the header says, every section that lies in the image is in the file at
\* its pointer, unharmed by the header and by the sections before and behind it, as
\* long as the sizes do not add up to more than a DWORD holds.
FileHoldsSections ==
    pc = "write" /\ space < DW =>
        \A i \in 1 .. pe.hdr.n :
            LET s == pe.hdr.secs[i]
            IN  /\ s.ptr >= pe.hdr.soh /\ Inside(Size(pe.disk), s.ptr, s.raw)
                /\ Inside(Size(larger), s.va, s.raw) =>
                     \A k \in 0 .. s.raw - 1 : pe.disk[s.ptr + k] = larger[s.va + k]

\* A header as a linker makes it: room for the section headers, the sections aligned
\* and one behind the other, no larger than an image of so many sections may be.
Tidy(h, size) ==
    /\ h.sa > 0 /\ h.n > 0 /\ h.soh = h.secs[1].va
    /\ SectionsAt + h.n * SectionCells <= h.soh
    /\ \A i \in 1 .. h.n :
          LET s   == h.secs[i]
              end == Align(s.va + s.vs, h.sa)
          IN  /\ s.va % h.sa = 0 /\ s.raw <= Align(s.vs, h.sa)
              /\ IF i < h.n THEN h.secs[i + 1].va = end
                 ELSE s.va + s.raw <= size /\ end <= SizeLimit(h.n)

\* The file that was written, loaded again (add_file).
Reloaded == /\ pc = "hash" /\ job = [what |-> "clean", from |-> "written"]
            /\ dumped.hdr # NoHeader
            /\ Tidy(dumped.hdr, Size(dumped.image))

\* The image that is loaded from a dumped file is the image that was dumped.
RoundTrip ==
    Reloaded => /\ pe.hdr = dumped.hdr
                /\ \A i \in 1 .. pe.hdr.n : LET s == pe.hdr.secs[i] IN
                     \A a \in s.va .. s.va + s.raw - 1 : pe.image[a] = dumped.image[a]

\* What a loader takes from a descriptor: where the address goes, and for what.
Imported(d) == LET thunk == pe.image[d[2]]
               IN  <<d[4], pe.image[d[3]],
                     IF thunk[1] = "number" THEN pe.image[thunk[2]] ELSE thunk>>
\* What the image referred to when it was read, as the address of an export in its width.
AddressAt(a) == IF dumped.hdr.bits = 32 THEN Value(dumped.read[a])
                ELSE Value(dumped.read[a]) + DW * Value(dumped.read[a + 1])
Found == {a \in 0 .. Size(dumped.read) - 3 :
             /\ AddressAt(a) \in DOMAIN module.exports
             /\ dumped.hdr.bits = 32 => 2 * AddressAt(a) < DW}
Wanted == {LET e == module.exports[AddressAt(a)]
           IN  <<a, <<"library", e.library>>,
                 IF e.name # NoRva THEN <<"import", e.name>> ELSE <<"ordinal", e.ord>> >> :
           a \in Found}

\* An image whose size is aligned and that ends in its last section, so that the section
\* holds the table.
TableInLast ==
    LET last == dumped.hdr.secs[dumped.hdr.n]
    IN  /\ Size(dumped.read) % dumped.hdr.sa = 0
        /\ last.va <= Size(dumped.read) /\ Size(dumped.image) <= last.va + last.raw

\* The import directory of the dumped file has the descriptors the image had, and then
\* one for every place that holds the address of an export, under the right names.
\* (Not the last eight bytes, and not an address in the upper half of a 32-bit process.)
TableReads ==
    Reloaded /\ options.ImportRec /\ TableInLast =>
        LET before == OldLibraries(dumped.read, Size(dumped.read), dumped.desc)
            now    == OldLibraries(pe.image, Size(pe.image), pe.hdr.imp)
        IN  /\ Len(before) <= Len(now) /\ \A i \in 1 .. Len(before) : now[i] = before[i]
            /\ {Imported(now[i].descriptor) : i \in Len(before) + 1 .. Len(now)} = Wanted

\* The cell of a linked file that belongs at an address: of a section's raw data, of the
\* headers, or none.
Linked(f, h, a) ==
    LET in == {i \in 1 .. h.n : a \in h.secs[i].va .. h.secs[i].va + h.secs[i].raw - 1}
        s  == h.secs[CHOOSE i \in in : TRUE]
    IN  IF in # {} THEN f[s.ptr + a - s.va] ELSE IF a < h.soh THEN f[a] ELSE Zero

\* A module that a linker has made and the loader has put into memory.  The loader binds the
\* import addresses, which leaves those empty that are empty, and moves the image to another
\* base, but the code at the entry point stays as it is.
LoadedAsLinked(m) ==
    LET f      == m.file
        h      == f[0][2]
        last   == h.secs[h.n]
        mem(a) == m.memory[m.base + a]
        width  == IF h.bits = 32 THEN 1 ELSE 2
        Entry(i) == {h.iat + i * width + c : c \in 0 .. width - 1}
    IN  /\ IsPE(f) /\ Len(h.secs) = h.n /\ h.n <= MaxSections
        /\ Tidy(h, h.soi) /\ h.soi = Align(last.va + last.vs, h.sa)
        /\ h.soh <= Size(f) /\ \A i \in 1 .. h.n : h.secs[i].ptr + h.secs[i].raw <= Size(f)
        /\ \A a \in 0 .. h.soi - 1 : m.base + a \in DOMAIN m.memory /\ mem(a) # Gap
        /\ m.end[m.base] - m.base \in Larger(h.soh, MinHeader) .. h.soi
        /\ mem(0)[1] = "header" /\ mem(0)[2] \in Header
        /\ [mem(0)[2] EXCEPT !.base = h.base] = h
        /\ \A i \in 0 .. h.soi - 1 : Entry(i) \subseteq 0 .. h.soi - 1 =>
              ((\A a \in Entry(i) : mem(a) = Zero) = (\A a \in Entry(i) : Linked(f, h, a) = Zero))
        /\ h.ep \in 1 .. h.soi - 1 => mem(h.ep) = Linked(f, h, h.ep)

\* Such a module has the same hash on disk, loaded in a process, and while it is dumped,
\* after the import directory has been gone over; and so has its entry point, if its hash
\* was taken.
SameHash ==
    LoadedAsLinked(module) =>
        /\ \A g, h \in hashes : g.hash = h.hash
        /\ \A g, h \in hashes : /\ Zero \notin {g.ep.short, h.ep.short} => g.ep = h.ep
=============================================================================
