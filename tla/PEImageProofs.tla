--------------------------- MODULE PEImageProofs ----------------------------
(***************************************************************************)
(* Theorems about PEImage, for every image, whatever its header says: the  *)
(* sections of a file that is written lie where the header says, none on   *)
(* another and none on the header, and hold what was in memory.            *)
(***************************************************************************)
EXTENDS PEImage, FiniteSetTheorems, SequenceTheorems, TLAPS

(* What the fields and the buffers are.                                    *)

WithHeader == {"regions", "sections", "load", "imports", "exports", "hash", "references",
               "entry", "table", "libraries", "layout", "place", "copy", "pack", "write"}
WithSections == WithHeader \ {"regions", "sections"}

\* The loops over the sections count up; the offset is a DWORD when they lay the file out.
LoopOK == /\ loop \in [i : Nat, at : Int] /\ space \in Nat
          /\ pc = "place" => loop.i >= 1 /\ loop.at \in DWord

\* There is a header, all of whose fields are in their range, once it has been read
\* or made, and it has as many sections as it says, and no more than the code
\* wants, once they have been parsed.
HeaderOK == /\ DOMAIN pe = DOMAIN NewPe
            /\ pc \in WithHeader => pe.hdr \in Header /\ 0 \in DOMAIN pe.raw
            /\ pc \in WithSections => Len(pe.hdr.secs) = pe.hdr.n /\ pe.hdr.n <= MaxSections

\* An image is read from where it is.
StreamOK == /\ module \in Modules /\ pe.base \in Int
            /\ pc = "header" /\ pe.stream = "memory" => pe.base = module.base

\* An address in an image is a DWORD.
BuffersOK == /\ Buffer(pe.raw) /\ Buffer(pe.image) /\ Buffer(pe.disk)
             /\ Buffer(larger) /\ Buffer(file)
             /\ Size(pe.image) < DW

ImageInv == LoopOK /\ HeaderOK /\ StreamOK /\ BuffersOK

(* The layout of the file.                                                 *)

\* Of the sections in front of the i-th, each lies behind the header and behind
\* those before it, and ends before at.
Laid(h, i, at) ==
    /\ h.soh <= at
    /\ \A j \in 1 .. i - 1 :
          /\ h.soh <= h.secs[j].ptr /\ h.secs[j].ptr + h.secs[j].raw <= at
          /\ \A k \in 1 .. j - 1 : h.secs[k].ptr + h.secs[k].raw <= h.secs[j].ptr

\* As long as the space is less than a DWORD the offset is the space, and what
\* has been placed is laid out; the size of the file is the space in the end.
LayoutInv ==
    /\ pc \in {"place", "copy", "pack", "write"} /\ space < DW =>
          loop.at = space /\ Laid(pe.hdr, loop.i, space)
    /\ pc \in {"copy", "pack", "write"} => loop.i > pe.hdr.n /\ pe.hdr.soi = loop.at
    /\ pc = "write" => pe.disk = DiskImage(pe.hdr.soi)

(* The file, loaded again.                                                 *)

\* Where the i-th section is put: behind the headers, or behind the section before.
Offset(h, i) == (IF i = 1 THEN Headers(h) ELSE Behind(h.secs[i - 1], h, h.secs[i - 1].ptr)) % DW

\* The sections in front of the i-th have their place, and at is that of the i-th.
Chain(h, i, at) ==
    /\ at = Offset(h, i)
    /\ \A j \in 1 .. i - 1 : h.secs[j].ptr = Offset(h, j) /\ h.secs[j].vs <= h.secs[j].raw

\* The header is in front of the image, if it has any room there.
HeaderThere(h, image) == h.soh > 0 /\ h.soh <= Size(image) => image[0] = <<"header", h>>

\* What DiskImage makes of a header and an image.
PackedAt(h, image, a) == {i \in 1 .. h.n :
    LET s == h.secs[i]
    IN  /\ Inside(h.soi, s.ptr, s.raw) /\ Inside(Size(image), s.va, s.raw)
        /\ a >= s.ptr /\ a < s.ptr + s.raw}
FileOf(h, image) ==
    [a \in 0 .. h.soi - 1 |->
        LET in == PackedAt(h, image, a)
            s == h.secs[Highest(in)]
        IN  IF in # {} THEN image[s.va + a - s.ptr]
            ELSE IF h.soh <= h.soi /\ h.soh <= Size(image) /\ a < h.soh
                 THEN image[a] ELSE Zero]

\* The places are handed out one after the other, and then the header is copied.
ChainInv ==
    /\ pc = "place" => loop.i <= pe.hdr.n + 1 /\ Chain(pe.hdr, loop.i, loop.at)
    /\ pc \in {"copy", "pack", "write"} => Chain(pe.hdr, pe.hdr.n + 1, pe.hdr.soi)
    /\ pc \in {"pack", "write"} => HeaderThere(pe.hdr, larger)

\* The file that was written last is that of the header and the image it was made of.
FileInv ==
    LET h == dumped.hdr
    IN  h # NoHeader =>
          /\ h \in Header /\ Len(h.secs) = h.n /\ h.n <= MaxSections /\ Buffer(dumped.image)
          /\ Chain(h, h.n + 1, h.soi) /\ HeaderThere(h, dumped.image)
          /\ file = FileOf(h, dumped.image)

\* The way of a file that was written and is loaded again: its header is the one that was
\* written, and its sections hold what was in memory.
Again == job = [what |-> "clean", from |-> "written"]
Known == dumped.hdr # NoHeader /\ Tidy(dumped.hdr, Size(dumped.image))
SameSections(h, image) == \A i \in 1 .. h.n : LET s == h.secs[i] IN
    \A a \in s.va .. s.va + s.raw - 1 : a \in DOMAIN pe.image /\ pe.image[a] = image[a]
ReloadInv ==
    Again =>
      /\ pc \in {"ready", "open", "header", "sections", "load", "hash", "close"}
      /\ pc \in {"header", "sections", "load", "hash"} => pe.stream = "file"
      /\ pc = "sections" => pe.hdr = file[0][2] /\ Size(pe.raw) = Size(file)
      /\ Known /\ pc \in {"load", "hash"} => pe.hdr = dumped.hdr
      /\ Known /\ pc = "hash" => SameSections(pe.hdr, dumped.image)

(* The hashes of a module that the loader has put into memory.             *)

\* The header of its file, its image in memory, and the image its file holds.
Origin(m) == m.file[0][2]
InMemory(m, a) == m.memory[m.base + a]
InFileOf(m, a) == Linked(m.file, Origin(m), a)

\* The entries of its import addresses: where the i-th is, whether it is zero, and at which
\* of them they may end.
EntryWidth(m) == IF Origin(m).bits = 32 THEN 1 ELSE 2
EntryCells(m, i) == {Origin(m).iat + i * EntryWidth(m) + c : c \in 0 .. EntryWidth(m) - 1}
EntryInside(m, i) == EntryCells(m, i) \subseteq 0 .. Origin(m).soi - 1
EntryZero(m, i) == \A a \in EntryCells(m, i) : InMemory(m, a) = Zero
EntryEnds(m) == {i \in 0 .. Origin(m).soi :
    ~EntryInside(m, i) \/ (i > 0 /\ EntryZero(m, i) /\ EntryZero(m, i - 1))}

\* The hashes of the image in memory.
HashOf(m) == <<[i \in 1 .. Lowest(EntryEnds(m)) |-> EntryZero(m, i - 1)],
               [i \in DOMAIN Origin(m).secs |-> <<Origin(m).secs[i].name, Origin(m).secs[i].raw,
                                                  Origin(m).secs[i].ch>>]>>
EpOf(m) == LET code == InMemory(m, Origin(m).ep)
           IN  [short |-> code,
                full |-> IF Inside(Origin(m).soi, Origin(m).ep, CodeCells) /\ code \in FullHash
                         THEN <<"full", code>> ELSE Zero]

\* Wherever the image is read from, the header is that of the file but for the base, the
\* import addresses that are zero are the same, before the import directory is gone over
\* and after, and the code at the entry point is the same before.
SameHeader == [pe.hdr EXCEPT !.base = Origin(module).base] = Origin(module)
SameEntries == /\ DOMAIN pe.image = 0 .. Origin(module).soi - 1
               /\ \A i \in 0 .. Origin(module).soi - 1 : EntryInside(module, i) =>
                     ((\A a \in EntryCells(module, i) : pe.image[a] = Zero) = EntryZero(module, i))
SameEntryPoint == LET ep == Origin(module).ep
                  IN  ep \in 1 .. Origin(module).soi - 1 => pe.image[ep] = InMemory(module, ep)
Taken == job.from # "written" /\ job.what \notin Generated
Agrees ==
    Taken =>
      /\ pc \notin {"build", "regions"}
      /\ pc \in {"header", "sections", "load", "imports", "hash"} =>
            /\ pe.epHash = NewPe.epHash
            /\ pe.stream = "memory" => pe.base = module.base
      /\ pc \in {"sections", "load", "imports", "hash"} =>
            SameHeader /\ pe.stream \in {"file", "memory"} /\ pe.bits = pe.hdr.bits
      /\ pc = "sections" => Size(pe.raw) >= Origin(module).soh
      /\ pc \in {"imports", "hash"} => SameEntries
      /\ pc = "imports" => job.what \notin {"clean", "collect"}
      /\ pc = "hash" /\ job.what \in {"clean", "collect"} => SameEntryPoint
AllAgree == \A h \in hashes :
    h.hash = HashOf(module) /\ (h.ep.short # Zero => h.ep = EpOf(module))
HashInv == LoadedAsLinked(module) => Agrees /\ AllAgree

(* The import table, and what is read of it.                               *)

\* The i-th of a finite set of integers.
Rank(A, a) == Cardinality({b \in A : b < a})
Nth(A, i) == CHOOSE a \in A : Rank(A, a) = i - 1

\* What an image refers to, and the library that imports it.
AddressOf(image, bits, a) == IF bits = 32 THEN Value(image[a])
                             ELSE Value(image[a]) + DW * Value(image[a + 1])
FoundIn(image, bits, m) == {a \in 0 .. Size(image) - 3 :
    /\ AddressOf(image, bits, a) \in DOMAIN m.exports
    /\ bits = 32 => 2 * AddressOf(image, bits, a) < DW}
Import(e, a) == <<a, <<"library", e.library>>,
                  IF e.name # NoRva THEN <<"import", e.name>> ELSE <<"ordinal", e.ord>> >>
WantedOf(image, bits, m) ==
    {Import(m.exports[AddressOf(image, bits, a)], a) : a \in FoundIn(image, bits, m)}

\* The libraries that are wanted for an image: those its descriptors are of, and then one
\* for everything it refers to.
Lists(libs, image, desc, bits, m) ==
    LET old == OldLibraries(image, Size(image), desc)
    IN  /\ Len(old) \in Nat /\ Len(libs) \in Nat /\ Len(old) <= Len(libs)
        /\ DOMAIN libs = 1 .. Len(libs)
        /\ \A i \in 1 .. Len(old) : /\ libs[i] = old[i] /\ libs[i].descriptor # Zero
                                     /\ libs[i] = OldLibrary(libs[i].descriptor)
        /\ \A i \in Len(old) + 1 .. Len(libs) : HasThunk(libs[i])
        /\ {Import(libs[i], libs[i].descriptor[4]) : i \in Len(old) + 1 .. Len(libs)}
           = WantedOf(image, bits, m)

\* The i-th library is in the table at start, with what its descriptor refers to behind the
\* descriptors and in front of upto.
Placed(image, start, rva, libs, i, upto) ==
    LET l == libs[i]
    IN  IF ~HasThunk(l) THEN image[start + i - 1] = l.descriptor
        ELSE \E x \in Nat : LET thunk == x + NameCells(l) IN
               /\ Len(libs) < x /\ thunk + ThunkCells + LibraryNameCells <= upto
               /\ image[start + i - 1] =
                     Descriptor(thunk + rva, thunk + ThunkCells + rva, l.descriptor[4])
               /\ l.name # NoRva => image[start + x] = <<"import", l.name>>
               /\ image[start + thunk] = ThunkOf(l, x + rva)
               /\ image[start + thunk + ThunkCells] = <<"library", l.library>>
\* All of them are, with an empty descriptor behind the others.
Built(image, start, rva, libs) ==
    /\ start + Len(libs) < Size(image) /\ image[start + Len(libs)] = Zero
    /\ \A i \in 1 .. Len(libs) : Placed(image, start, rva, libs, i, Size(image) - start)
HasTable(image, start, read, desc, bits, m) ==
    \E libs : Lists(libs, read, desc, bits, m) /\ Built(image, start, Size(read), libs)

\* What the libraries from the k-th on need besides their descriptors.
Rest(libs, k) == ImportNameCells * Cardinality({i \in Named(libs) : i >= k}) +
                 (ThunkCells + LibraryNameCells) * Cardinality({i \in Added(libs) : i >= k})

\* The loop over the libraries has placed those in front of the loop.i-th, and has room for
\* the others.
LibrariesLeft ==
    /\ Lists(table.libs, pe.image, pe.desc, pe.bits, module)
    /\ DOMAIN table = DOMAIN NoTable
    /\ loop.i <= Len(table.libs) + 1 /\ table.at = loop.i - 1
    /\ table.extra \in Nat /\ table.extra > Len(table.libs)
    /\ TableStart + table.extra + Rest(table.libs, loop.i) <= Size(larger)
    /\ larger[TableStart + Len(table.libs)] = Zero
    /\ \A i \in 1 .. loop.i - 1 :
          Placed(larger, TableStart, Size(pe.image), table.libs, i, table.extra)
TableBuilt == HasTable(larger, TableStart, pe.image, pe.desc, pe.bits, module)

\* The table is in the image from then on, unless the header is copied over it, and in the
\* file that was written last.
BitsInv == pc \in WithHeader => pe.bits = pe.hdr.bits
TableGrows == pc = "libraries" => loop.i >= 1 /\ pe.hdr.sa > 0 /\ LibrariesLeft
TableThere == pc \in {"layout", "place", "copy"} => pe.hdr.imp = TableStart % DW /\ TableBuilt
TableStays == pc \in {"pack", "write"} =>
    /\ pe.hdr.imp = TableStart % DW
    /\ pe.hdr.soh <= TableStart => TableBuilt
TableWritten == dumped.hdr # NoHeader =>
    LET start == Align(Size(dumped.read), dumped.hdr.sa)
    IN  /\ Buffer(dumped.read) /\ Size(dumped.read) < DW /\ dumped.hdr.imp = start % DW
        /\ dumped.hdr.soh <= start =>
              HasTable(dumped.image, start, dumped.read, dumped.desc, dumped.hdr.bits, module)
TableInv == options.ImportRec => TableGrows /\ TableThere /\ TableStays /\ TableWritten

-----------------------------------------------------------------------------
(* Buffers, alignment and headers.                                         *)

\* A buffer has a size.
LEMMA SizeNat == ASSUME NEW f, Buffer(f) PROVE Size(f) \in Nat
  BY FS_CardinalityType DEF Buffer, Size

\* Cells in one piece are a buffer.
LEMMA BufferOf ==
  ASSUME NEW f, NEW n \in Int, DOMAIN f = 0 .. n - 1
  PROVE  Buffer(f) /\ Size(f) = IF n > 0 THEN n ELSE 0
<1>1. n - 1 \in Int /\ 0 \in Int
  OBVIOUS
<1>2. IsFiniteSet(0 .. n - 1) /\ Cardinality(0 .. n - 1) = IF 0 > n - 1 THEN 0 ELSE n - 1 - 0 + 1
  BY <1>1, FS_Interval
<1>3. Size(f) = IF n > 0 THEN n ELSE 0
  BY <1>2 DEF Size
<1>4. 0 .. n - 1 = 0 .. Size(f) - 1
  BY <1>3
<1> QED BY <1>2, <1>3, <1>4 DEF Buffer

\* Aligning takes a size up, if it does anything.
LEMMA AlignUp ==
  ASSUME NEW a \in Nat, NEW n \in Nat
  PROVE  Align(a, n) \in Nat /\ Align(a, n) >= a
<1>1. CASE n > 0
  <2>1. a % n \in Nat /\ a % n < n
    BY <1>1
  <2> QED BY <1>1, <2>1 DEF Align
<1>2. CASE ~(n > 0)
  BY <1>2 DEF Align
<1> QED BY <1>1, <1>2

\* What is taken modulo DW is a DWORD, and a DWORD is left as it is.
LEMMA Wraps ==
  ASSUME NEW a \in Int
  PROVE  a % DW \in DWord /\ (a \in DWord => a % DW = a)
  BY ImageAssumption DEF DWord

\* The same, as inequalities.
LEMMA WrapsNat ==
  ASSUME NEW a \in Int
  PROVE  a % DW \in Nat /\ a % DW < DW /\ (a \in Nat /\ a < DW => a % DW = a)
  BY ImageAssumption

\* Fields of a header that are changed.
WithSecs(h, secs) == [h EXCEPT !.secs = secs]
WithSection(h, i, s) == WithSecs(h, [h.secs EXCEPT ![i] = s])
WithSizes(h, n, soi) == [h EXCEPT !.n = n, !.soi = soi]
WithPlace(h, base, soh) == [h EXCEPT !.fa = h.sa, !.base = base, !.soh = soh]

\* A header stays one if its fields are changed to values in their ranges.
LEMMA FieldsTyped ==
  ASSUME NEW h \in Header
  PROVE  /\ \A secs \in Seq(SectionHeader) : LET g == WithSecs(h, secs) IN
               /\ g \in Header /\ g.n = h.n /\ g.secs = secs /\ g.soh = h.soh
         /\ \A n \in Nat, soi \in DWord : WithSizes(h, n, soi) \in Header
         /\ \A base \in Int, soh \in DWord : LET g == WithPlace(h, base, soh) IN
               /\ g \in Header /\ g.n = h.n /\ g.secs = h.secs /\ g.soh = soh /\ g.sa = h.sa
<1>1. ASSUME NEW secs \in Seq(SectionHeader), NEW g, g = WithSecs(h, secs)
      PROVE  g \in Header /\ g.n = h.n /\ g.secs = secs /\ g.soh = h.soh
  BY <1>1 DEF Header, WithSecs
<1>2. ASSUME NEW n \in Nat, NEW soi \in DWord PROVE WithSizes(h, n, soi) \in Header
  BY DEF Header, WithSizes
<1>3. ASSUME NEW base \in Int, NEW soh \in DWord, NEW g, g = WithPlace(h, base, soh)
      PROVE  g \in Header /\ g.n = h.n /\ g.secs = h.secs /\ g.soh = soh /\ g.sa = h.sa
  BY <1>3 DEF Header, WithPlace
<1> QED BY <1>1, <1>2, <1>3

\* What an object begins with is a buffer.
LEMMA EmptyBuffer == Buffer(Empty) /\ Size(Empty) < DW
<1>1. DOMAIN Empty = 0 .. 0 - 1
  BY DEF Empty
<1> QED BY <1>1, BufferOf, ImageAssumption

-----------------------------------------------------------------------------
(* Every step keeps the ranges.                                            *)

\* They hold in the beginning.
LEMMA ImageBegins == Init => ImageInv
<1> SUFFICES ASSUME Init PROVE ImageInv
  OBVIOUS
<1>1. LoopOK
  BY DEF Init, LoopOK
<1>2. HeaderOK
  BY DEF Init, HeaderOK, WithHeader, WithSections
<1>3. StreamOK
  BY DEF Init, StreamOK, NewPe
<1>4. BuffersOK
  BY EmptyBuffer DEF Init, BuffersOK, NewPe
<1> QED BY <1>1, <1>2, <1>3, <1>4 DEF ImageInv

\* The constructors.
LEMMA OpenKeeps ==
  ASSUME ImageInv, StartJob \/ OpenFile \/ OpenAddress \/ OpenHandle \/ Close
  PROVE  ImageInv'
<1>1. LoopOK'
  BY DEF ImageInv, LoopOK, StartJob, OpenFile, OpenAddress, OpenHandle, Close, counted
<1>2. CASE StartJob
  <2>1. HeaderOK'
    BY <1>2 DEF ImageInv, HeaderOK, StartJob, WithHeader, WithSections
  <2>2. StreamOK' /\ BuffersOK'
    BY <1>2 DEF ImageInv, StreamOK, BuffersOK, StartJob, done, Buffer, Size
  <2> QED BY <1>1, <2>1, <2>2 DEF ImageInv
<1>3. CASE Close
  <2>1. HeaderOK' /\ StreamOK'
    BY <1>3 DEF ImageInv, HeaderOK, StreamOK, Close, WithHeader, WithSections, given, NewPe
  <2>2. BuffersOK'
    BY <1>3, EmptyBuffer DEF ImageInv, BuffersOK, Close, done, NewPe, Buffer, Size
  <2> QED BY <1>1, <2>1, <2>2 DEF ImageInv
<1>4. CASE OpenFile \/ OpenAddress \/ OpenHandle
  <2>1. /\ DOMAIN pe' = DOMAIN NewPe
        /\ pe'.raw = Empty /\ pe'.image = Empty /\ pe'.disk = Empty
        /\ (pe'.base = 0 /\ pe'.stream = "file") \/ pe'.base = module.base
    <3>1. CASE OpenFile
      BY <3>1 DEF OpenFile, NewPe
    <3>2. CASE OpenAddress
      <4>1. PICK s \in {"memory", "none"} : pe' = [NewPe EXCEPT !.stream = s, !.base = module.base]
        BY <3>2 DEF OpenAddress
      <4> QED BY <4>1 DEF NewPe
    <3>3. CASE OpenHandle
      BY <3>3 DEF OpenHandle, NewPe
    <3> QED BY <1>4, <3>1, <3>2, <3>3
  <2>2. /\ pc' \notin WithHeader
        /\ UNCHANGED <<module, larger, file>>
    BY <1>4 DEF OpenFile, OpenAddress, OpenHandle, WithHeader, given, done
  <2>3. module.base \in Int /\ module \in Modules
    BY ImageAssumption DEF ImageInv, StreamOK
  <2>4. HeaderOK'
    BY <2>1, <2>2 DEF HeaderOK, NewPe, WithSections
  <2>5. StreamOK'
    BY <2>1, <2>2, <2>3 DEF StreamOK, NewPe
  <2>7. BuffersOK'
    BY <2>1, <2>2, EmptyBuffer DEF ImageInv, BuffersOK, Buffer, Size
  <2> QED BY <1>1, <2>4, <2>5, <2>7 DEF ImageInv
<1> QED BY <1>2, <1>3, <1>4

\* The size of a region.
LEMMA RegionSizes ==
  ASSUME NEW at \in Int, ImageInv, pe.base + at \in DOMAIN module.memory
  PROVE  RegionSize(at) \in Int
  BY ImageAssumption DEF ImageInv, StreamOK, RegionSize

\* The size of a region is a number.
LEMMA SectionSizes == ASSUME NEW at \in Int, ImageInv PROVE EstimateSectionSize(at) \in Int
  BY RegionSizes DEF EstimateSectionSize, Accessible, Readable

\* A header that is read is one, or the object is closed.
LEMMA ReadHeaderKeeps == ASSUME ImageInv, ReadHeader PROVE ImageInv'
<1>1. LoopOK'
  BY DEF ImageInv, LoopOK, ReadHeader, counted
<1>2. BlockSize \in Int
  <2>1. CASE pe.stream = "file"
    <3>1. Buffer(FileCells)
      BY ImageAssumption DEF ImageInv, StreamOK, BuffersOK, FileCells
    <3> QED BY <2>1, <3>1, SizeNat DEF BlockSize
  <2>2. CASE pe.stream = "memory"
    <3>1. pe.base \in Int /\ pe.base + 0 \in DOMAIN module.memory
      BY <2>2, ImageAssumption DEF ImageInv, StreamOK, ReadHeader
    <3> QED BY <2>2, <3>1, RegionSizes DEF BlockSize
  <2>3. CASE pe.stream \notin {"file", "memory"}
    BY <2>3 DEF BlockSize
  <2> QED BY <2>1, <2>2, <2>3
<1>3. Buffer(RawCells)
  BY <1>2, BufferOf DEF RawCells
<1>4. UNCHANGED <<module, larger, file>>
  BY DEF ReadHeader, given, done
<1>5. CASE IsPE(RawCells)
  <2>1. /\ DOMAIN pe' = DOMAIN pe
        /\ pe'.hdr = RawCells[0][2] /\ pe'.raw = RawCells
        /\ pe'.image = pe.image /\ pe'.disk = pe.disk /\ pe'.base = pe.base
        /\ pc' \in {"close", "sections"}
    BY <1>5 DEF ReadHeader, ImageInv, HeaderOK, NewPe
  <2>2. HeaderOK'
    <3>1. 0 \in DOMAIN RawCells
      <4>1. Size(RawCells) \in Nat /\ Size(RawCells) > 0
        BY <1>3, <1>5, SizeNat, ImageAssumption DEF IsPE
      <4> QED BY <1>3, <4>1 DEF Buffer
    <3> QED BY <1>5, <2>1, <3>1 DEF ImageInv, HeaderOK, IsPE, WithHeader, WithSections
  <2>3. StreamOK'
    BY <1>4, <2>1 DEF ImageInv, StreamOK
  <2>4. BuffersOK'
    BY <1>3, <1>4, <2>1 DEF ImageInv, BuffersOK, Buffer, Size
  <2> QED BY <1>1, <2>2, <2>3, <2>4 DEF ImageInv
<1>6. CASE ~IsPE(RawCells)
  <2>1. pc' = "close" /\ UNCHANGED pe
    BY <1>6 DEF ReadHeader
  <2>2. HeaderOK' /\ StreamOK' /\ BuffersOK'
    BY <1>4, <2>1 DEF ImageInv, HeaderOK, StreamOK, BuffersOK, WithHeader, WithSections, Buffer, Size
  <2> QED BY <1>1, <2>2 DEF ImageInv
<1> QED BY <1>5, <1>6

\* A header that is made up is one.
LEMMA GeneratedTyped ==
  ASSUME ImageInv, NEW bits \in {32, 64}
  PROVE  GeneratedHeader(bits) \in Header
<1>1. module.base \in Int /\ HeaderCells \in Nat /\ HeaderCells \in DWord /\ Page \in DWord /\ 0 \in DWord
  BY ImageAssumption DEF ImageInv, StreamOK, HeaderCells, DWord
<1>2. module.base - HeaderCells \in Int
  BY <1>1
<1>3. (~options.AsDll) \in BOOLEAN
  OBVIOUS
<1>4. << >> \in Seq(SectionHeader)
  OBVIOUS
<1> QED BY <1>1, <1>2, <1>3, <1>4 DEF GeneratedHeader, Header

\* It comes with a buffer of its own,
LEMMA BuildHeaderKeeps == ASSUME ImageInv, BuildHeader PROVE ImageInv'
<1>1. PICK bits \in {32, 64} : Build(bits)
  BY DEF BuildHeader, Build32, Build64
<1>2. HeaderCells \in Nat /\ HeaderCells > 0
  BY ImageAssumption DEF HeaderCells
<1>3. LoopOK'
  BY <1>2 DEF ImageInv, LoopOK, BuildHeader
<1>4. UNCHANGED <<module, larger, file>>
  BY DEF BuildHeader, given, done
<1>5. CASE pe.stream = "none"
  <2>1. pc' = "close" /\ UNCHANGED pe
    BY <1>1, <1>5 DEF BuildHeader, Build
  <2>2. HeaderOK' /\ StreamOK' /\ BuffersOK'
    BY <1>4, <2>1 DEF ImageInv, HeaderOK, StreamOK, BuffersOK, WithHeader, WithSections, Buffer, Size
  <2> QED BY <1>3, <2>2 DEF ImageInv
<1>6. CASE pe.stream # "none"
  <2>1. /\ DOMAIN pe' = DOMAIN pe
        /\ pe'.hdr = GeneratedHeader(bits) /\ pe'.raw = Blank(HeaderCells)
        /\ pe'.image = pe.image /\ pe'.disk = pe.disk /\ pe'.base = pe.base - HeaderCells
    BY <1>1, <1>6 DEF Build, ImageInv, HeaderOK, NewPe
  <2>2. pc' = "regions"
    BY <1>6 DEF BuildHeader
  <2>3. Buffer(Blank(HeaderCells))
    <3>1. DOMAIN Blank(HeaderCells) = 0 .. HeaderCells - 1
      BY DEF Blank
    <3> QED BY <1>2, <3>1, BufferOf
  <2>4. HeaderOK'
    <3>1. 0 \in DOMAIN Blank(HeaderCells)
      BY <1>2 DEF Blank
    <3> QED BY <2>1, <2>2, <3>1, GeneratedTyped DEF ImageInv, HeaderOK, WithHeader, WithSections
  <2>5. StreamOK'
    BY <1>2, <1>4, <2>1, <2>2 DEF ImageInv, StreamOK
  <2>6. BuffersOK'
    BY <1>4, <2>1, <2>3 DEF ImageInv, BuffersOK, Buffer, Size
  <2> QED BY <1>3, <2>4, <2>5, <2>6 DEF ImageInv
<1> QED BY <1>5, <1>6

\* is given a section for each region,
LEMMA BuildSectionKeeps == ASSUME ImageInv, BuildSection PROVE ImageInv'
<1> DEFINE at == loop.at % DW
           size == EstimateSectionSize(loop.at)
           s == [name |-> "pd_rec", va |-> at, vs |-> size % DW, raw |-> size % DW,
                 ptr |-> at, ch |-> "rwx"]
<1>1. loop.at \in Int /\ loop.i \in Nat /\ size \in Int
  BY SectionSizes DEF ImageInv, LoopOK
<1>2. at \in DWord /\ size % DW \in DWord
  BY <1>1, Wraps
<1>3. s \in SectionHeader
  <2> HIDE DEF at, size
  <2>1. "pd_rec" \in SectionNames /\ "rwx" \in Access
    BY NamesAssumption
  <2> QED BY <1>2, <2>1 DEF SectionHeader
<1>4. pe' = [pe EXCEPT !.hdr.secs = Append(@, s)] /\ loop' = [i |-> loop.i + 1, at |-> loop.at + size]
  BY DEF BuildSection
<1>5. pc = "regions" /\ UNCHANGED <<module, larger, file, pc, space>>
  BY DEF BuildSection, given, done
<1> HIDE DEF at, size, s
<1>6. pe.hdr \in Header
  BY <1>5 DEF ImageInv, HeaderOK, WithHeader
<1>7. Append(pe.hdr.secs, s) \in Seq(SectionHeader)
  BY <1>3, <1>6 DEF Header
<1>8. /\ DOMAIN pe' = DOMAIN pe
      /\ pe'.hdr = WithSecs(pe.hdr, Append(pe.hdr.secs, s))
      /\ pe'.raw = pe.raw /\ pe'.image = pe.image /\ pe'.disk = pe.disk /\ pe'.base = pe.base
  BY <1>4 DEF ImageInv, HeaderOK, NewPe, WithSecs
<1>9. pe'.hdr \in Header
  BY <1>6, <1>7, <1>8, FieldsTyped
<1>10. LoopOK'
  BY <1>1, <1>4, <1>5 DEF ImageInv, LoopOK
<1>11. HeaderOK'
  BY <1>5, <1>8, <1>9 DEF ImageInv, HeaderOK, WithSections
<1>12. StreamOK'
  BY <1>5, <1>8 DEF ImageInv, StreamOK
<1>13. BuffersOK'
  BY <1>5, <1>8 DEF ImageInv, BuffersOK, Buffer, Size
<1> QED BY <1>10, <1>11, <1>12, <1>13 DEF ImageInv

\* A step that changes a header which is there, and nothing else of the image.
LEMMA HeaderChanges ==
  ASSUME ImageInv, DOMAIN pe' = DOMAIN pe, pe'.hdr \in Header, pc \in WithHeader, pc' # "header",
         pe'.raw = pe.raw, pe'.image = pe.image, pe'.disk = pe.disk, pe'.base = pe.base,
         UNCHANGED <<module, larger, file>>,
         pc' \in WithSections => Len(pe'.hdr.secs) = pe'.hdr.n /\ pe'.hdr.n <= MaxSections
  PROVE  HeaderOK' /\ StreamOK' /\ BuffersOK'
<1>1. HeaderOK'
  BY DEF ImageInv, HeaderOK
<1>2. StreamOK'
  BY DEF ImageInv, StreamOK
<1>3. BuffersOK'
  BY DEF ImageInv, BuffersOK, Buffer, Size
<1> QED BY <1>1, <1>2, <1>3

\* and the number of them.
LEMMA EndBuildKeeps == ASSUME ImageInv, EndBuild PROVE ImageInv'
<1>1. loop.i \in Nat /\ loop.at % DW \in DWord
  BY Wraps DEF ImageInv, LoopOK
<1>2. pe.hdr \in Header
  BY DEF EndBuild, ImageInv, HeaderOK, WithHeader
<1>3. /\ DOMAIN pe' = DOMAIN pe
      /\ pe'.hdr = WithSizes(pe.hdr, loop.i, loop.at % DW)
      /\ pe'.raw = pe.raw /\ pe'.image = pe.image /\ pe'.disk = pe.disk /\ pe'.base = pe.base
  BY DEF EndBuild, ImageInv, HeaderOK, NewPe, WithSizes
<1>4. pe'.hdr \in Header
  BY <1>1, <1>2, <1>3, FieldsTyped
<1>5. /\ pc \in WithHeader /\ pc' = "sections" /\ UNCHANGED <<module, larger, file>>
      /\ LoopOK'
  BY DEF EndBuild, given, counted, done, ImageInv, LoopOK, WithHeader
<1>6. HeaderOK' /\ StreamOK' /\ BuffersOK'
  BY <1>3, <1>4, <1>5, HeaderChanges DEF WithSections
<1> QED BY <1>5, <1>6 DEF ImageInv

\* The sections of a header that says how many there are.
LEMMA SectionsTyped ==
  ASSUME NEW h \in Header
  PROVE  Sections(h) \in Seq(SectionHeader) /\ Len(Sections(h)) = h.n
<1>1. NoSection \in SectionHeader
  <2>1. "" \in SectionNames /\ "" \in Access
    BY NamesAssumption
  <2>2. 0 \in DWord
    BY ImageAssumption DEF DWord
  <2> QED BY <2>1, <2>2 DEF NoSection, SectionHeader
<1>2. h.n \in Nat /\ h.secs \in Seq(SectionHeader)
  BY DEF Header
<1>3. \A i \in 1 .. h.n : (IF i \in DOMAIN h.secs THEN h.secs[i] ELSE NoSection) \in SectionHeader
  BY <1>1, <1>2
<1>4. Sections(h) \in [1 .. h.n -> SectionHeader]
  BY <1>3 DEF Sections
<1> QED BY <1>2, <1>4

\* What goes into something less often than n times.
LEMMA QuotientLess ==
  ASSUME NEW a \in Nat, NEW d \in Nat \ {0}, NEW n \in Nat, a < n * d
  PROVE  a \div d < n
<1> DEFINE q == a \div d
<1>1. q \in Nat /\ d * q <= a
  OBVIOUS
<1> HIDE DEF q
<1>2. ASSUME q >= n PROVE FALSE
  <2>1. d * q >= d * n
    BY <1>1, <1>2
  <2> QED BY <1>1, <2>1
<1> QED BY <1>1, <1>2 DEF q

\* There are as many sections as the header says, however many it said.
LEMMA ParseSectionsKeeps == ASSUME ImageInv, ParseSections PROVE ImageInv'
<1> DEFINE n == Least(pe.hdr.n, MaxSections)
           m == IF Inside(Size(pe.raw), SectionsAt, n * SectionCells) THEN n ELSE Room
           h == [pe.hdr EXCEPT !.n = m]
<1>1. /\ pe.hdr \in Header /\ pc = "sections" /\ pc \in WithHeader
      /\ UNCHANGED <<module, larger, file>> /\ LoopOK'
      /\ CountSections /\ pc' \in {"load", "close"}
  BY DEF ParseSections, CountSections32, CountSections64, CountSections, ImageInv, HeaderOK, LoopOK,
         WithHeader, given, done, counted
<1>2. n \in Nat /\ n <= MaxSections /\ MaxSections \in Nat
  BY <1>1, ImageAssumption DEF Header, Least
<1>3. CASE Inside(Size(pe.raw), SectionsAt, SectionCells)
  <2>1. Size(pe.raw) \in Nat
    BY SizeNat DEF ImageInv, BuffersOK
  <2>2. Size(pe.raw) - SectionsAt - 1 \in Nat
    BY <1>3, <2>1, ImageAssumption DEF Inside
  <2>3. Room \in Nat
    BY <2>2, ImageAssumption DEF Room
  <2>4. m \in Nat /\ m <= MaxSections
    <3>1. CASE Inside(Size(pe.raw), SectionsAt, n * SectionCells)
      BY <1>2, <3>1
    <3>2. CASE ~Inside(Size(pe.raw), SectionsAt, n * SectionCells)
      <4> HIDE DEF n
      <4>1. SectionsAt \in Nat /\ SectionCells \in Nat \ {0} /\ n * SectionCells \in Nat
        BY <1>2, ImageAssumption
      <4>2. Size(pe.raw) - SectionsAt - 1 < n * SectionCells
        BY <2>1, <3>2, <4>1 DEF Inside
      <4>3. Room < n
        BY <1>2, <2>2, <4>1, <4>2, QuotientLess DEF Room
      <4> QED BY <1>2, <2>3, <3>2, <4>3 DEF m
    <3> QED BY <3>1, <3>2
  <2> HIDE DEF m
  <2>5. h \in Header
    BY <1>1, <2>4 DEF Header
  <2>6. h.n = m
    BY <1>1 DEF Header
  <2>7. pe' = [pe EXCEPT !.sections = TRUE, !.hdr = [h EXCEPT !.secs = Sections(h)]]
    BY <1>1, <1>3 DEF CountSections, m
  <2> HIDE DEF h
  <2>8. /\ DOMAIN pe' = DOMAIN pe
        /\ pe'.hdr = [h EXCEPT !.secs = Sections(h)]
        /\ pe'.raw = pe.raw /\ pe'.image = pe.image /\ pe'.disk = pe.disk /\ pe'.base = pe.base
    BY <2>7 DEF ImageInv, HeaderOK, NewPe
  <2>9. pe'.hdr \in Header /\ pe'.hdr.n = h.n /\ pe'.hdr.secs = Sections(h)
    BY <2>5, <2>8, SectionsTyped DEF Header
  <2>10. HeaderOK' /\ StreamOK' /\ BuffersOK'
    <3>1. pe'.hdr.n <= MaxSections /\ Len(pe'.hdr.secs) = pe'.hdr.n
      BY <2>4, <2>5, <2>6, <2>9, SectionsTyped
    <3> QED BY <1>1, <2>8, <2>9, <3>1, HeaderChanges
  <2> QED BY <1>1, <2>10 DEF ImageInv
<1>4. CASE ~Inside(Size(pe.raw), SectionsAt, SectionCells)
  <2>1. pe' = [pe EXCEPT !.hdr.n = n] /\ pc' = "close"
    BY <1>1, <1>4 DEF CountSections
  <2> HIDE DEF n
  <2>2. /\ DOMAIN pe' = DOMAIN pe
        /\ pe'.hdr = [pe.hdr EXCEPT !.n = n]
        /\ pe'.raw = pe.raw /\ pe'.image = pe.image /\ pe'.disk = pe.disk /\ pe'.base = pe.base
    BY <2>1 DEF ImageInv, HeaderOK, NewPe
  <2>3. pe'.hdr \in Header
    BY <1>1, <1>2, <2>2 DEF Header
  <2>4. pc' \notin WithSections
    BY <2>1 DEF WithHeader, WithSections
  <2>5. HeaderOK' /\ StreamOK' /\ BuffersOK'
    BY <1>1, <2>1, <2>2, <2>3, <2>4, HeaderChanges
  <2> QED BY <1>1, <2>5 DEF ImageInv
<1> QED BY <1>3, <1>4

\* A step that leaves the header, or gives it up.
LEMMA PartChanges ==
  ASSUME ImageInv, DOMAIN pe' = DOMAIN pe, pe'.hdr = pe.hdr, pe'.base = pe.base,
         pe'.raw = pe.raw, Buffer(pe'.image), Size(pe'.image) < DW, Buffer(pe'.disk),
         Buffer(larger'), Buffer(file'), UNCHANGED <<module, loop, space>>,
         pc' \notin {"header", "place"}, pc' \in WithHeader => pc \in WithSections,
         pc' \in WithSections => pc \in WithSections
  PROVE  ImageInv'
<1>1. LoopOK'
  BY DEF ImageInv, LoopOK
<1>2. HeaderOK'
  BY DEF ImageInv, HeaderOK, WithSections
<1>3. StreamOK'
  BY DEF ImageInv, StreamOK
<1>4. BuffersOK'
  BY DEF ImageInv, BuffersOK, Buffer, Size
<1> QED BY <1>1, <1>2, <1>3, <1>4 DEF ImageInv

\* The size of an image fits into a DWORD.
LEMMA ImageSizes ==
  ASSUME pe.hdr \in Header, Len(pe.hdr.secs) = pe.hdr.n
  PROVE  ImageSize \in Int /\ ImageSize < DW
<1>1. pe.hdr.n \in Nat /\ pe.hdr.soi \in Int /\ MaxSection \in Nat
  <2>1. pe.hdr.n \in Nat /\ pe.hdr.soi \in DWord
    BY DEF Header
  <2> QED BY <2>1, ImageAssumption DEF DWord
<1>2. SizeLimit(pe.hdr.n) \in DWord
  <2>1. MaxSection * (pe.hdr.n + 1) \in Int
    BY <1>1
  <2> QED BY <2>1, Wraps DEF SizeLimit
<1>3. EndOfSections \in Int
  <2>1. CASE pe.hdr.n = 0
    BY <2>1 DEF EndOfSections
  <2>2. CASE pe.hdr.n # 0
    <3> DEFINE last == pe.hdr.secs[pe.hdr.n]
    <3>1. last \in SectionHeader
      BY <1>1, <2>2 DEF Header
    <3> HIDE DEF last
    <3>2. last.va \in Int /\ last.vs \in Int
      <4>1. last.va \in DWord /\ last.vs \in DWord
        BY <3>1 DEF SectionHeader
      <4> QED BY <4>1 DEF DWord
    <3>3. last.va + last.vs \in Int /\ last.va + MaxSection \in Int
      BY <1>1, <3>2
    <3>4. (last.va + last.vs) % DW \in Int /\ (last.va + MaxSection) % DW \in Int
      BY <3>3, Wraps DEF DWord
    <3> QED BY <1>1, <2>2, <3>4 DEF EndOfSections, last
  <2> QED BY <2>1, <2>2
<1>4. Larger(EndOfSections, pe.hdr.soi) \in Int
  BY <1>1, <1>3 DEF Larger
<1> QED BY <1>2, <1>4, ImageAssumption DEF ImageSize, Least, DWord

\* Either way of loading gives a buffer of that size.
LEMMA LoadSectionsKeeps == ASSUME ImageInv, LoadSections PROVE ImageInv'
<1>1. /\ pc = "load" /\ LoadImage /\ UNCHANGED <<module, loop, space, larger, file>>
      /\ pc' \in {"hash", "exports", "references", "imports"}
  BY DEF LoadSections, LoadImage32, LoadImage64, given, counted, done
<1>2. ImageSize \in Int /\ ImageSize < DW
  BY <1>1, ImageSizes DEF ImageInv, HeaderOK, WithHeader, WithSections
<1>3. \A n \in Int : DOMAIN FileImage(n) = 0 .. n - 1 /\ DOMAIN MemoryImage(n) = 0 .. n - 1
  BY DEF FileImage, MemoryImage
<1>4. /\ DOMAIN pe' = DOMAIN pe
      /\ pe'.hdr = pe.hdr /\ pe'.base = pe.base /\ pe'.raw = pe.raw /\ pe'.disk = pe.disk
      /\ pe'.image \in {FileImage(ImageSize), MemoryImage(ImageSize)}
  BY <1>1 DEF LoadImage, ImageInv, HeaderOK, NewPe
<1>5. DOMAIN pe'.image = 0 .. ImageSize - 1
  BY <1>2, <1>3, <1>4
<1>6. Buffer(pe'.image) /\ Size(pe'.image) < DW
  <2>1. DW > 0
    BY ImageAssumption
  <2> QED BY <1>2, <1>5, <2>1, BufferOf
<1>7. Buffer(pe'.disk) /\ Buffer(larger') /\ Buffer(file')
  BY <1>1, <1>4 DEF ImageInv, BuffersOK
<1>8. /\ pc' \notin {"header", "place"}
      /\ pc \in WithSections
  BY <1>1 DEF WithHeader, WithSections
<1> QED BY <1>1, <1>4, <1>6, <1>7, <1>8, PartChanges

\* The directories of the image and its hashes.
LEMMA ReadImageKeeps ==
  ASSUME ImageInv, ImportDirectory \/ ExportDirectory \/ TakeHash \/ CountImports
  PROVE  ImageInv'
<1>1. /\ pc \in {"imports", "exports", "hash", "references"}
      /\ pc' \in {"hash", "close", "entry"}
      /\ UNCHANGED <<module, loop, space, larger, file>>
  BY DEF ImportDirectory, ExportDirectory, TakeHash, CountImports, given, counted, done
<1>2. /\ DOMAIN pe' = DOMAIN pe
      /\ pe'.hdr = pe.hdr /\ pe'.base = pe.base /\ pe'.raw = pe.raw /\ pe'.disk = pe.disk
      /\ pe'.image = pe.image \/ pe'.image = Restored
  <2>1. CASE ImportDirectory
    <3>1. pe' = pe \/ pe' = [pe EXCEPT !.image = Restored, !.desc = pe.hdr.imp]
      BY <2>1 DEF ImportDirectory, RestoreThunks32, RestoreThunks64, RestoreThunks
    <3> QED BY <3>1 DEF ImageInv, HeaderOK, NewPe
  <2>2. CASE ExportDirectory
    BY <2>2 DEF ExportDirectory, ImageInv, HeaderOK, NewPe
  <2>3. CASE TakeHash
    <3>1. PICK on \in EntryPointHash :
             pe' = [pe EXCEPT !.hash = Hash,
                       !.epHash = IF job.what \in {"clean", "collect"} THEN HashEp(on) ELSE @]
      BY <2>3 DEF TakeHash
    <3> QED BY <3>1 DEF ImageInv, HeaderOK, NewPe
  <2>4. CASE CountImports
    BY <2>4 DEF CountImports, ImageInv, HeaderOK, NewPe
  <2> QED BY <2>1, <2>2, <2>3, <2>4
<1>3. DOMAIN pe'.image = DOMAIN pe.image
  BY <1>2 DEF Restored
<1>4. Buffer(pe'.image) /\ Size(pe'.image) < DW
  BY <1>3 DEF ImageInv, BuffersOK, Buffer, Size
<1>5. Buffer(pe'.disk) /\ Buffer(larger') /\ Buffer(file')
  BY <1>1, <1>2 DEF ImageInv, BuffersOK
<1>6. /\ pc' \notin {"header", "place"}
      /\ pc \in WithSections
  BY <1>1 DEF WithHeader, WithSections
<1> QED BY <1>1, <1>2, <1>4, <1>5, <1>6, PartChanges

-----------------------------------------------------------------------------
(* The entry point and the import table.                                   *)

Less == {p \in Nat \X Nat : p[1] < p[2]}
\* A set of numbers has a least one,
LEMMA LessWellFounded == IsWellFoundedOn(Less, Nat)
  BY NatLessThanWellFounded, Zenon DEF OpToRel, Less

\* which is the one that is chosen,
LEMMA LowestIn ==
  ASSUME NEW A, A \subseteq Nat, A # {}
  PROVE  Lowest(A) \in A /\ \A b \in A : Lowest(A) <= b
<1>1. PICK a \in A : \A b \in A : ~(<<b, a>> \in Less)
  BY WFMin, LessWellFounded
<1>2. \A b \in A : a <= b
  <2> TAKE b \in A
  <2>1. a \in Nat /\ b \in Nat /\ ~(<<b, a>> \in Less)
    BY <1>1
  <2>2. ~(b < a)
    BY <2>1 DEF Less
  <2> QED BY <2>1, <2>2
<1> QED BY <1>2 DEF Lowest

\* and one that is bounded has a greatest.
LEMMA HighestIn ==
  ASSUME NEW n \in Nat, NEW A, A \subseteq 0 .. n, A # {}
  PROVE  Highest(A) \in A /\ \A b \in A : Highest(A) >= b
<1> DEFINE Down == {n - a : a \in A}
<1>1. Down \subseteq Nat /\ Down # {}
  <2>1. \A a \in A : n - a \in Nat
    OBVIOUS
  <2>2. PICK a \in A : TRUE
    OBVIOUS
  <2> QED BY <2>1, <2>2
<1>2. PICK d \in Down : \A b \in Down : ~(<<b, d>> \in Less)
  <2> HIDE DEF Down
  <2> QED BY <1>1, WFMin, LessWellFounded
<1>3. PICK a \in A : d = n - a
  BY <1>2
<1>4. \A b \in A : a >= b
  <2> TAKE b \in A
  <2>1. ~(<<n - b, d>> \in Less) /\ n - b \in Nat /\ d \in Nat
    BY <1>1, <1>2
  <2>2. ~(n - b < d)
    BY <2>1 DEF Less
  <2> QED BY <1>3, <2>2
<1> QED BY <1>4 DEF Highest

\* The entry point that is found is an address in the image.
LEMMA EntryPointFound ==
  ASSUME ImageInv, pe.hdr \in Header
  PROVE  BestEntryPoint \in DWord
<1>1. /\ DOMAIN pe.image = 0 .. Size(pe.image) - 1
      /\ Size(pe.image) \in Nat /\ Size(pe.image) < DW
  BY SizeNat DEF ImageInv, BuffersOK, Buffer
<1>2. DOMAIN pe.image \subseteq DWord
  BY <1>1, ImageAssumption DEF DWord
<1>3. Candidates \subseteq DWord /\ Strong \subseteq DWord
  BY <1>2 DEF Strong, Candidates, Scanned
<1>4. DW - 1 \in Nat /\ DWord \subseteq Nat /\ DWord = 0 .. DW - 1
  BY ImageAssumption DEF DWord
<1>5. \A A : A \subseteq DWord /\ A # {} => Lowest(A) \in DWord /\ Highest(A) \in DWord
  BY <1>4, LowestIn, HighestIn
<1>6. pe.hdr.ep \in DWord
  BY DEF Header
<1> QED BY <1>3, <1>5, <1>6 DEF BestEntryPoint

\* The entry point that is found is an address of the image, or the one it had.
LEMMA EntryPointKeeps == ASSUME ImageInv, EntryPoint PROVE ImageInv'
<1>1. /\ pc = "entry" /\ pc' = "table" /\ UNCHANGED <<module, loop, space, larger, file>>
      /\ RebuildEntryPoint
  BY DEF EntryPoint, RebuildEntryPoint32, RebuildEntryPoint64, given, counted, done
<1>2. /\ pe.hdr \in Header /\ Len(pe.hdr.secs) = pe.hdr.n /\ pe.hdr.n <= MaxSections
      /\ pc \in WithHeader
  BY <1>1 DEF ImageInv, HeaderOK, WithHeader, WithSections
<1> DEFINE ep == IF EntryPointLost THEN BestEntryPoint ELSE pe.hdr.ep
<1>3. ep \in DWord
  BY <1>2, EntryPointFound DEF Header
<1>4. pe' = [pe EXCEPT !.hdr.ep = ep]
  BY <1>1 DEF RebuildEntryPoint
<1> HIDE DEF ep
<1>5. /\ DOMAIN pe' = DOMAIN pe
      /\ pe'.hdr = [pe.hdr EXCEPT !.ep = ep]
      /\ pe'.raw = pe.raw /\ pe'.image = pe.image /\ pe'.disk = pe.disk /\ pe'.base = pe.base
  BY <1>4 DEF ImageInv, HeaderOK, NewPe
<1>6. pe'.hdr \in Header /\ Len(pe'.hdr.secs) = pe'.hdr.n /\ pe'.hdr.n <= MaxSections
  BY <1>2, <1>3, <1>5 DEF Header
<1>7. HeaderOK' /\ StreamOK' /\ BuffersOK'
  BY <1>1, <1>2, <1>5, <1>6, HeaderChanges
<1>8. LoopOK'
  BY <1>1 DEF ImageInv, LoopOK
<1> QED BY <1>7, <1>8 DEF ImageInv

\* The libraries of the new table: those there were, and those that are found.
LEMMA LibrariesAre == ASSUME ImageInv PROVE \E S : Libraries \in Seq(S)
<1> DEFINE nth(i) == CHOOSE a \in References : Cardinality({b \in References : b < a}) = i - 1
           old == {k \in 0 .. Size(pe.image) :
                     \A i \in 0 .. k : DescriptorAt(pe.image, Size(pe.image), pe.desc, i) # Zero}
           f == [i \in 1 .. Cardinality(old) |->
                   OldLibrary(DescriptorAt(pe.image, Size(pe.image), pe.desc, i - 1))]
           g == [i \in 1 .. Cardinality(References) |-> Fixup(nth(i))]
           S == {f[i] : i \in DOMAIN f} \cup {g[i] : i \in DOMAIN g}
<1>1. Cardinality(old) \in Nat
  <2>1. Size(pe.image) \in Int
    BY SizeNat DEF ImageInv, BuffersOK
  <2>2. IsFiniteSet(0 .. Size(pe.image))
    BY <2>1, FS_Interval
  <2>3. old \in SUBSET (0 .. Size(pe.image))
    OBVIOUS
  <2> HIDE DEF old
  <2> QED BY <2>2, <2>3, FS_Subset, FS_CardinalityType
<1>2. Cardinality(References) \in Nat
  <2>1. References \in SUBSET DOMAIN pe.image
    BY DEF References, Scanned
  <2>2. IsFiniteSet(DOMAIN pe.image)
    BY DEF ImageInv, BuffersOK, Buffer
  <2> QED BY <2>1, <2>2, FS_Subset, FS_CardinalityType
<1>3. Libraries = f \o g
  BY DEF Libraries, OldLibraries
<1>4. f \in [1 .. Cardinality(old) -> S] /\ g \in [1 .. Cardinality(References) -> S]
  <2> HIDE DEF old, nth
  <2> QED OBVIOUS
<1> HIDE DEF f, g, S, old
<1>5. f \in Seq(S) /\ g \in Seq(S)
  BY <1>1, <1>2, <1>4
<1>6. f \o g \in Seq(S)
  BY <1>5
<1> QED BY <1>3, <1>6

\* The sizes of the import table are numbers,
LEMMA TableSizes ==
  ASSUME NEW S, NEW libs \in Seq(S)
  PROVE  DescriptorSize(libs) \in Nat /\ DataSize(libs) \in Nat
<1>1. Len(libs) \in Nat /\ DOMAIN libs = 1 .. Len(libs)
  OBVIOUS
<1>2. IsFiniteSet(DOMAIN libs)
  BY <1>1, FS_Interval
<1>3. Named(libs) \in SUBSET DOMAIN libs /\ Added(libs) \in SUBSET DOMAIN libs
  BY DEF Named, Added
<1>4. Cardinality(Named(libs)) \in Nat /\ Cardinality(Added(libs)) \in Nat
  BY <1>2, <1>3, FS_Subset, FS_CardinalityType
<1> QED BY <1>1, <1>4 DEF DescriptorSize, DataSize, DescriptorCells, ImportNameCells,
                          ThunkCells, LibraryNameCells

\* and so is where it begins.
LEMMA TableRoom ==
  ASSUME ImageInv, pe.hdr \in Header
  PROVE  TableStart \in Nat /\ TableStart >= Size(pe.image) /\ TableSize(Libraries) \in Nat
<1>1. pe.hdr.sa \in Nat /\ Size(pe.image) \in Nat
  <2>1. pe.hdr.sa \in DWord
    BY DEF Header
  <2> QED BY <2>1, SizeNat DEF ImageInv, BuffersOK, DWord
<1>2. DescriptorSize(Libraries) + DataSize(Libraries) \in Nat
  BY LibrariesAre, TableSizes
<1> QED BY <1>1, <1>2, AlignUp DEF TableStart, TableSize

\* A section may be replaced by another.
LEMMA SectionReplaced ==
  ASSUME NEW secs \in Seq(SectionHeader), NEW i \in 1 .. Len(secs), NEW s \in SectionHeader
  PROVE  /\ [secs EXCEPT ![i] = s] \in Seq(SectionHeader)
         /\ Len([secs EXCEPT ![i] = s]) = Len(secs)
         /\ \A j \in 1 .. Len(secs) : [secs EXCEPT ![i] = s][j] = IF j = i THEN s ELSE secs[j]
<1>1. secs \in [1 .. Len(secs) -> SectionHeader] /\ Len(secs) \in Nat
  OBVIOUS
<1>2. [secs EXCEPT ![i] = s] \in [1 .. Len(secs) -> SectionHeader]
  BY <1>1
<1> QED BY <1>1, <1>2

\* The last section grows, or the directory in front of the sections.
LEMMA Grows ==
  ASSUME NEW h \in Header, Len(h.secs) = h.n, NEW by \in Nat
  PROVE  /\ GrowLast(h, by) \in Header /\ GrowLast(h, by).n = h.n
         /\ Len(GrowLast(h, by).secs) = GrowLast(h, by).n
<1>1. h.n \in Nat /\ h.sa \in DWord /\ h.iat \in DWord /\ h.secs \in Seq(SectionHeader)
  BY DEF Header
<1>2. \A a \in DWord : (Align(a, h.sa) + by) % DW \in DWord
  <2> TAKE a \in DWord
  <2>1. a \in Nat /\ h.sa \in Nat
    BY <1>1 DEF DWord
  <2>2. Align(a, h.sa) \in Nat
    BY <2>1, AlignUp
  <2>3. Align(a, h.sa) + by \in Int
    BY <2>2
  <2> QED BY <2>3, Wraps
<1>3. CASE h.n = 0
  <2> DEFINE iat == (Align(h.iat, h.sa) + by) % DW
  <2>1. iat \in DWord
    BY <1>1, <1>2
  <2>2. GrowLast(h, by) = [h EXCEPT !.iat = iat]
    BY <1>3 DEF GrowLast, Header
  <2> HIDE DEF iat
  <2> QED BY <2>1, <2>2 DEF Header
<1>4. CASE h.n # 0
  <2> DEFINE last == h.secs[h.n]
             vs == (Align(last.vs, h.sa) + by) % DW
             secs == [h.secs EXCEPT ![h.n] = [last EXCEPT !.vs = vs, !.raw = vs]]
  <2>1. h.n \in 1 .. Len(h.secs) /\ last \in SectionHeader
    BY <1>1, <1>4
  <2>2. last.vs \in DWord
    BY <2>1 DEF SectionHeader
  <2>3. vs \in DWord
    BY <1>2, <2>2
  <2>4. [last EXCEPT !.vs = vs, !.raw = vs] \in SectionHeader
    <3> HIDE DEF last, vs
    <3> QED BY <2>1, <2>3 DEF SectionHeader
  <2>5. secs \in Seq(SectionHeader) /\ Len(secs) = Len(h.secs)
    BY <1>1, <2>1, <2>4, SectionReplaced
  <2>6. GrowLast(h, by) = WithSecs(h, secs)
    BY <1>4 DEF GrowLast, Header, WithSecs
  <2> HIDE DEF secs
  <2> QED BY <2>5, <2>6, FieldsTyped
<1> QED BY <1>3, <1>4

\* The buffer with room for the table has its cells in one piece,
LEMMA RebuildImportsKeeps == ASSUME ImageInv, RebuildImports PROVE ImageInv'
<1>1. /\ pc = "table" /\ pc' \in {"layout", "libraries"} /\ UNCHANGED <<module, space, file>>
      /\ loop' = loop \/ loop' = [loop EXCEPT !.i = 1]
      /\ MakeRoom \/ KeepImports
  BY DEF RebuildImports, ImportTable32, ImportTable64, TableStep, given, done, KeepImports, MakeRoom
<1>2. /\ pe.hdr \in Header /\ Len(pe.hdr.secs) = pe.hdr.n /\ pe.hdr.n <= MaxSections
      /\ 0 \in DOMAIN pe.raw
  BY <1>1 DEF ImageInv, HeaderOK, WithHeader, WithSections
<1>3. LoopOK'
  BY <1>1 DEF ImageInv, LoopOK
<1>4. CASE KeepImports
  <2>1. Buffer(larger') /\ UNCHANGED pe
    BY <1>4 DEF KeepImports, ImageInv, BuffersOK
  <2>2. HeaderOK'
    BY <1>1, <1>2, <2>1 DEF ImageInv, HeaderOK
  <2>3. StreamOK'
    BY <1>1, <2>1 DEF ImageInv, StreamOK
  <2>4. BuffersOK'
    BY <1>1, <2>1 DEF ImageInv, BuffersOK, Buffer, Size
  <2> QED BY <1>3, <2>2, <2>3, <2>4 DEF ImageInv
<1>5. CASE MakeRoom
  <2> DEFINE grown == TableSize(Libraries)
             hdr == GrowLast(pe.hdr, grown)
             n == TableStart + grown
  <2>1. n \in Int /\ grown \in Nat
    BY <1>2, TableRoom
  <2>2. pe' = [pe EXCEPT !.hdr = hdr]
    BY <1>5, Zenon DEF MakeRoom
  <2>3. DOMAIN larger' = 0 .. n - 1
    BY <1>5 DEF MakeRoom, Extended
  <2> HIDE DEF n, grown
  <2>4. Buffer(larger')
    BY <2>1, <2>3, BufferOf
  <2>5. hdr \in Header /\ Len(hdr.secs) = hdr.n /\ hdr.n <= MaxSections
    BY <1>2, <2>1, Grows
  <2> HIDE DEF hdr
  <2>6. /\ DOMAIN pe' = DOMAIN pe /\ pe'.hdr = hdr
        /\ pe'.raw = pe.raw /\ pe'.image = pe.image /\ pe'.disk = pe.disk /\ pe'.base = pe.base
    BY <2>2 DEF ImageInv, HeaderOK, NewPe
  <2>7. HeaderOK'
    BY <1>2, <2>5, <2>6 DEF ImageInv, HeaderOK
  <2>8. StreamOK'
    BY <1>1, <2>6 DEF ImageInv, StreamOK
  <2>9. BuffersOK'
    BY <1>1, <2>4, <2>6 DEF ImageInv, BuffersOK, Buffer, Size
  <2> QED BY <1>3, <2>7, <2>8, <2>9 DEF ImageInv
<1> QED BY <1>1, <1>4, <1>5

\* A library is written into the buffer there is.
LEMMA LibraryWritten ==
  ASSUME NEW t, DOMAIN t = {"cells", "at", "extra"},
         NEW start, NEW size, NEW rva, NEW l
  PROVE  /\ DOMAIN BuildLibrary(t, start, size, rva, l) = DOMAIN t
         /\ DOMAIN BuildLibrary(t, start, size, rva, l).cells = DOMAIN t.cells
<1> DEFINE thunk == t.extra + NameCells(l)
           lib == thunk + ThunkCells
           first == IF l.name # NoRva THEN [t.cells EXCEPT ![start + t.extra] = <<"import", l.name>>]
                    ELSE t.cells
           named == [t EXCEPT !.cells = first, !.extra = thunk]
           full == [named EXCEPT !.cells[start + thunk] = ThunkOf(l, t.extra + rva), !.extra = lib]
           last == [full EXCEPT !.cells[start + lib] = <<"library", l.library>>,
                       !.cells[start + t.at] = Descriptor(thunk + rva, lib + rva, l.descriptor[4]),
                       !.extra = lib + LibraryNameCells, !.at = @ + DescriptorCells]
           old == [t EXCEPT !.cells[start + t.at] = l.descriptor, !.at = @ + DescriptorCells]
<1>1. BuildLibrary(t, start, size, rva, l) \in {t, old, named, full, last}
  BY DEF BuildLibrary
<1>2. \A r \in {t, old, named} : DOMAIN r = DOMAIN t /\ DOMAIN r.cells = DOMAIN t.cells
  OBVIOUS
<1>3. DOMAIN full = DOMAIN t /\ DOMAIN full.cells = DOMAIN t.cells
  <2> HIDE DEF named
  <2> QED BY <1>2
<1>4. DOMAIN last = DOMAIN t /\ DOMAIN last.cells = DOMAIN t.cells
  <2> HIDE DEF full
  <2> QED BY <1>3
<1> HIDE DEF old, named, full, last
<1> QED BY <1>1, <1>2, <1>3, <1>4

\* which the libraries are written into,
LEMMA AddLibraryKeeps == ASSUME ImageInv, AddLibrary PROVE ImageInv'
<1> DEFINE t == BuildLibrary([cells |-> larger, at |-> table.at, extra |-> table.extra],
                             TableStart, Size(larger) - TableStart, Size(pe.image),
                             table.libs[loop.i])
<1>1. /\ pc = "libraries" /\ UNCHANGED <<module, pc, pe, space, file>>
      /\ loop' = [loop EXCEPT !.i = @ + 1] /\ larger' = t.cells
  BY Zenon DEF AddLibrary, given, done
<1>2. DOMAIN t.cells = DOMAIN larger
  <2> DEFINE r == [cells |-> larger, at |-> table.at, extra |-> table.extra]
  <2>1. DOMAIN r = {"cells", "at", "extra"} /\ r.cells = larger
    OBVIOUS
  <2>2. t = BuildLibrary(r, TableStart, Size(larger) - TableStart, Size(pe.image),
                         table.libs[loop.i])
    OBVIOUS
  <2> HIDE DEF r, t
  <2> QED BY <2>1, <2>2, LibraryWritten
<1> HIDE DEF t
<1>3. Buffer(larger')
  BY <1>1, <1>2 DEF ImageInv, BuffersOK, Buffer, Size
<1>4. LoopOK'
  BY <1>1 DEF ImageInv, LoopOK
<1>5. HeaderOK' /\ StreamOK'
  BY <1>1 DEF ImageInv, HeaderOK, StreamOK
<1>6. BuffersOK'
  BY <1>1, <1>3 DEF ImageInv, BuffersOK, Buffer, Size
<1> QED BY <1>4, <1>5, <1>6 DEF ImageInv

\* and the empty descriptor behind them.
LEMMA EndTableKeeps == ASSUME ImageInv, EndTable PROVE ImageInv'
<1>1. /\ pc = "libraries" /\ pc' = "layout" /\ UNCHANGED <<module, loop, space, file>>
      /\ DOMAIN larger' = DOMAIN larger
      /\ pe' = [pe EXCEPT !.hdr.imp = TableStart % DW]
  BY DEF EndTable, WithBlank, given, done
<1>2. /\ pe.hdr \in Header /\ Len(pe.hdr.secs) = pe.hdr.n /\ pe.hdr.n <= MaxSections
      /\ pc \in WithHeader
  BY <1>1 DEF ImageInv, HeaderOK, WithHeader, WithSections
<1>3. TableStart % DW \in DWord
  BY <1>2, TableRoom, Wraps
<1>4. /\ DOMAIN pe' = DOMAIN pe
      /\ pe'.hdr = [pe.hdr EXCEPT !.imp = TableStart % DW]
      /\ pe'.raw = pe.raw /\ pe'.image = pe.image /\ pe'.disk = pe.disk /\ pe'.base = pe.base
  BY <1>1 DEF ImageInv, HeaderOK, NewPe
<1>5. pe'.hdr \in Header /\ Len(pe'.hdr.secs) = pe'.hdr.n /\ pe'.hdr.n <= MaxSections
  BY <1>2, <1>3, <1>4 DEF Header
<1>6. HeaderOK' /\ StreamOK'
  BY <1>1, <1>2, <1>4, <1>5 DEF ImageInv, HeaderOK, StreamOK, WithHeader, WithSections
<1>7. LoopOK'
  BY <1>1 DEF ImageInv, LoopOK
<1>8. BuffersOK'
  BY <1>1, <1>4 DEF ImageInv, BuffersOK, Buffer, Size
<1> QED BY <1>6, <1>7, <1>8 DEF ImageInv

-----------------------------------------------------------------------------
(* The layout and the packing.                                             *)

\* The offset behind something of n cells at an offset.
LEMMA BehindSum ==
  ASSUME NEW at \in Nat, NEW n \in Nat, NEW sa \in Nat
  PROVE  Align(at + n, sa) \in Nat /\ Align(at + n, sa) >= at + n
<1>1. at + n \in Nat
  OBVIOUS
<1> QED BY <1>1, AlignUp

\* The size of the headers is a number, and a DWORD once it is stored.
LEMMA HeadersSize == ASSUME NEW h \in Header PROVE Headers(h) \in Nat /\ Headers(h) % DW \in DWord
<1>1. h.soh \in Nat /\ h.sa \in Nat
  BY ImageAssumption DEF Header, DWord
<1>2. Headers(h) \in Nat
  BY <1>1, AlignUp DEF Headers
<1> QED BY <1>2, Wraps

\* The fields that the layout changes are DWORDs,
LEMMA LayOutHeadersKeeps == ASSUME ImageInv, LayOutHeaders PROVE ImageInv'
<1>1. /\ pc = "layout" /\ pc' = "place" /\ UNCHANGED <<module, larger, file>>
      /\ Layout
  BY DEF LayOutHeaders, Layout32, Layout64, given, done
<1>2. /\ pe.hdr \in Header /\ Len(pe.hdr.secs) = pe.hdr.n /\ pe.hdr.n <= MaxSections
      /\ pc \in WithHeader
  BY <1>1 DEF ImageInv, HeaderOK, WithHeader, WithSections
<1>3. NewBase \in Int
  <2>1. pe.base \in Int /\ pe.hdr.base \in Int
    BY <1>2 DEF ImageInv, StreamOK, Header
  <2>2. pe.base % DW \in Int
    BY <2>1, Wraps DEF DWord
  <2> QED BY <2>1, <2>2 DEF NewBase, ImageBase32, ImageBase64
<1>4. Headers(pe.hdr) \in Nat /\ Headers(pe.hdr) % DW \in DWord /\ pe.hdr.sa \in DWord
  BY <1>2, HeadersSize DEF Header
<1>5. pe' = [pe EXCEPT !.hdr.fa = pe.hdr.sa, !.hdr.base = NewBase, !.hdr.soh = Headers(pe.hdr) % DW]
  BY <1>1 DEF Layout
<1>6. /\ DOMAIN pe' = DOMAIN pe
      /\ pe'.hdr = WithPlace(pe.hdr, NewBase, Headers(pe.hdr) % DW)
      /\ pe'.raw = pe.raw /\ pe'.image = pe.image /\ pe'.disk = pe.disk /\ pe'.base = pe.base
  BY <1>5 DEF ImageInv, HeaderOK, NewPe, WithPlace
<1>7. pe'.hdr \in Header /\ Len(pe'.hdr.secs) = pe'.hdr.n /\ pe'.hdr.n <= MaxSections
  BY <1>2, <1>3, <1>4, <1>6, FieldsTyped
<1>8. HeaderOK' /\ StreamOK' /\ BuffersOK'
  BY <1>1, <1>2, <1>6, <1>7, HeaderChanges
<1>9. LoopOK'
  <2>1. loop' = [i |-> 1, at |-> Headers(pe'.hdr) % DW] /\ space' = Align(Headers(pe.hdr), pe.hdr.sa)
    BY <1>1 DEF Layout
  <2>2. Headers(pe'.hdr) % DW \in DWord
    BY <1>7, HeadersSize
  <2>3. space' \in Nat
    <3>1. pe.hdr.sa \in Nat
      BY <1>4 DEF DWord
    <3> QED BY <1>4, <2>1, <3>1, AlignUp
  <2>4. loop'.at \in DWord /\ loop'.at \in Int
    BY <2>1, <2>2 DEF DWord
  <2> QED BY <2>1, <2>3, <2>4 DEF LoopOK
<1> QED BY <1>8, <1>9 DEF ImageInv

\* What the place of a section is.
LEMMA Placing ==
  ASSUME NEW h \in Header, NEW i \in 1 .. Len(h.secs), NEW at \in DWord, Size(larger) \in Nat
  PROVE  /\ Place(h.secs, i, at) \in SectionHeader /\ Place(h.secs, i, at).ptr = at
         /\ Place(h.secs, i, at).vs <= Place(h.secs, i, at).raw
<1> DEFINE s == h.secs[i]
           v1 == IF s.vs > MaxSection THEN CutAtNext(h.secs, i) ELSE s.vs
           v2 == IF (v1 + s.va) % DW > Size(larger) THEN (Size(larger) - s.va) % DW ELSE v1
<1>1. h.secs \in Seq(SectionHeader) /\ s \in SectionHeader
  BY DEF Header
<1>2. s.va \in DWord /\ s.vs \in DWord /\ s.raw \in DWord
  BY <1>1 DEF SectionHeader
<1>3. CutAtNext(h.secs, i) \in DWord
  <2>1. CASE i + 1 \in DOMAIN h.secs /\ h.secs[i + 1].va > h.secs[i].va
    <3>1. h.secs[i + 1] \in SectionHeader
      BY <1>1, <2>1
    <3>2. h.secs[i + 1].va \in DWord
      BY <3>1 DEF SectionHeader
    <3>3. h.secs[i + 1].va - h.secs[i].va \in DWord
      <4>1. DW \in Nat
        BY ImageAssumption
      <4> QED BY <1>2, <2>1, <3>2, <4>1 DEF DWord
    <3>4. MaxSection \in DWord
      BY ImageAssumption DEF DWord
    <3> QED BY <3>3, <3>4 DEF CutAtNext
  <2>2. CASE ~(i + 1 \in DOMAIN h.secs /\ h.secs[i + 1].va > h.secs[i].va)
    <3>1. CutAtNext(h.secs, i) = MaxSection
      BY <2>2 DEF CutAtNext
    <3> QED BY <3>1, ImageAssumption DEF DWord
  <2> QED BY <2>1, <2>2
<1>4. v1 \in DWord
  BY <1>2, <1>3
<1>5. v2 \in DWord
  <2>1. Size(larger) - s.va \in Int
    BY <1>2 DEF DWord
  <2>2. (Size(larger) - s.va) % DW \in DWord
    BY <2>1, Wraps
  <2> QED BY <1>4, <2>2
<1>6. Larger(s.raw, v2) \in DWord /\ v2 <= Larger(s.raw, v2)
  <2> HIDE DEF v2, s
  <2> QED BY <1>2, <1>5 DEF Larger, DWord
<1>7. Place(h.secs, i, at) = [s EXCEPT !.vs = v2, !.raw = Larger(s.raw, v2), !.ptr = at]
  <2>1. Place(h.secs, i, at) = [s EXCEPT !.vs = v2, !.raw = Larger(@, v2), !.ptr = at]
    BY DEF Place
  <2> HIDE DEF v2
  <2> QED BY <1>1, <2>1 DEF SectionHeader
<1> HIDE DEF v2, s
<1> QED BY <1>1, <1>5, <1>6, <1>7 DEF SectionHeader

\* The header that is laid out.
LEMMA HeaderIs ==
  ASSUME ImageInv, pc \in WithSections
  PROVE  /\ pe.hdr \in Header /\ Len(pe.hdr.secs) = pe.hdr.n /\ pe.hdr.n <= MaxSections
         /\ pe.hdr.n \in Nat /\ pe.hdr.sa \in Nat /\ pe.hdr.soh \in Nat /\ pe.hdr.soi \in Nat
         /\ \A i \in 1 .. pe.hdr.n : /\ pe.hdr.secs[i] \in SectionHeader
                                     /\ pe.hdr.secs[i].ptr \in Nat
                                     /\ pe.hdr.secs[i].raw \in Nat
                                     /\ pe.hdr.secs[i].va \in Nat
<1>1. pe.hdr \in Header /\ Len(pe.hdr.secs) = pe.hdr.n /\ pe.hdr.n <= MaxSections
  BY DEF ImageInv, HeaderOK, WithSections
<1>2. DWord \subseteq Nat
  BY ImageAssumption DEF DWord
<1>3. /\ pe.hdr.n \in Nat /\ pe.hdr.sa \in Nat /\ pe.hdr.soh \in Nat /\ pe.hdr.soi \in Nat
  BY <1>1, <1>2 DEF Header
<1>4. \A i \in 1 .. pe.hdr.n : pe.hdr.secs[i] \in SectionHeader
  BY <1>1 DEF Header
<1>5. \A i \in 1 .. pe.hdr.n : /\ pe.hdr.secs[i].ptr \in Nat
                               /\ pe.hdr.secs[i].raw \in Nat
                               /\ pe.hdr.secs[i].va \in Nat
  BY <1>2, <1>4 DEF SectionHeader
<1> QED BY <1>1, <1>3, <1>4, <1>5

\* What a step that places a section does.
LEMMA OnePlaced ==
  ASSUME ImageInv, PlaceSection
  PROVE  \E s \in SectionHeader :
           /\ s.ptr = loop.at /\ s.vs <= s.raw /\ loop.i \in 1 .. pe.hdr.n /\ loop.at % DW = loop.at
           /\ pc = "place" /\ UNCHANGED <<module, larger, file, pc>>
           /\ DOMAIN pe' = DOMAIN pe
           /\ pe'.hdr = WithSecs(pe.hdr, [pe.hdr.secs EXCEPT ![loop.i] = s])
           /\ pe'.raw = pe.raw /\ pe'.image = pe.image /\ pe'.disk = pe.disk /\ pe'.base = pe.base
           /\ loop' = [i |-> loop.i + 1, at |-> Behind(s, pe.hdr, loop.at) % DW]
           /\ space' = Behind(s, pe.hdr, space)
<1> DEFINE s == Place(pe.hdr.secs, loop.i, loop.at)
<1>1. pc = "place" /\ UNCHANGED <<module, larger, file, pc>> /\ PlaceOne
  BY DEF PlaceSection, PlaceOne32, PlaceOne64, given, done
<1>2. pe.hdr \in Header /\ Len(pe.hdr.secs) = pe.hdr.n /\ pe.hdr.n \in Nat
  BY <1>1, HeaderIs DEF WithHeader, WithSections
<1>3. loop.i \in 1 .. pe.hdr.n /\ loop.at \in DWord
  BY <1>1, <1>2 DEF ImageInv, LoopOK, PlaceOne
<1>4. loop.at % DW = loop.at
  <2>1. loop.at \in Int
    BY DEF ImageInv, LoopOK
  <2> QED BY <1>3, <2>1, Wraps
<1>5. s \in SectionHeader /\ s.ptr = loop.at /\ s.vs <= s.raw
  <2>1. Size(larger) \in Nat
    BY SizeNat DEF ImageInv, BuffersOK
  <2> QED BY <1>2, <1>3, <2>1, Placing
<1>6. /\ pe' = [pe EXCEPT !.hdr.secs[loop.i] = s]
      /\ loop' = [i |-> loop.i + 1, at |-> Behind(s, pe.hdr, loop.at) % DW]
      /\ space' = Behind(s, pe.hdr, space)
  BY <1>1, <1>4 DEF PlaceOne
<1> HIDE DEF s
<1>7. /\ DOMAIN pe' = DOMAIN pe
      /\ pe'.hdr = WithSecs(pe.hdr, [pe.hdr.secs EXCEPT ![loop.i] = s])
      /\ pe'.raw = pe.raw /\ pe'.image = pe.image /\ pe'.disk = pe.disk /\ pe'.base = pe.base
  BY <1>2, <1>6 DEF ImageInv, HeaderOK, NewPe, Header, WithSecs
<1> QED BY <1>1, <1>3, <1>4, <1>5, <1>6, <1>7

\* The offset behind a section.
LEMMA BehindSection ==
  ASSUME NEW s \in SectionHeader, NEW h \in Header, NEW at \in Nat
  PROVE  /\ Behind(s, h, at) \in Nat /\ Behind(s, h, at) >= at + s.raw
         /\ Behind(s, h, at) % DW \in DWord
<1>1. s.raw \in Nat /\ h.sa \in Nat
  BY ImageAssumption DEF SectionHeader, Header, DWord
<1>2. at + s.raw \in Nat
  BY <1>1
<1>3. Behind(s, h, at) \in Nat /\ Behind(s, h, at) >= at + s.raw
  BY <1>1, <1>2, AlignUp DEF Behind
<1> QED BY <1>3, Wraps

\* those of each section,
LEMMA PlaceSectionKeeps == ASSUME ImageInv, PlaceSection PROVE ImageInv'
<1>1. PICK s \in SectionHeader :
           /\ s.ptr = loop.at /\ s.vs <= s.raw /\ loop.i \in 1 .. pe.hdr.n /\ loop.at % DW = loop.at
           /\ pc = "place" /\ UNCHANGED <<module, larger, file, pc>>
           /\ DOMAIN pe' = DOMAIN pe
           /\ pe'.hdr = WithSecs(pe.hdr, [pe.hdr.secs EXCEPT ![loop.i] = s])
           /\ pe'.raw = pe.raw /\ pe'.image = pe.image /\ pe'.disk = pe.disk /\ pe'.base = pe.base
           /\ loop' = [i |-> loop.i + 1, at |-> Behind(s, pe.hdr, loop.at) % DW]
           /\ space' = Behind(s, pe.hdr, space)
  BY OnePlaced
<1>2. /\ pe.hdr \in Header /\ Len(pe.hdr.secs) = pe.hdr.n /\ pe.hdr.secs \in Seq(SectionHeader)
      /\ pe.hdr.n <= MaxSections /\ pc \in WithHeader
  BY <1>1, HeaderIs DEF WithHeader, WithSections, Header
<1>3. /\ [pe.hdr.secs EXCEPT ![loop.i] = s] \in Seq(SectionHeader)
      /\ Len([pe.hdr.secs EXCEPT ![loop.i] = s]) = pe.hdr.n
  BY <1>1, <1>2, SectionReplaced
<1>4. pe'.hdr \in Header /\ Len(pe'.hdr.secs) = pe'.hdr.n /\ pe'.hdr.n <= MaxSections
  <2> DEFINE secs == [pe.hdr.secs EXCEPT ![loop.i] = s]
  <2>1. pe'.hdr = WithSecs(pe.hdr, secs) /\ secs \in Seq(SectionHeader) /\ Len(secs) = pe.hdr.n
    BY <1>1, <1>3
  <2> HIDE DEF secs
  <2> QED BY <1>2, <2>1, FieldsTyped
<1>5. HeaderOK' /\ StreamOK' /\ BuffersOK'
  BY <1>1, <1>2, <1>4, HeaderChanges
<1>6. loop.at \in Nat /\ loop.i \in Nat /\ space \in Nat
  BY <1>1, ImageAssumption DEF ImageInv, LoopOK, DWord
<1>7. space' \in Nat
  BY <1>1, <1>2, <1>6, BehindSection
<1>8. loop'.at \in DWord /\ loop'.at \in Int /\ loop'.i \in Nat /\ loop'.i >= 1
  <2>1. Behind(s, pe.hdr, loop.at) % DW \in DWord
    BY <1>2, <1>6, BehindSection
  <2> QED BY <1>1, <1>6, <2>1 DEF DWord
<1>9. LoopOK'
  BY <1>1, <1>7, <1>8 DEF LoopOK
<1> QED BY <1>5, <1>9 DEF ImageInv

\* and the size of the image.
LEMMA EndLayoutKeeps == ASSUME ImageInv, EndLayout PROVE ImageInv'
<1>1. /\ pc = "place" /\ pc' = "copy" /\ UNCHANGED <<module, larger, file, loop, space>>
      /\ pe' = [pe EXCEPT !.hdr.soi = loop.at]
  BY DEF EndLayout, given, counted, done
<1>2. /\ pe.hdr \in Header /\ Len(pe.hdr.secs) = pe.hdr.n /\ pe.hdr.n <= MaxSections
      /\ pc \in WithHeader
  BY <1>1, HeaderIs DEF WithHeader, WithSections
<1>3. loop.at \in DWord
  BY <1>1 DEF ImageInv, LoopOK
<1>4. /\ DOMAIN pe' = DOMAIN pe
      /\ pe'.hdr = [pe.hdr EXCEPT !.soi = loop.at]
      /\ pe'.raw = pe.raw /\ pe'.image = pe.image /\ pe'.disk = pe.disk /\ pe'.base = pe.base
  BY <1>1 DEF ImageInv, HeaderOK, NewPe
<1>5. pe'.hdr \in Header /\ Len(pe'.hdr.secs) = pe'.hdr.n /\ pe'.hdr.n <= MaxSections
  BY <1>2, <1>3, <1>4 DEF Header
<1>6. HeaderOK' /\ StreamOK' /\ BuffersOK'
  BY <1>1, <1>2, <1>4, <1>5, HeaderChanges
<1>7. LoopOK'
  BY <1>1 DEF ImageInv, LoopOK
<1> QED BY <1>6, <1>7 DEF ImageInv

\* What the last steps do.
LEMMA Packing ==
  ASSUME ImageInv, CopyHeader \/ PackSections \/ WriteImage
  PROVE  /\ pc \in {"copy", "pack", "write"} /\ pc' \in {"pack", "write", "close"}
         /\ UNCHANGED <<module, loop, space>>
         /\ DOMAIN pe' = DOMAIN pe
         /\ pe'.hdr = pe.hdr /\ pe'.base = pe.base /\ pe'.raw = pe.raw /\ pe'.image = pe.image
         /\ DOMAIN larger' = DOMAIN larger
         /\ pe'.disk = pe.disk \/ pe'.disk = DiskImage(pe.hdr.soi)
         /\ file' = file \/ file' = pe.disk
<1>1. CASE CopyHeader
  <2>1. pc = "copy" /\ pc' = "pack" /\ UNCHANGED <<module, loop, space, pe, file>>
    BY <1>1 DEF CopyHeader, given, counted, done
  <2>2. DOMAIN larger' = DOMAIN larger
    BY <1>1 DEF CopyHeader
  <2> QED BY <2>1, <2>2
<1>2. CASE PackSections
  <2>1. /\ pc = "pack" /\ pc' = "write" /\ UNCHANGED <<module, loop, space, larger, file>>
        /\ pe' = [pe EXCEPT !.disk = DiskImage(pe.hdr.soi)]
    BY <1>2 DEF PackSections, Pack32, Pack64, Pack, given, counted, done
  <2>2. /\ DOMAIN pe' = DOMAIN pe
        /\ pe'.hdr = pe.hdr /\ pe'.base = pe.base /\ pe'.raw = pe.raw /\ pe'.image = pe.image
        /\ pe'.disk = DiskImage(pe.hdr.soi)
    BY <2>1 DEF ImageInv, HeaderOK, NewPe
  <2> QED BY <2>1, <2>2
<1>3. CASE WriteImage
  BY <1>3 DEF WriteImage, given, counted
<1> QED BY <1>1, <1>2, <1>3

\* Copying and packing give buffers.
LEMMA PackingKeeps ==
  ASSUME ImageInv, CopyHeader \/ PackSections \/ WriteImage
  PROVE  ImageInv'
<1>1. pc' \notin {"header", "place"} /\ pc \in WithSections
  BY Packing DEF WithHeader, WithSections
<1>2. \A n \in Nat : Buffer(DiskImage(n))
  <2> TAKE n \in Nat
  <2>1. DOMAIN DiskImage(n) = 0 .. n - 1
    BY DEF DiskImage
  <2> QED BY <2>1, BufferOf
<1>3. pe.hdr.soi \in Nat
  BY <1>1, HeaderIs
<1>4. Buffer(pe'.disk)
  BY <1>2, <1>3, Packing DEF ImageInv, BuffersOK
<1>5. Buffer(larger')
  BY Packing DEF ImageInv, BuffersOK, Buffer, Size
<1>6. Buffer(file')
  BY Packing DEF ImageInv, BuffersOK
<1>7. Buffer(pe'.image) /\ Size(pe'.image) < DW
  BY Packing DEF ImageInv, BuffersOK
<1> QED BY <1>1, <1>4, <1>5, <1>6, <1>7, Packing, PartChanges

\* Every step keeps the ranges.
LEMMA ImageStep == ASSUME ImageInv, [Next]_vars PROVE ImageInv'
<1>1. CASE StartJob \/ OpenFile \/ OpenAddress \/ OpenHandle \/ Close
  BY <1>1, OpenKeeps
<1>2. CASE ReadHeader \/ BuildHeader \/ BuildSection \/ EndBuild
  BY <1>2, ReadHeaderKeeps, BuildHeaderKeeps, BuildSectionKeeps, EndBuildKeeps
<1>3. CASE ParseSections \/ LoadSections
  BY <1>3, ParseSectionsKeeps, LoadSectionsKeeps
<1>4. CASE ImportDirectory \/ ExportDirectory \/ TakeHash \/ CountImports
  BY <1>4, ReadImageKeeps
<1>5. CASE EntryPoint \/ RebuildImports \/ AddLibrary \/ EndTable
  BY <1>5, EntryPointKeeps, RebuildImportsKeeps, AddLibraryKeeps, EndTableKeeps
<1>6. CASE LayOutHeaders \/ PlaceSection \/ EndLayout
  BY <1>6, LayOutHeadersKeeps, PlaceSectionKeeps, EndLayoutKeeps
<1>7. CASE CopyHeader \/ PackSections \/ WriteImage
  BY <1>7, PackingKeeps
<1>8. CASE Crash
  <2>1. UNCHANGED <<pe, larger, module, loop, space, file>> /\ pc' = "crashed"
    BY <1>8 DEF Crash, given, counted, done
  <2>2. LoopOK' /\ HeaderOK' /\ StreamOK'
    BY <2>1 DEF ImageInv, LoopOK, HeaderOK, StreamOK, WithHeader, WithSections
  <2>3. BuffersOK'
    BY <2>1 DEF ImageInv, BuffersOK, Buffer, Size
  <2> QED BY <2>2, <2>3 DEF ImageInv
<1>9. CASE UNCHANGED vars
  <2>1. UNCHANGED <<pe, larger, module, loop, space, file, pc>>
    BY <1>9 DEF vars, given, counted, done
  <2>2. LoopOK' /\ HeaderOK' /\ StreamOK'
    BY <2>1 DEF ImageInv, LoopOK, HeaderOK, StreamOK, WithHeader, WithSections
  <2>3. BuffersOK'
    BY <2>1 DEF ImageInv, BuffersOK, Buffer, Size
  <2> QED BY <2>2, <2>3 DEF ImageInv
<1>10. CASE Stop
  BY <1>9, <1>10 DEF Stop
<1> QED BY <1>1, <1>2, <1>3, <1>4, <1>5, <1>6, <1>7, <1>8, <1>9, <1>10 DEF Next

\* However a header was made up or tampered with, its fields are in their ranges, and
\* what is read and written lies in buffers.
THEOREM ImageTyped == Spec => []ImageInv
<1> QED BY ImageBegins, ImageStep, PTL DEF Spec

-----------------------------------------------------------------------------
(* The sections lie one behind the other.                                  *)

\* In the beginning there is no section in front,
LEMMA LayoutBegins == ASSUME ImageInv, LayOutHeaders PROVE LayoutInv'
<1>1. /\ pc = "layout" /\ pc' = "place" /\ Layout
  BY DEF LayOutHeaders, Layout32, Layout64
<1>2. pe.hdr \in Header /\ pe.hdr.sa \in Nat
  BY <1>1, HeaderIs DEF WithHeader, WithSections
<1> DEFINE soh == Headers(pe.hdr) % DW
<1>3. Headers(pe.hdr) \in Nat /\ soh \in DWord
  BY <1>2, HeadersSize
<1>4. pe' = [pe EXCEPT !.hdr.fa = pe.hdr.sa, !.hdr.base = NewBase, !.hdr.soh = soh]
      /\ loop' = [i |-> 1, at |-> Headers(pe'.hdr) % DW] /\ space' = Align(Headers(pe.hdr), pe.hdr.sa)
  BY <1>1 DEF Layout
<1> HIDE DEF soh
<1>5. pe'.hdr = WithPlace(pe.hdr, NewBase, soh)
  BY <1>4 DEF ImageInv, HeaderOK, NewPe, WithPlace
<1>6. pe'.hdr.soh = soh /\ pe'.hdr.sa = pe.hdr.sa
  BY <1>2, <1>5 DEF Header, WithPlace
<1>7. space' \in Nat /\ space' >= Headers(pe.hdr)
  BY <1>2, <1>3, <1>4, AlignUp
<1>8. ASSUME space' < DW
      PROVE  loop'.at = space' /\ Laid(pe'.hdr, loop'.i, space')
  <2>1. space' \in DWord /\ Headers(pe.hdr) \in DWord
    BY <1>3, <1>7, <1>8, ImageAssumption DEF DWord
  <2>2. soh = Headers(pe.hdr)
    BY <1>3, <2>1, Wraps DEF soh
  <2>3. Headers(pe'.hdr) = space'
    BY <1>4, <1>6, <2>2 DEF Headers
  <2>4. loop'.at = space' /\ loop'.i = 1
    BY <1>4, <1>7, <2>1, <2>3, Wraps
  <2>5. pe'.hdr.soh <= space'
    BY <1>6, <1>7, <2>2
  <2>6. 1 .. 1 - 1 = {}
    OBVIOUS
  <2> QED BY <2>4, <2>5, <2>6 DEF Laid
<1> QED BY <1>1, <1>8 DEF LayoutInv

\* a section that is placed lies behind those before it,
LEMMA LayoutGoesOn == ASSUME ImageInv, LayoutInv, PlaceSection PROVE LayoutInv'
<1>1. PICK s \in SectionHeader :
           /\ s.ptr = loop.at /\ s.vs <= s.raw /\ loop.i \in 1 .. pe.hdr.n /\ loop.at % DW = loop.at
           /\ pc = "place" /\ UNCHANGED <<module, larger, file, pc>>
           /\ DOMAIN pe' = DOMAIN pe
           /\ pe'.hdr = WithSecs(pe.hdr, [pe.hdr.secs EXCEPT ![loop.i] = s])
           /\ pe'.raw = pe.raw /\ pe'.image = pe.image /\ pe'.disk = pe.disk /\ pe'.base = pe.base
           /\ loop' = [i |-> loop.i + 1, at |-> Behind(s, pe.hdr, loop.at) % DW]
           /\ space' = Behind(s, pe.hdr, space)
  BY OnePlaced
<1>2. pe.hdr \in Header /\ Len(pe.hdr.secs) = pe.hdr.n /\ pe.hdr.n \in Nat /\ pe.hdr.soh \in Nat
  BY <1>1, HeaderIs DEF WithHeader, WithSections
<1>3. \A j \in 1 .. pe.hdr.n : pe.hdr.secs[j].ptr \in Nat /\ pe.hdr.secs[j].raw \in Nat
  BY <1>1, HeaderIs DEF WithHeader, WithSections
<1>4. space \in Nat /\ loop.i \in Nat /\ s.raw \in Nat
  BY ImageAssumption DEF ImageInv, LoopOK, SectionHeader, DWord
<1>5. space' \in Nat /\ space' >= space + s.raw
  BY <1>1, <1>2, <1>4, BehindSection
<1>6. /\ pe'.hdr.soh = pe.hdr.soh
      /\ pe'.hdr.secs = [pe.hdr.secs EXCEPT ![loop.i] = s]
  BY <1>1, <1>2 DEF Header, WithSecs
<1>7. /\ loop.i \in DOMAIN pe.hdr.secs
      /\ pe'.hdr.secs[loop.i] = s
      /\ \A j \in 1 .. loop.i - 1 : j \in 1 .. pe.hdr.n /\ pe'.hdr.secs[j] = pe.hdr.secs[j]
  <2>1. pe.hdr.secs \in Seq(SectionHeader)
    BY <1>2 DEF Header
  <2>2. DOMAIN pe.hdr.secs = 1 .. pe.hdr.n
    BY <1>2, <2>1
  <2>3. loop.i \in 1 .. pe.hdr.n
    BY <1>1
  <2>4. \A j \in 1 .. loop.i - 1 : j \in 1 .. pe.hdr.n /\ j # loop.i
    BY <1>2, <1>4, <2>3
  <2> QED BY <1>6, <2>2, <2>3, <2>4
<1>8. ASSUME space' < DW
      PROVE  loop'.at = space' /\ Laid(pe'.hdr, loop'.i, space')
  <2>1. space < DW
    BY <1>4, <1>5, <1>8, ImageAssumption
  <2>2. loop.at = space /\ Laid(pe.hdr, loop.i, space)
    BY <1>1, <2>1 DEF LayoutInv
  <2>3. loop'.at = space' /\ loop'.i = loop.i + 1
    <3>1. space' \in DWord
      BY <1>5, <1>8, ImageAssumption DEF DWord
    <3>2. space' % DW = space'
      BY <1>5, <3>1, Wraps
    <3> QED BY <1>1, <2>2, <3>2
  <2>4. pe'.hdr.soh <= space /\ pe'.hdr.soh <= space'
    BY <1>2, <1>4, <1>5, <1>6, <2>2 DEF Laid
  <2>5. s.ptr = space
    BY <1>1, <2>2
  <2>6. ASSUME NEW j \in 1 .. loop.i
        PROVE  /\ pe'.hdr.soh <= pe'.hdr.secs[j].ptr
               /\ pe'.hdr.secs[j].ptr + pe'.hdr.secs[j].raw <= space'
               /\ \A k \in 1 .. j - 1 :
                     pe'.hdr.secs[k].ptr + pe'.hdr.secs[k].raw <= pe'.hdr.secs[j].ptr
    <3>1. CASE j = loop.i
      <4>1. pe'.hdr.secs[j] = s
        BY <1>7, <3>1
      <4>2. \A k \in 1 .. j - 1 : pe'.hdr.secs[k].ptr + pe'.hdr.secs[k].raw <= space
        BY <1>6, <1>7, <2>2, <3>1 DEF Laid
      <4> QED BY <1>5, <2>4, <2>5, <4>1, <4>2
    <3>2. CASE j # loop.i
      <4>1. j \in 1 .. loop.i - 1
        BY <1>4, <3>2
      <4>2. pe'.hdr.secs[j] = pe.hdr.secs[j] /\ j \in 1 .. pe.hdr.n
        BY <1>7, <4>1
      <4>3. /\ pe.hdr.soh <= pe.hdr.secs[j].ptr
            /\ pe.hdr.secs[j].ptr + pe.hdr.secs[j].raw <= space
            /\ \A k \in 1 .. j - 1 : pe.hdr.secs[k].ptr + pe.hdr.secs[k].raw <= pe.hdr.secs[j].ptr
        BY <2>2, <4>1 DEF Laid
      <4>4. \A k \in 1 .. j - 1 : pe'.hdr.secs[k] = pe.hdr.secs[k]
        BY <1>4, <1>7, <4>1
      <4>5. pe.hdr.secs[j].ptr + pe.hdr.secs[j].raw <= space'
        BY <1>3, <1>4, <1>5, <4>2, <4>3
      <4> QED BY <1>6, <4>2, <4>3, <4>4, <4>5
    <3> QED BY <3>1, <3>2
  <2>7. 1 .. loop'.i - 1 = 1 .. loop.i
    BY <1>4, <2>3
  <2> QED BY <2>3, <2>4, <2>6, <2>7 DEF Laid
<1> QED BY <1>1, <1>8 DEF LayoutInv

\* and in the end the file is as large as the offset.
LEMMA LayoutEnds == ASSUME ImageInv, LayoutInv, EndLayout PROVE LayoutInv'
<1>1. /\ pc = "place" /\ pc' = "copy" /\ loop.i > pe.hdr.n /\ UNCHANGED <<loop, space>>
      /\ pe' = [pe EXCEPT !.hdr.soi = loop.at]
  BY DEF EndLayout, counted
<1>2. pe.hdr \in Header
  BY <1>1, HeaderIs DEF WithHeader, WithSections
<1>3. pe'.hdr = [pe.hdr EXCEPT !.soi = loop.at]
  BY <1>1 DEF ImageInv, HeaderOK, NewPe
<1>4. /\ pe'.hdr.soh = pe.hdr.soh /\ pe'.hdr.secs = pe.hdr.secs
      /\ pe'.hdr.n = pe.hdr.n /\ pe'.hdr.soi = loop.at
  BY <1>2, <1>3 DEF Header
<1>5. space < DW => loop.at = space /\ Laid(pe'.hdr, loop.i, space)
  BY <1>1, <1>4 DEF LayoutInv, Laid
<1> QED BY <1>1, <1>4, <1>5 DEF LayoutInv

\* What goes into the file depends on the header and the memory alone.
LEMMA DiskImageKept ==
  ASSUME pe'.hdr = pe.hdr, UNCHANGED larger, NEW n
  PROVE  DiskImage(n)' = DiskImage(n)
<1>1. \A a : Copied(a, n)' = Copied(a, n)
  BY DEF Copied
<1> QED BY <1>1 DEF DiskImage

\* The steps that lead to the layout and on.
LEMMA ToTheLayout ==
  ASSUME Next, pc' \in {"place", "copy", "pack", "write"}
  PROVE  LayOutHeaders \/ PlaceSection \/ EndLayout \/ CopyHeader \/ PackSections \/ Stop
<1>1. ~(StartJob \/ OpenFile \/ OpenAddress \/ OpenHandle \/ ReadHeader \/ BuildHeader)
  BY DEF StartJob, OpenFile, OpenAddress, OpenHandle, ReadHeader, BuildHeader
<1>2. ~(BuildSection \/ EndBuild \/ LoadSections \/ ImportDirectory)
  BY DEF BuildSection, EndBuild, LoadSections, ImportDirectory
<1>3. ~ParseSections
  BY DEF ParseSections, CountSections32, CountSections64, CountSections
<1>4. ~(ExportDirectory \/ TakeHash \/ CountImports \/ EntryPoint)
  BY DEF ExportDirectory, TakeHash, CountImports, EntryPoint
<1>6. ~RebuildImports
  BY DEF RebuildImports, ImportTable32, ImportTable64, TableStep, MakeRoom, KeepImports
<1>5. ~(AddLibrary \/ EndTable \/ WriteImage \/ Close \/ Crash)
  BY DEF AddLibrary, EndTable, WriteImage, Close, Crash
<1> QED BY <1>1, <1>2, <1>3, <1>4, <1>5, <1>6 DEF Next

\* No step disturbs what has been laid out.
LEMMA LayoutStep == ASSUME ImageInv, LayoutInv, [Next]_vars PROVE LayoutInv'
<1>1. CASE LayOutHeaders
  BY <1>1, LayoutBegins
<1>2. CASE PlaceSection
  BY <1>2, LayoutGoesOn
<1>3. CASE EndLayout
  BY <1>3, LayoutEnds
<1>4. CASE CopyHeader
  <2>1. pc = "copy" /\ pc' = "pack" /\ UNCHANGED <<pe, loop, space>>
    BY <1>4 DEF CopyHeader, counted
  <2> QED BY <2>1 DEF LayoutInv
<1>5. CASE PackSections
  <2>1. /\ pc = "pack" /\ pc' = "write" /\ UNCHANGED <<loop, space, larger>>
        /\ pe' = [pe EXCEPT !.disk = DiskImage(pe.hdr.soi)]
    BY <1>5 DEF PackSections, Pack32, Pack64, Pack, counted
  <2>2. pe'.hdr = pe.hdr /\ pe'.disk = DiskImage(pe.hdr.soi)
    BY <2>1 DEF ImageInv, HeaderOK, NewPe
  <2>3. DiskImage(pe.hdr.soi)' = DiskImage(pe.hdr.soi)
    <3>1. \A n : DiskImage(n)' = DiskImage(n)
      BY <2>1, <2>2, DiskImageKept
    <3> QED BY <2>2, <3>1
  <2> QED BY <2>1, <2>2, <2>3 DEF LayoutInv
<1>6. CASE UNCHANGED vars
  <2>1. UNCHANGED <<pe, larger, loop, space, pc>>
    BY <1>6 DEF vars, given, counted, done
  <2>2. DiskImage(pe.hdr.soi)' = DiskImage(pe.hdr.soi)
    <3>1. \A n : DiskImage(n)' = DiskImage(n)
      BY <2>1, DiskImageKept
    <3> QED BY <2>1, <3>1
  <2> QED BY <2>1, <2>2 DEF LayoutInv
<1>7. CASE pc' \notin {"place", "copy", "pack", "write"}
  BY <1>7 DEF LayoutInv
<1> QED BY <1>1, <1>2, <1>3, <1>4, <1>5, <1>6, <1>7, ToTheLayout DEF Stop

\* An image that is laid out is in the file that is written: no section lies on the
\* headers or on another, and every byte of those in the image is where it belongs.
LEMMA LaidOutIsHeld == ASSUME ImageInv, LayoutInv PROVE FileHoldsSections
<1> SUFFICES ASSUME pc = "write", space < DW, NEW i \in 1 .. pe.hdr.n
             PROVE  /\ pe.hdr.secs[i].ptr >= pe.hdr.soh
                    /\ Inside(Size(pe.disk), pe.hdr.secs[i].ptr, pe.hdr.secs[i].raw)
                    /\ Inside(Size(larger), pe.hdr.secs[i].va, pe.hdr.secs[i].raw) =>
                          \A k \in 0 .. pe.hdr.secs[i].raw - 1 :
                             pe.disk[pe.hdr.secs[i].ptr + k] = larger[pe.hdr.secs[i].va + k]
  BY DEF FileHoldsSections
<1> DEFINE s(j) == pe.hdr.secs[j]
<1>1. pe.hdr.n \in Nat /\ pe.hdr.soh \in Nat /\ pe.hdr.soi \in Nat
  BY HeaderIs DEF WithHeader, WithSections
<1>2. \A j \in 1 .. pe.hdr.n : s(j).ptr \in Nat /\ s(j).raw \in Nat /\ s(j).va \in Nat
  BY HeaderIs DEF WithHeader, WithSections
<1>3. loop.i \in Nat /\ space \in Nat
  BY DEF ImageInv, LoopOK
<1>4. /\ Laid(pe.hdr, loop.i, space) /\ loop.i > pe.hdr.n /\ pe.hdr.soi = space
      /\ pe.disk = DiskImage(space)
  BY DEF LayoutInv
<1>5. \A j \in 1 .. pe.hdr.n : /\ j \in 1 .. loop.i - 1
                               /\ pe.hdr.soh <= s(j).ptr /\ s(j).ptr + s(j).raw <= space
                               /\ \A k \in 1 .. j - 1 : s(k).ptr + s(k).raw <= s(j).ptr
  BY <1>1, <1>3, <1>4 DEF Laid
<1>6. DOMAIN pe.disk = 0 .. space - 1
  BY <1>4 DEF DiskImage
<1>7. Size(pe.disk) = space
  BY <1>3, <1>6, BufferOf
<1>8. s(i).ptr >= pe.hdr.soh /\ Inside(Size(pe.disk), s(i).ptr, s(i).raw)
  BY <1>1, <1>2, <1>5, <1>7 DEF Inside
<1>9. ASSUME Inside(Size(larger), s(i).va, s(i).raw), NEW k \in 0 .. s(i).raw - 1
      PROVE  pe.disk[s(i).ptr + k] = larger[s(i).va + k]
  <2> DEFINE a == s(i).ptr + k
  <2>1. k \in Nat /\ s(i).ptr <= a /\ a < s(i).ptr + s(i).raw /\ a \in 0 .. space - 1
    BY <1>2, <1>3, <1>5, <1>9
  <2>2. i \in Copied(a, space)
    BY <1>7, <1>8, <1>9, <2>1 DEF Copied
  <2>3. ASSUME NEW j \in Copied(a, space) PROVE j = i
    <3>1. j \in 1 .. pe.hdr.n /\ a >= s(j).ptr /\ a < s(j).ptr + s(j).raw
      BY DEF Copied
    <3>2. CASE j < i
      <4>1. s(j).ptr + s(j).raw <= s(i).ptr
        BY <1>1, <1>5, <3>1, <3>2
      <4> QED BY <1>2, <2>1, <3>1, <4>1
    <3>3. CASE j > i
      <4>1. s(i).ptr + s(i).raw <= s(j).ptr
        BY <1>1, <1>5, <3>1, <3>3
      <4> QED BY <1>2, <2>1, <3>1, <4>1
    <3> QED BY <1>1, <3>1, <3>2, <3>3
  <2>4. Copied(a, space) = {i}
    BY <2>2, <2>3
  <2>5. Highest(Copied(a, space)) = i
    BY <2>4 DEF Highest
  <2>6. DiskImage(space)[a] = larger[s(i).va + a - s(i).ptr]
    <3> HIDE DEF a
    <3> QED BY <2>1, <2>4, <2>5 DEF DiskImage
  <2>7. s(i).va + a - s(i).ptr = s(i).va + k
    BY <1>2, <2>1
  <2> QED BY <1>4, <2>6, <2>7
<1> QED BY <1>8, <1>9

\* The file holds every section, whatever the header says (FileHoldsSections).
THEOREM SectionsHeld == Spec => []FileHoldsSections
<1>1. Init => ImageInv /\ LayoutInv
  <2>1. Init => LayoutInv
    BY DEF Init, LayoutInv
  <2> QED BY <2>1, ImageBegins
<1>2. ImageInv /\ LayoutInv /\ [Next]_vars => (ImageInv /\ LayoutInv)'
  BY ImageStep, LayoutStep
<1>3. ImageInv /\ LayoutInv => FileHoldsSections
  BY LaidOutIsHeld
<1> QED BY <1>1, <1>2, <1>3, PTL DEF Spec

-----------------------------------------------------------------------------
(* Every section has its place behind the one before.                      *)

\* A place depends on the headers and the section before only.
LEMMA OffsetKept ==
  ASSUME NEW h \in Header, NEW i \in 1 .. Len(h.secs), NEW s \in SectionHeader,
         NEW g, g = WithSection(h, i, s)
  PROVE  /\ \A j \in 1 .. i : Offset(g, j) = Offset(h, j)
         /\ Offset(g, i + 1) = Behind(s, h, s.ptr) % DW
         /\ g.secs[i] = s /\ \A j \in 1 .. i - 1 : g.secs[j] = h.secs[j]
<1> DEFINE secs == [h.secs EXCEPT ![i] = s]
<1>1. h.secs \in Seq(SectionHeader)
  BY DEF Header
<1>2. /\ secs \in Seq(SectionHeader) /\ Len(h.secs) \in Nat
      /\ \A j \in 1 .. Len(h.secs) : secs[j] = IF j = i THEN s ELSE h.secs[j]
  BY <1>1, SectionReplaced
<1> HIDE DEF secs
<1>3. g.secs = secs /\ g.soh = h.soh /\ g.sa = h.sa
  BY DEF Header, WithSection, WithSecs, secs
<1>4. g.secs[i] = s /\ \A j \in 1 .. i - 1 : g.secs[j] = h.secs[j]
  BY <1>2, <1>3
<1>5. ASSUME NEW j \in 1 .. i PROVE Offset(g, j) = Offset(h, j)
  <2>1. j # 1 => j - 1 \in 1 .. i - 1
    OBVIOUS
  <2> QED BY <1>3, <1>4, <2>1 DEF Offset, Headers, Behind
<1>6. Offset(g, i + 1) = Behind(s, h, s.ptr) % DW
  <2>1. i + 1 # 1 /\ i + 1 - 1 = i
    OBVIOUS
  <2> QED BY <1>3, <1>4, <2>1 DEF Offset, Behind
<1> QED BY <1>4, <1>5, <1>6

\* The first place is behind the headers,
LEMMA ChainBegins == ASSUME ImageInv, LayOutHeaders PROVE ChainInv'
<1>1. /\ pc = "layout" /\ pc' = "place" /\ Layout
  BY DEF LayOutHeaders, Layout32, Layout64
<1>2. pe.hdr \in Header /\ pe.hdr.n \in Nat
  BY <1>1, HeaderIs DEF WithHeader, WithSections
<1>3. pe'.hdr.n = pe.hdr.n
  <2>1. pe'.hdr = WithPlace(pe.hdr, NewBase, Headers(pe.hdr) % DW)
    BY <1>1 DEF Layout, ImageInv, HeaderOK, NewPe, WithPlace
  <2> QED BY <1>2, <2>1 DEF Header, WithPlace
<1>4. loop' = [i |-> 1, at |-> Headers(pe'.hdr) % DW]
  BY <1>1 DEF Layout
<1>5. Chain(pe'.hdr, 1, Headers(pe'.hdr) % DW)
  <2>1. 1 .. 1 - 1 = {}
    OBVIOUS
  <2> QED BY <2>1 DEF Chain, Offset
<1> QED BY <1>1, <1>2, <1>3, <1>4, <1>5 DEF ChainInv

\* the next is behind the section before it,
LEMMA ChainGoesOn == ASSUME ImageInv, ChainInv, PlaceSection PROVE ChainInv'
<1>1. PICK s \in SectionHeader :
           /\ s.ptr = loop.at /\ s.vs <= s.raw /\ loop.i \in 1 .. pe.hdr.n /\ loop.at % DW = loop.at
           /\ pc = "place" /\ UNCHANGED <<module, larger, file, pc>>
           /\ DOMAIN pe' = DOMAIN pe
           /\ pe'.hdr = WithSecs(pe.hdr, [pe.hdr.secs EXCEPT ![loop.i] = s])
           /\ pe'.raw = pe.raw /\ pe'.image = pe.image /\ pe'.disk = pe.disk /\ pe'.base = pe.base
           /\ loop' = [i |-> loop.i + 1, at |-> Behind(s, pe.hdr, loop.at) % DW]
           /\ space' = Behind(s, pe.hdr, space)
  BY OnePlaced
<1>2. pe.hdr \in Header /\ Len(pe.hdr.secs) = pe.hdr.n /\ pe.hdr.n \in Nat
  BY <1>1, HeaderIs DEF WithHeader, WithSections
<1> DEFINE i == loop.i
           h == pe.hdr
           g == pe'.hdr
<1> HIDE DEF g
<1>3. /\ \A j \in 1 .. i : Offset(g, j) = Offset(h, j)
      /\ Offset(g, i + 1) = Behind(s, h, s.ptr) % DW
      /\ g.secs[i] = s /\ \A j \in 1 .. i - 1 : g.secs[j] = h.secs[j]
  <2>1. g = WithSection(h, i, s) /\ i \in 1 .. Len(h.secs) /\ h \in Header
    BY <1>1, <1>2 DEF g, WithSection
  <2> HIDE DEF h, i
  <2> QED BY <2>1, OffsetKept
<1>4. Chain(h, i, loop.at)
  BY <1>1 DEF ChainInv
<1>5. g.n = h.n
  BY <1>1, <1>2 DEF Header, WithSecs, g
<1>6. loop'.i = i + 1 /\ loop'.at = Offset(g, i + 1) /\ loop'.i <= g.n + 1
  BY <1>1, <1>2, <1>3, <1>5
<1>7. ASSUME NEW j \in 1 .. (i + 1) - 1
      PROVE  g.secs[j].ptr = Offset(g, j) /\ g.secs[j].vs <= g.secs[j].raw
  <2>1. CASE j = i
    BY <1>1, <1>3, <1>4, <2>1 DEF Chain
  <2>2. CASE j # i
    <3>1. j \in 1 .. i - 1 /\ j \in 1 .. i
      BY <1>1, <1>2, <2>2
    <3> QED BY <1>3, <1>4, <3>1 DEF Chain
  <2> QED BY <2>1, <2>2
<1>8. Chain(g, i + 1, Offset(g, i + 1))
  BY <1>7 DEF Chain
<1> QED BY <1>1, <1>6, <1>8 DEF ChainInv, g

\* and the last is the end of the file.
LEMMA ChainEnds == ASSUME ImageInv, ChainInv, EndLayout PROVE ChainInv'
<1>1. /\ pc = "place" /\ pc' = "copy" /\ loop.i > pe.hdr.n
      /\ pe' = [pe EXCEPT !.hdr.soi = loop.at]
  BY DEF EndLayout
<1>2. pe.hdr \in Header /\ pe.hdr.n \in Nat
  BY <1>1, HeaderIs DEF WithHeader, WithSections
<1>3. loop.i \in Nat
  BY DEF ImageInv, LoopOK
<1>4. pe'.hdr = [pe.hdr EXCEPT !.soi = loop.at]
  BY <1>1 DEF ImageInv, HeaderOK, NewPe
<1>5. /\ pe'.hdr.soh = pe.hdr.soh /\ pe'.hdr.sa = pe.hdr.sa /\ pe'.hdr.secs = pe.hdr.secs
      /\ pe'.hdr.n = pe.hdr.n /\ pe'.hdr.soi = loop.at
  BY <1>2, <1>4 DEF Header
<1>6. Chain(pe.hdr, pe.hdr.n + 1, loop.at)
  <2>1. loop.i = pe.hdr.n + 1
    BY <1>1, <1>2, <1>3 DEF ChainInv
  <2> QED BY <1>1, <2>1 DEF ChainInv
<1>7. \A j : Offset(pe'.hdr, j) = Offset(pe.hdr, j)
  BY <1>5 DEF Offset, Headers, Behind
<1>8. Chain(pe'.hdr, pe'.hdr.n + 1, pe'.hdr.soi)
  BY <1>5, <1>6, <1>7 DEF Chain
<1> QED BY <1>1, <1>8 DEF ChainInv

\* The header is copied over the one in the image, however much of it there is.
LEMMA HeaderIsCopied == ASSUME ImageInv, CopyHeader PROVE HeaderThere(pe.hdr, larger')
<1> SUFFICES ASSUME pe.hdr.soh > 0, pe.hdr.soh <= Size(larger')
             PROVE  larger'[0] = <<"header", pe.hdr>>
  BY DEF HeaderThere
<1>1. pc = "copy"
      /\ larger' = [a \in DOMAIN larger |-> IF a < HeaderCopied THEN RawCell(a) ELSE larger[a]]
  BY DEF CopyHeader
<1>2. pe.hdr.soh \in Nat /\ 0 \in DOMAIN pe.raw
  BY <1>1, HeaderIs DEF WithHeader, WithSections, ImageInv, HeaderOK
<1>3. Size(larger') = Size(larger)
  BY <1>1 DEF Size
<1>4. Size(larger) \in Nat /\ DOMAIN larger = 0 .. Size(larger) - 1
  BY SizeNat DEF ImageInv, BuffersOK, Buffer
<1>5. Size(pe.raw) \in Nat /\ Size(pe.raw) > 0
  <2>1. Size(pe.raw) \in Nat /\ DOMAIN pe.raw = 0 .. Size(pe.raw) - 1
    BY SizeNat DEF ImageInv, BuffersOK, Buffer
  <2> QED BY <1>2, <2>1
<1>6. 0 < HeaderCopied
  BY <1>2, <1>3, <1>4, <1>5 DEF HeaderCopied
<1>7. 0 \in DOMAIN larger
  BY <1>2, <1>3, <1>4
<1> QED BY <1>1, <1>6, <1>7 DEF RawCell

\* No step disturbs the places.
LEMMA ChainStep == ASSUME ImageInv, ChainInv, [Next]_vars PROVE ChainInv'
<1>1. CASE LayOutHeaders
  BY <1>1, ChainBegins
<1>2. CASE PlaceSection
  BY <1>2, ChainGoesOn
<1>3. CASE EndLayout
  BY <1>3, ChainEnds
<1>4. CASE CopyHeader
  <2>1. pc = "copy" /\ pc' = "pack" /\ UNCHANGED pe
    BY <1>4 DEF CopyHeader
  <2> QED BY <1>4, <2>1, HeaderIsCopied DEF ChainInv
<1>5. CASE PackSections
  <2>1. pc = "pack" /\ pc' = "write" /\ UNCHANGED larger /\ pe'.hdr = pe.hdr
    BY <1>5 DEF PackSections, Pack32, Pack64, Pack, ImageInv, HeaderOK, NewPe
  <2> QED BY <2>1 DEF ChainInv
<1>6. CASE UNCHANGED vars
  <2>1. UNCHANGED <<pe, larger, loop, pc>>
    BY <1>6 DEF vars, counted
  <2> QED BY <2>1 DEF ChainInv
<1>7. CASE pc' \notin {"place", "copy", "pack", "write"}
  BY <1>7 DEF ChainInv
<1> QED BY <1>1, <1>2, <1>3, <1>4, <1>5, <1>6, <1>7, ToTheLayout DEF Stop

\* Nothing but writing it changes the file.
LEMMA DumpedKept == ASSUME Next, ~WriteImage PROVE UNCHANGED <<file, dumped>>
<1>1. StartJob \/ OpenFile \/ OpenAddress \/ OpenHandle \/ ReadHeader \/ BuildHeader
      => UNCHANGED <<file, dumped>>
  BY DEF StartJob, OpenFile, OpenAddress, OpenHandle, ReadHeader, BuildHeader, done
<1>2. BuildSection \/ EndBuild \/ ParseSections \/ LoadSections \/ ImportDirectory
      => UNCHANGED <<file, dumped>>
  BY DEF BuildSection, EndBuild, ParseSections, LoadSections, ImportDirectory, done
<1>3. ExportDirectory \/ TakeHash \/ CountImports \/ EntryPoint \/ RebuildImports
      => UNCHANGED <<file, dumped>>
  BY DEF ExportDirectory, TakeHash, CountImports, EntryPoint, RebuildImports, done
<1>4. AddLibrary \/ EndTable \/ LayOutHeaders \/ PlaceSection \/ EndLayout \/ CopyHeader
      \/ PackSections \/ Close \/ Crash => UNCHANGED <<file, dumped>>
  BY DEF AddLibrary, EndTable, LayOutHeaders, PlaceSection, EndLayout, CopyHeader,
         PackSections, Close, Crash, done
<1>5. Stop => UNCHANGED <<file, dumped>>
  BY DEF Stop, vars, done
<1> QED BY <1>1, <1>2, <1>3, <1>4, <1>5 DEF Next

\* The file keeps what is in the image it was made of.
LEMMA FileStep == ASSUME ImageInv, LayoutInv, ChainInv, FileInv, [Next]_vars PROVE FileInv'
<1>1. CASE UNCHANGED <<file, dumped>>
  BY <1>1 DEF FileInv
<1>2. CASE WriteImage /\ ~UNCHANGED <<file, dumped>>
  <2>1. /\ pc = "write" /\ file' = pe.disk
        /\ dumped'.hdr = pe.hdr /\ dumped'.image = larger
    BY <1>2 DEF WriteImage
  <2>2. pe.hdr \in Header /\ Len(pe.hdr.secs) = pe.hdr.n /\ pe.hdr.n <= MaxSections
    BY <2>1, HeaderIs DEF WithHeader, WithSections
  <2>3. pe.disk = FileOf(pe.hdr, larger)
    <3>1. \A a : Copied(a, pe.hdr.soi) = PackedAt(pe.hdr, larger, a)
      BY DEF Copied, PackedAt
    <3> QED BY <2>1, <3>1 DEF LayoutInv, DiskImage, FileOf
  <2>4. Chain(pe.hdr, pe.hdr.n + 1, pe.hdr.soi) /\ HeaderThere(pe.hdr, larger) /\ Buffer(larger)
    BY <2>1 DEF ChainInv, ImageInv, BuffersOK
  <2> QED BY <2>1, <2>2, <2>3, <2>4 DEF FileInv
<1>3. UNCHANGED vars => UNCHANGED <<file, dumped>>
  BY DEF vars, done
<1> QED BY <1>1, <1>2, <1>3, DumpedKept

-----------------------------------------------------------------------------
(* The layout of a tidy header is that of the image.                       *)

\* What holds of 1 and of the next one holds of all of them.
LEMMA CountUp ==
  ASSUME NEW n \in Nat, NEW S, 1 \in S, \A i \in 1 .. n : i \in S /\ i < n => i + 1 \in S
  PROVE  \A i \in 1 .. n : i \in S
<1> DEFINE B == {i \in 1 .. n : i \notin S}
<1> SUFFICES ASSUME B # {} PROVE FALSE
  OBVIOUS
<1>1. B \subseteq Nat
  OBVIOUS
<1>2. PICK b \in B : \A c \in B : ~(<<c, b>> \in Less)
  <2> HIDE DEF B
  <2> QED BY <1>1, WFMin, LessWellFounded
<1>3. b \in 1 .. n /\ b # 1
  OBVIOUS
<1>4. b - 1 \in 1 .. n /\ b - 1 < n /\ b - 1 < b /\ b - 1 + 1 = b
  BY <1>3
<1>5. b - 1 \in B
  BY <1>3, <1>4
<1>6. <<b - 1, b>> \in Less
  BY <1>3, <1>4 DEF Less
<1> QED BY <1>2, <1>5, <1>6

\* Aligning goes to the next multiple.
Multiples(n) == {n * k : k \in Nat}

\* What a number is aligned to is a multiple, and the next one.
LEMMA AlignIs ==
  ASSUME NEW a \in Nat, NEW n \in Nat \ {0}
  PROVE  /\ Align(a, n) \in Multiples(n) /\ a <= Align(a, n) /\ Align(a, n) < a + n
         /\ \A c \in Multiples(n) : a <= c /\ c < a + n => Align(a, n) = c
<1> DEFINE d == a \div n
           m == a % n
<1>1. d \in Nat /\ m \in Nat /\ m < n /\ a = n * d + m
  OBVIOUS
<1>2. Align(a, n) = IF m > 0 THEN a - m + n ELSE a
  BY DEF Align
<1> HIDE DEF d, m
<1>3. n * (d + 1) = n * d + n /\ d + 1 \in Nat /\ n * d \in Nat
  BY <1>1
<1>4. PICK k \in Nat : Align(a, n) = n * k /\ a <= n * k /\ n * k < a + n
  <2>1. CASE m > 0
    <3>1. Align(a, n) = n * (d + 1)
      BY <1>1, <1>2, <1>3, <2>1
    <3>2. a <= n * (d + 1) /\ n * (d + 1) < a + n
      BY <1>1, <1>3, <2>1
    <3> QED BY <1>3, <3>1, <3>2
  <2>2. CASE m = 0
    <3>1. Align(a, n) = n * d
      BY <1>1, <1>2, <2>2
    <3> QED BY <1>1, <3>1, <2>2
  <2> QED BY <1>1, <2>1, <2>2
<1>5. ASSUME NEW l \in Nat, a <= n * l, n * l < a + n PROVE n * l = n * k
  <2>1. CASE l = k
    BY <2>1
  <2>2. CASE l < k
    <3>1. n * l + n <= n * k
      <4>1. n * (l + 1) <= n * k
        BY <2>2
      <4> QED BY <4>1
    <3> QED BY <1>4, <1>5, <3>1
  <2>3. CASE k < l
    <3>1. n * k + n <= n * l
      <4>1. n * (k + 1) <= n * l
        BY <2>3
      <4> QED BY <4>1
    <3> QED BY <1>4, <1>5, <3>1
  <2> QED BY <2>1, <2>2, <2>3
<1>6. ASSUME NEW c \in Multiples(n), a <= c, c < a + n PROVE Align(a, n) = c
  <2>1. PICK l \in Nat : c = n * l
    BY DEF Multiples
  <2> QED BY <1>4, <1>5, <1>6, <2>1
<1>7. Align(a, n) \in Multiples(n)
  BY <1>4 DEF Multiples
<1> QED BY <1>4, <1>6, <1>7

\* Multiples add up.
LEMMA MultiplesAdd ==
  ASSUME NEW n \in Nat, NEW b \in Multiples(n), NEW c \in Multiples(n)
  PROVE  b + c \in Multiples(n) /\ b \in Nat /\ c \in Nat
<1>1. PICK k \in Nat : b = n * k
  BY DEF Multiples
<1>2. PICK l \in Nat : c = n * l
  BY DEF Multiples
<1>3. b + c = n * (k + l) /\ k + l \in Nat
  BY <1>1, <1>2
<1> QED BY <1>1, <1>2, <1>3 DEF Multiples

\* What is aligned stays where it is, and what is behind it is aligned as it is.
AddsUp(a, b, n) == Align(a + b, n) = a + Align(b, n)

LEMMA AlignedSum ==
  ASSUME NEW n \in Nat \ {0}, NEW va \in Nat, NEW vs \in Nat, va % n = 0
  PROVE  /\ Align(va, n) = va /\ AddsUp(va, vs, n)
         /\ Align(vs, n) \in Nat /\ vs <= Align(vs, n)
<1> DEFINE c == Align(vs, n)
<1>1. Align(va, n) = va
  BY DEF Align
<1>2. va \in Multiples(n)
  BY <1>1, AlignIs
<1>3. c \in Multiples(n) /\ vs <= c /\ c < vs + n
  BY AlignIs
<1> HIDE DEF c
<1>4. va + c \in Multiples(n) /\ c \in Nat
  BY <1>2, <1>3, MultiplesAdd
<1>5. va + vs \in Nat /\ va + vs <= va + c /\ va + c < va + vs + n
  BY <1>3, <1>4
<1>6. Align(va + vs, n) = va + c
  BY <1>4, <1>5, AlignIs
<1> QED BY <1>1, <1>3, <1>4, <1>6 DEF AddsUp, c

\* The size of what fills an aligned size.
LEMMA AlignedFull ==
  ASSUME NEW n \in Nat \ {0}, NEW vs \in Nat, NEW raw \in Nat, vs <= raw, raw <= Align(vs, n)
  PROVE  Align(raw, n) = Align(vs, n)
<1> DEFINE c == Align(vs, n)
<1>1. c \in Multiples(n) /\ vs <= c /\ c < vs + n
  BY AlignIs
<1>2. c \in Nat /\ raw <= c
  BY <1>1, MultiplesAdd
<1> HIDE DEF c
<1>3. raw <= c /\ c < raw + n
  BY <1>1, <1>2
<1> QED BY <1>1, <1>3, AlignIs DEF c

\* The fields of a section header are numbers.
LEMMA FieldsAre ==
  ASSUME NEW h \in Header, Len(h.secs) = h.n
  PROVE  /\ h.n \in Nat /\ h.sa \in Nat /\ h.soh \in Nat /\ h.soi \in Nat
         /\ h.soh < DW /\ h.soi < DW
         /\ \A i \in 1 .. h.n : LET s == h.secs[i] IN
               /\ s \in SectionHeader
               /\ s.va \in Nat /\ s.vs \in Nat /\ s.raw \in Nat /\ s.ptr \in Nat /\ s.va < DW
<1>1. \A a \in DWord : a \in Nat /\ a < DW
  BY ImageAssumption DEF DWord
<1>2. h.n \in Nat /\ h.sa \in DWord /\ h.soh \in DWord /\ h.soi \in DWord
  BY DEF Header
<1>3. ASSUME NEW i \in 1 .. h.n, NEW s, s = h.secs[i]
      PROVE  /\ s \in SectionHeader
             /\ s.va \in Nat /\ s.vs \in Nat /\ s.raw \in Nat /\ s.ptr \in Nat /\ s.va < DW
  <2>1. s \in SectionHeader
    BY <1>2, <1>3 DEF Header
  <2>2. s.va \in DWord /\ s.vs \in DWord /\ s.raw \in DWord /\ s.ptr \in DWord
    BY <2>1 DEF SectionHeader
  <2> QED BY <1>1, <2>1, <2>2
<1> QED BY <1>1, <1>2, <1>3

\* Sections one behind the other, all of them behind the headers.
Ordered(h) == \A i \in 1 .. h.n :
    /\ h.soh <= h.secs[i].va
    /\ \A k \in 1 .. i - 1 : h.secs[k].va + h.secs[k].raw <= h.secs[i].va
EndOfLast(h) == Align(h.secs[h.n].va + h.secs[h.n].vs, h.sa)

\* The sections of a tidy header lie one behind the other, and end in the image.
LEMMA TidyOrder ==
  ASSUME NEW h \in Header, Len(h.secs) = h.n, NEW size \in Nat, Tidy(h, size)
  PROVE  /\ h.n \in Nat \ {0} /\ h.sa \in Nat \ {0} /\ h.soh \in Nat \ {0}
         /\ SectionsAt + h.n * SectionCells <= h.soh /\ Ordered(h)
         /\ EndOfLast(h) \in Nat /\ EndOfLast(h) <= SizeLimit(h.n) /\ EndOfLast(h) < DW
         /\ \A i \in 1 .. h.n :
               /\ h.secs[i].va + h.secs[i].raw <= EndOfLast(h)
               /\ h.secs[i].va + h.secs[i].raw <= size
<1> DEFINE s(i) == h.secs[i]
           n == h.n
           end(i) == Align(s(i).va + s(i).vs, h.sa)
           limit == SizeLimit(n)
<1>1. /\ n \in Nat \ {0} /\ h.sa \in Nat \ {0} /\ h.soh \in Nat
      /\ \A i \in 1 .. n : /\ s(i).va \in Nat /\ s(i).vs \in Nat /\ s(i).raw \in Nat
  <2>1. h.sa > 0 /\ h.n > 0
    BY DEF Tidy
  <2>2. /\ h.n \in Nat /\ h.sa \in Nat /\ h.soh \in Nat
        /\ \A i \in 1 .. n : s(i).va \in Nat /\ s(i).vs \in Nat /\ s(i).raw \in Nat
    BY FieldsAre
  <2> HIDE DEF s
  <2> QED BY <2>1, <2>2
<1>2. /\ h.soh = s(1).va /\ SectionsAt + n * SectionCells <= h.soh
      /\ \A i \in 1 .. n : /\ s(i).va % h.sa = 0 /\ s(i).raw <= Align(s(i).vs, h.sa)
                           /\ i < n => s(i + 1).va = end(i)
                           /\ i = n => s(i).va + s(i).raw <= size /\ end(i) <= limit
  <2>1. h.soh = s(1).va /\ SectionsAt + n * SectionCells <= h.soh
    BY Zenon DEF Tidy
  <2>2. ASSUME NEW i \in 1 .. n
        PROVE  /\ s(i).va % h.sa = 0 /\ s(i).raw <= Align(s(i).vs, h.sa)
               /\ IF i < n THEN s(i + 1).va = end(i)
                  ELSE s(i).va + s(i).raw <= size /\ end(i) <= limit
    BY Zenon DEF Tidy
  <2>3. n \in Nat
    BY <1>1
  <2> HIDE DEF s, end, limit
  <2> QED BY <2>1, <2>2, <2>3
<1>3. limit \in Nat /\ limit < DW
  <2>1. MaxSection * (n + 1) \in Int
    BY <1>1, ImageAssumption
  <2> QED BY <2>1, WrapsNat DEF SizeLimit
<1>4. h.soh > 0
  <2>1. n * SectionCells > 0 /\ SectionsAt \in Nat
    BY <1>1, ImageAssumption
  <2> DEFINE cells == n * SectionCells
  <2>2. cells \in Nat
    BY <1>1, ImageAssumption
  <2>3. SectionsAt + cells <= h.soh /\ cells > 0
    BY <1>2, <2>1
  <2> HIDE DEF cells, s
  <2> QED BY <1>1, <2>1, <2>2, <2>3
<1> HIDE DEF limit, s
<1>5. \A i \in 1 .. n : s(i).va + s(i).raw <= end(i) /\ end(i) \in Nat
  <2> TAKE i \in 1 .. n
  <2>1. /\ s(i).va \in Nat /\ s(i).vs \in Nat /\ s(i).raw \in Nat /\ s(i).va % h.sa = 0
        /\ s(i).raw <= Align(s(i).vs, h.sa)
    BY <1>1, <1>2
  <2> DEFINE sa == h.sa
             va == s(i).va
             vs == s(i).vs
             raw == s(i).raw
  <2>2. sa \in Nat \ {0} /\ va % sa = 0
    BY <1>1, <2>1
  <2> HIDE DEF sa, va, vs, raw
  <2>3. /\ va \in Nat /\ vs \in Nat /\ raw \in Nat /\ raw <= Align(vs, sa)
    BY <2>1 DEF sa, va, vs, raw
  <2>4. AddsUp(va, vs, sa) /\ Align(vs, sa) \in Nat
    BY <2>2, <2>3, AlignedSum
  <2>5. va + raw <= Align(va + vs, sa) /\ Align(va + vs, sa) \in Nat
    BY <2>3, <2>4 DEF AddsUp
  <2> QED BY <2>5 DEF sa, va, vs, raw
<1>6. \A i \in 1 .. n : i < n => s(i).va + s(i).raw <= s(i + 1).va
  BY <1>2, <1>5
<1>7. \A k, i \in 1 .. n : k < i => s(k).va + s(k).raw <= s(i).va
  <2> TAKE k \in 1 .. n
  <2> DEFINE S == {i \in 1 .. n : k < i => s(k).va + s(k).raw <= s(i).va}
  <2>1. 1 \in S
    BY <1>1
  <2>2. \A i \in 1 .. n : i \in S /\ i < n => i + 1 \in S
    <3> SUFFICES ASSUME NEW i \in 1 .. n, i \in S, i < n, k < i + 1 PROVE i + 1 \in S
      BY <1>1
    <3>1. i + 1 \in 1 .. n /\ s(i).va + s(i).raw <= s(i + 1).va
      BY <1>1, <1>6
    <3>2. CASE k = i
      BY <3>1, <3>2
    <3>3. CASE k < i
      <4>1. s(k).va + s(k).raw <= s(i).va
        BY <3>3
      <4>2. /\ s(k).va + s(k).raw \in Nat /\ s(i).va \in Nat /\ s(i).raw \in Nat
            /\ s(i + 1).va \in Nat
        <5>1. s(k).va \in Nat /\ s(k).raw \in Nat
          BY <1>1
        <5>2. s(i).va \in Nat /\ s(i).raw \in Nat
          BY <1>1
        <5>3. s(i + 1).va \in Nat
          BY <1>1, <3>1
        <5> QED BY <5>1, <5>2, <5>3
      <4>3. s(i).va <= s(i).va + s(i).raw
        BY <4>2
      <4>4. s(k).va + s(k).raw <= s(i + 1).va
        BY <3>1, <4>1, <4>2, <4>3
      <4> QED BY <3>1, <4>4
    <3> QED BY <1>1, <3>2, <3>3
  <2>3. \A i \in 1 .. n : i \in S
    <3> HIDE DEF S
    <3> QED BY <1>1, <2>1, <2>2, CountUp
  <2> QED BY <2>3
<1>8. \A i \in 1 .. n : h.soh <= s(i).va
  <2> TAKE i \in 1 .. n
  <2>1. 1 \in 1 .. n /\ (i = 1 \/ 1 < i)
    BY <1>1
  <2>2. h.soh = s(1).va /\ s(1).va \in Nat /\ s(1).raw \in Nat /\ s(i).va \in Nat
    BY <1>1, <1>2, <2>1
  <2>3. 1 < i => s(1).va + s(1).raw <= s(i).va
    BY <1>7, <2>1
  <2> QED BY <2>1, <2>2, <2>3
<1>9. n \in 1 .. n /\ end(n) = EndOfLast(h)
  BY <1>1 DEF EndOfLast, s
<1>10. \A i \in 1 .. n : s(i).va + s(i).raw <= end(n) /\ s(i).va + s(i).raw <= size
  <2> TAKE i \in 1 .. n
  <2>1. i = n \/ i < n
    BY <1>1
  <2>2. s(n).va + s(n).raw <= end(n) /\ s(n).va + s(n).raw <= size
    BY <1>2, <1>5, <1>9
  <2>3. CASE i < n
    <3>1. s(i).va + s(i).raw <= s(n).va
      BY <1>7, <1>9, <2>3
    <3>2. /\ s(n).va \in Nat /\ s(n).raw \in Nat /\ s(i).va \in Nat /\ s(i).raw \in Nat
      BY <1>1, <1>9
    <3>3. end(n) \in Nat
      BY <1>5, <1>9
    <3> HIDE DEF end
    <3>4. s(n).va <= s(n).va + s(n).raw /\ s(i).va + s(i).raw \in Nat
      BY <3>2
    <3> QED BY <2>2, <3>1, <3>2, <3>3, <3>4
  <2> QED BY <2>1, <2>2, <2>3
<1>11. Ordered(h)
  <2>1. ASSUME NEW i \in 1 .. n
        PROVE  h.soh <= s(i).va /\ \A k \in 1 .. i - 1 : s(k).va + s(k).raw <= s(i).va
    <3>1. \A k \in 1 .. i - 1 : k \in 1 .. n /\ k < i
      BY <1>1
    <3> QED BY <1>7, <1>8, <3>1
  <2> QED BY <2>1 DEF Ordered, s
<1>12. end(n) \in Nat /\ end(n) <= limit /\ end(n) < DW
  <2>1. end(n) \in Nat /\ end(n) <= limit
    BY <1>2, <1>5, <1>9
  <2> QED BY <1>3, <2>1, ImageAssumption
<1>13. \A i \in 1 .. n : /\ h.secs[i].va + h.secs[i].raw <= EndOfLast(h)
                         /\ h.secs[i].va + h.secs[i].raw <= size
  BY <1>9, <1>10 DEF s
<1> QED BY <1>1, <1>2, <1>4, <1>9, <1>11, <1>12, <1>13 DEF limit

\* In the file of a tidy header every section is where it is in the image: behind the
\* headers and the sections before it, and before the end of the file and the image.
AsInImage(h, size) ==
    /\ h.n > 0 /\ h.soh > 0 /\ h.soh <= h.soi /\ h.soi <= SizeLimit(h.n)
    /\ \A i \in 1 .. h.n :
          LET s == h.secs[i]
          IN  /\ s.ptr = s.va /\ s.vs <= s.raw /\ h.soh <= s.va
              /\ s.va + s.raw <= h.soi /\ s.va + s.raw <= size
              /\ \A k \in 1 .. i - 1 : h.secs[k].va + h.secs[k].raw <= s.va

\* In the file they lie as they do in the image.
LEMMA TidyIsAsInImage ==
  ASSUME NEW h \in Header, Len(h.secs) = h.n, NEW size \in Nat,
         Chain(h, h.n + 1, h.soi), Tidy(h, size)
  PROVE  AsInImage(h, size)
<1> DEFINE s(i) == h.secs[i]
           n == h.n
           end(i) == Align(s(i).va + s(i).vs, h.sa)
<1>1. /\ n \in Nat \ {0} /\ h.sa \in Nat \ {0} /\ h.soh \in Nat \ {0} /\ h.soi \in Nat
      /\ h.soh < DW
      /\ \A i \in 1 .. n : /\ s(i).va \in Nat /\ s(i).vs \in Nat /\ s(i).raw \in Nat
                           /\ s(i).ptr \in Nat /\ s(i).va < DW
  <2>1. n \in Nat \ {0} /\ h.sa \in Nat \ {0} /\ h.soh \in Nat \ {0}
    BY TidyOrder
  <2>2. /\ h.soi \in Nat /\ h.soh < DW
        /\ \A i \in 1 .. n : /\ s(i).va \in Nat /\ s(i).vs \in Nat /\ s(i).raw \in Nat
                             /\ s(i).ptr \in Nat /\ s(i).va < DW
    BY FieldsAre
  <2> HIDE DEF s
  <2> QED BY <2>1, <2>2
<1>2. /\ h.soh = s(1).va
      /\ \A i \in 1 .. n : /\ s(i).va % h.sa = 0 /\ s(i).raw <= Align(s(i).vs, h.sa)
                           /\ i < n => s(i + 1).va = end(i)
  <2>1. h.soh = s(1).va
    BY Zenon DEF Tidy
  <2>2. ASSUME NEW i \in 1 .. n
        PROVE  /\ s(i).va % h.sa = 0 /\ s(i).raw <= Align(s(i).vs, h.sa)
               /\ i < n => s(i + 1).va = end(i)
    BY Zenon DEF Tidy
  <2> QED BY <2>1, <2>2
<1>3. /\ h.soi = Offset(h, n + 1)
      /\ \A i \in 1 .. n : s(i).ptr = Offset(h, i) /\ s(i).vs <= s(i).raw
  <2>1. 1 .. (n + 1) - 1 = 1 .. n
    BY <1>1
  <2> QED BY <2>1 DEF Chain
<1>4. \A i \in 1 .. n : /\ h.soh <= s(i).va /\ s(i).va + s(i).raw <= EndOfLast(h)
                        /\ s(i).va + s(i).raw <= size
                        /\ \A k \in 1 .. i - 1 : s(k).va + s(k).raw <= s(i).va
  BY TidyOrder DEF Ordered
<1>5. EndOfLast(h) \in Nat /\ EndOfLast(h) <= SizeLimit(n) /\ EndOfLast(h) < DW
  BY TidyOrder
<1>6. \A a \in Nat : a < DW => a % DW = a
  BY WrapsNat
<1> HIDE DEF s
<1>7. \A i \in 1 .. n : /\ Align(s(i).va, h.sa) = s(i).va
                        /\ Align(s(i).va + s(i).raw, h.sa) = end(i)
  <2> TAKE i \in 1 .. n
  <2>1. /\ s(i).va \in Nat /\ s(i).vs \in Nat /\ s(i).raw \in Nat /\ s(i).va % h.sa = 0
        /\ s(i).vs <= s(i).raw /\ s(i).raw <= Align(s(i).vs, h.sa)
    BY <1>1, <1>2, <1>3
  <2> DEFINE sa == h.sa
             va == s(i).va
             vs == s(i).vs
             raw == s(i).raw
  <2>2. sa \in Nat \ {0} /\ va % sa = 0
    BY <1>1, <2>1
  <2> HIDE DEF sa, va, vs, raw
  <2>3. va \in Nat /\ vs \in Nat /\ raw \in Nat
    BY <2>1 DEF va, vs, raw
  <2>4. Align(va, sa) = va
    BY <2>2, <2>3, AlignedSum, Zenon
  <2>5. AddsUp(va, vs, sa)
    BY <2>2, <2>3, AlignedSum
  <2>6. AddsUp(va, raw, sa)
    BY <2>2, <2>3, AlignedSum
  <2>7. vs <= raw /\ raw <= Align(vs, sa)
    BY <2>1 DEF sa, vs, raw
  <2>8. Align(raw, sa) = Align(vs, sa)
    BY <2>2, <2>3, <2>7, AlignedFull
  <2> QED BY <2>4, <2>5, <2>6, <2>8 DEF AddsUp, sa, va, vs, raw
<1>8. \A i \in 1 .. n : Offset(h, i + 1) = Align(s(i).ptr + s(i).raw, h.sa) % DW
  <2> TAKE i \in 1 .. n
  <2>1. (i + 1) - 1 = i /\ i + 1 # 1
    OBVIOUS
  <2> QED BY <2>1 DEF Offset, Behind, s
<1>9. \A i \in 1 .. n : s(i).ptr = s(i).va
  <2> DEFINE S == {i \in 1 .. n : s(i).ptr = s(i).va}
  <2>1. 1 \in S
    <3>1. 1 \in 1 .. n
      BY <1>1
    <3>2. s(1).ptr = Headers(h) % DW
      BY <1>3, <3>1 DEF Offset
    <3>3. Headers(h) = h.soh
      BY <1>2, <1>7, <3>1 DEF Headers
    <3> QED BY <1>1, <1>2, <1>6, <3>1, <3>2, <3>3
  <2>2. \A i \in 1 .. n : i \in S /\ i < n => i + 1 \in S
    <3> SUFFICES ASSUME NEW i \in 1 .. n, i \in S, i < n PROVE i + 1 \in S
      OBVIOUS
    <3>1. i + 1 \in 1 .. n
      BY <1>1
    <3>2. s(i + 1).ptr = Align(s(i).va + s(i).raw, h.sa) % DW
      BY <1>3, <1>8, <3>1
    <3>3. s(i + 1).ptr = s(i + 1).va % DW
      BY <1>2, <1>7, <3>2
    <3> QED BY <1>1, <1>6, <3>1, <3>3
  <2>3. \A i \in 1 .. n : i \in S
    <3> HIDE DEF S
    <3> QED BY <1>1, <2>1, <2>2, CountUp
  <2> QED BY <2>3
<1>10. h.soi = EndOfLast(h)
  <2>1. n \in 1 .. n /\ end(n) = EndOfLast(h)
    BY <1>1 DEF EndOfLast, s
  <2>2. h.soi = EndOfLast(h) % DW
    BY <1>3, <1>7, <1>8, <1>9, <2>1
  <2> QED BY <1>5, <1>6, <2>2
<1>11. h.soh <= h.soi
  <2>1. 1 \in 1 .. n
    BY <1>1
  <2> QED BY <1>1, <1>4, <1>10, <2>1
<1>12. \A i \in 1 .. n : s(i).ptr = s(i).va /\ s(i).vs <= s(i).raw
  BY <1>3, <1>9
<1>13. h.n > 0 /\ h.soh > 0
  BY <1>1
<1> QED BY <1>4, <1>5, <1>10, <1>11, <1>12, <1>13 DEF AsInImage, s

\* No address is in two of the sections.
LEMMA OnlyOne ==
  ASSUME NEW h \in Header, Len(h.secs) = h.n, Ordered(h),
         NEW i \in 1 .. h.n, NEW j \in 1 .. h.n, NEW a \in Int,
         a >= h.secs[i].va, a < h.secs[i].va + h.secs[i].raw,
         a >= h.secs[j].va, a < h.secs[j].va + h.secs[j].raw
  PROVE  i = j
<1> DEFINE first(k) == h.secs[k].va
           after(k) == h.secs[k].va + h.secs[k].raw
<1>1. h.n \in Nat /\ \A k \in 1 .. h.n : first(k) \in Nat /\ after(k) \in Nat
  <2>1. h.n \in Nat /\ \A k \in 1 .. h.n : h.secs[k].va \in Nat /\ h.secs[k].raw \in Nat
    BY FieldsAre
  <2>2. \A k \in 1 .. h.n : first(k) \in Nat
    BY <2>1
  <2>3. \A va, raw \in Nat : va + raw \in Nat
    OBVIOUS
  <2>4. \A k \in 1 .. h.n : after(k) \in Nat
    BY <2>1, <2>3, Zenon
  <2> QED BY <2>1, <2>2, <2>4
<1>2. \A k \in 1 .. h.n : \A l \in 1 .. k - 1 : after(l) <= first(k)
  BY DEF Ordered
<1>3. a >= first(i) /\ a < after(i) /\ a >= first(j) /\ a < after(j)
  OBVIOUS
<1> HIDE DEF first, after
<1>4. \A k, l \in 1 .. h.n : l < k => l \in 1 .. k - 1
  BY <1>1
<1>5. CASE i < j
  <2>1. after(i) <= first(j)
    BY <1>2, <1>4, <1>5
  <2> QED BY <1>1, <1>3, <2>1
<1>6. CASE j < i
  <2>1. after(j) <= first(i)
    BY <1>2, <1>4, <1>6
  <2> QED BY <1>1, <1>3, <2>1
<1> QED BY <1>1, <1>5, <1>6

\* The file of a tidy header has the header in front and every section in its place.
LEMMA FileHas ==
  ASSUME NEW h \in Header, Len(h.secs) = h.n, NEW image, Buffer(image),
         AsInImage(h, Size(image)), HeaderThere(h, image), NEW f, f = FileOf(h, image)
  PROVE  /\ DOMAIN f = 0 .. h.soi - 1 /\ Size(f) = h.soi /\ f[0] = <<"header", h>>
         /\ \A i \in 1 .. h.n : LET s == h.secs[i] IN
               \A a \in s.va .. s.va + s.raw - 1 : a \in DOMAIN f /\ f[a] = image[a]
<1> DEFINE s(i) == h.secs[i]
           size == Size(image)
<1>1. /\ h.n \in Nat /\ h.soh \in Nat /\ h.soi \in Nat
      /\ \A i \in 1 .. h.n : /\ s(i).va \in Nat /\ s(i).vs \in Nat /\ s(i).raw \in Nat
                             /\ s(i).ptr \in Nat
  BY FieldsAre
<1>2. /\ h.n > 0 /\ h.soh > 0 /\ h.soh <= h.soi
      /\ \A i \in 1 .. h.n :
            /\ s(i).ptr = s(i).va /\ s(i).vs <= s(i).raw /\ h.soh <= s(i).va
            /\ s(i).va + s(i).raw <= h.soi /\ s(i).va + s(i).raw <= size
            /\ \A k \in 1 .. i - 1 : s(k).va + s(k).raw <= s(i).va
  BY DEF AsInImage
<1>3. size \in Nat
  BY SizeNat
<1>4. DOMAIN f = 0 .. h.soi - 1 /\ Size(f) = h.soi
  <2>1. DOMAIN f = 0 .. h.soi - 1
    BY DEF FileOf
  <2> QED BY <1>1, <2>1, BufferOf
<1>5. \A a : PackedAt(h, image, a) =
        {i \in 1 .. h.n : /\ Inside(h.soi, s(i).ptr, s(i).raw) /\ Inside(size, s(i).va, s(i).raw)
                          /\ a >= s(i).ptr /\ a < s(i).ptr + s(i).raw}
  BY DEF PackedAt
<1> HIDE DEF s, size
<1>6. \A i \in 1 .. h.n : Inside(h.soi, s(i).ptr, s(i).raw) /\ Inside(size, s(i).va, s(i).raw)
  BY <1>1, <1>2, <1>3 DEF Inside
<1>7. \A a : PackedAt(h, image, a) = {i \in 1 .. h.n : a >= s(i).va /\ a < s(i).va + s(i).raw}
  BY <1>2, <1>5, <1>6
<1>8. f[0] = <<"header", h>>
  <2>1. ASSUME NEW i \in PackedAt(h, image, 0) PROVE FALSE
    <3>1. i \in 1 .. h.n /\ 0 >= s(i).va
      BY <1>7
    <3> QED BY <1>1, <1>2, <3>1
  <2>2. PackedAt(h, image, 0) = {}
    BY <2>1
  <2>3. 1 \in 1 .. h.n
    BY <1>1, <1>2
  <2>4. h.soh <= size
    BY <1>1, <1>2, <1>3, <2>3
  <2>5. 0 \in 0 .. h.soi - 1
    BY <1>1, <1>2
  <2>6. f[0] = image[0]
    BY <1>1, <1>2, <2>2, <2>4, <2>5 DEF FileOf, size
  <2> QED BY <1>2, <2>4, <2>6 DEF HeaderThere, size
<1>9. ASSUME NEW i \in 1 .. h.n, NEW a \in s(i).va .. s(i).va + s(i).raw - 1
      PROVE  a \in DOMAIN f /\ f[a] = image[a]
  <2>1. /\ a \in Nat /\ a >= s(i).va /\ a < s(i).va + s(i).raw
        /\ a \in 0 .. h.soi - 1
    <3>1. /\ s(i).va \in Nat /\ s(i).vs \in Nat /\ s(i).raw \in Nat /\ s(i).vs <= s(i).raw
          /\ s(i).va + s(i).raw <= h.soi
      BY <1>1, <1>2
    <3>2. h.soi \in Nat /\ a \in s(i).va .. s(i).va + s(i).raw - 1
      BY <1>1, <1>9
    <3> QED BY <3>1, <3>2
  <2>2. ASSUME NEW j \in PackedAt(h, image, a) PROVE j = i
    <3>1. j \in 1 .. h.n /\ a >= s(j).va /\ a < s(j).va + s(j).raw
      BY <1>7
    <3>2. Ordered(h)
      BY DEF AsInImage, Ordered
    <3> QED BY <1>1, <1>2, <2>1, <3>1, <3>2, OnlyOne DEF s
  <2>3. PackedAt(h, image, a) = {i}
    <3>1. i \in PackedAt(h, image, a)
      BY <1>7, <2>1
    <3> QED BY <2>2, <3>1
  <2>4. Highest(PackedAt(h, image, a)) = i
    BY <2>3 DEF Highest
  <2>5. f[a] = image[s(i).va + a - s(i).ptr]
    BY <2>1, <2>3, <2>4 DEF FileOf, s
  <2>6. s(i).va + a - s(i).ptr = a
    BY <1>1, <1>2, <2>1
  <2> QED BY <1>4, <2>1, <2>5, <2>6
<1> QED BY <1>4, <1>8, <1>9 DEF s

-----------------------------------------------------------------------------
(* The file is loaded again.                                               *)

\* The file that was written last is known by its header and the image.
LEMMA KnownFile ==
  ASSUME FileInv, Known, NEW h, h = dumped.hdr
  PROVE  /\ h \in Header /\ Len(h.secs) = h.n /\ h.n <= MaxSections
         /\ AsInImage(h, Size(dumped.image))
         /\ DOMAIN file = 0 .. h.soi - 1 /\ Size(file) = h.soi /\ file[0] = <<"header", h>>
         /\ \A i \in 1 .. h.n : LET s == h.secs[i] IN
               \A a \in s.va .. s.va + s.raw - 1 : a \in DOMAIN file /\ file[a] = dumped.image[a]
<1>1. /\ h \in Header /\ Len(h.secs) = h.n /\ h.n <= MaxSections /\ Buffer(dumped.image)
      /\ Chain(h, h.n + 1, h.soi) /\ HeaderThere(h, dumped.image)
      /\ file = FileOf(h, dumped.image) /\ Tidy(h, Size(dumped.image))
  BY DEF FileInv, Known
<1>2. Size(dumped.image) \in Nat
  BY <1>1, SizeNat
<1>3. AsInImage(h, Size(dumped.image))
  BY <1>1, <1>2, TidyIsAsInImage
<1>4. /\ DOMAIN file = 0 .. h.soi - 1 /\ Size(file) = h.soi /\ file[0] = <<"header", h>>
      /\ \A i \in 1 .. h.n : LET s == h.secs[i] IN
            \A a \in s.va .. s.va + s.raw - 1 : a \in DOMAIN file /\ file[a] = dumped.image[a]
  BY <1>1, <1>3, FileHas
<1> QED BY <1>1, <1>3, <1>4

\* The header of the file is read as it was written.
LEMMA RereadHeader ==
  ASSUME ImageInv, Again, pe.stream = "file", ReadHeader, pc' = "sections"
  PROVE  pe'.hdr = file[0][2] /\ Size(pe'.raw) = Size(file) /\ pe'.stream = "file"
<1>1. IsPE(RawCells) /\ pe' = [pe EXCEPT !.raw = RawCells, !.hdr = RawCells[0][2],
                                         !.bits = RawCells[0][2].bits]
  BY DEF ReadHeader
<1>2. pe'.hdr = RawCells[0][2] /\ pe'.raw = RawCells /\ pe'.stream = "file"
  BY <1>1 DEF ImageInv, HeaderOK, NewPe
<1>3. FileCells = file
  BY DEF Again, FileCells
<1>4. BlockSize = Size(file)
  BY <1>3 DEF BlockSize
<1>5. Buffer(file) /\ Size(file) \in Nat
  BY SizeNat DEF ImageInv, BuffersOK
<1>6. DOMAIN RawCells = 0 .. Size(file) - 1
  BY <1>4 DEF RawCells
<1>7. Size(RawCells) = Size(file)
  BY <1>5, <1>6, BufferOf
<1>8. 0 \in 0 .. Size(file) - 1
  <2>1. Size(file) >= MinHeader
    BY <1>1, <1>7 DEF IsPE
  <2> QED BY <1>5, <2>1, ImageAssumption
<1>9. RawCells[0] = file[0]
  <2>1. StreamCell(0, Gap) = file[0]
    BY <1>3, <1>5, <1>8 DEF StreamCell, Accessible, InFile, Buffer
  <2> QED BY <1>4, <1>8, <2>1 DEF RawCells
<1> QED BY <1>2, <1>7, <1>9

\* A multiple of a number that is not 0 times it is no less than the number.
LEMMA AtLeastOnce ==
  ASSUME NEW n \in Nat, n > 0, NEW d \in Nat
  PROVE  n * d \in Nat /\ d <= n * d
<1>1. n - 1 \in Nat /\ (n - 1) * d \in Nat /\ n * d = (n - 1) * d + d
  OBVIOUS
<1> QED BY <1>1

\* A header that has as many sections as it says, all of which are read, is kept.
LEMMA SectionsKept ==
  ASSUME ImageInv, NEW h \in Header, h = pe.hdr, Len(h.secs) = h.n, h.n <= MaxSections,
         h.n > 0, Inside(Size(pe.raw), SectionsAt, h.n * SectionCells), ParseSections
  PROVE  /\ pc = "sections" /\ pc' = "load" /\ UNCHANGED <<given, done>>
         /\ pe'.hdr = h /\ pe'.stream = pe.stream /\ pe'.bits = pe.bits /\ pe'.base = pe.base
         /\ pe'.epHash = pe.epHash
<1>1. h.n \in Nat /\ h.secs \in Seq(SectionHeader) /\ Size(pe.raw) \in Nat
  BY SizeNat DEF Header, ImageInv, BuffersOK
<1>2. Least(pe.hdr.n, MaxSections) = h.n
  BY <1>1, ImageAssumption DEF Least
<1>3. Inside(Size(pe.raw), SectionsAt, SectionCells)
  <2> DEFINE cells == h.n * SectionCells
  <2>1. SectionCells \in Nat /\ SectionsAt \in Nat
    BY ImageAssumption
  <2>2. cells \in Nat /\ SectionCells <= cells
    BY <1>1, <2>1, AtLeastOnce
  <2>3. Inside(Size(pe.raw), SectionsAt, cells)
    OBVIOUS
  <2> HIDE DEF cells
  <2> QED BY <1>1, <2>1, <2>2, <2>3 DEF Inside
<1>4. pc = "sections" /\ CountSections /\ UNCHANGED <<given, done>>
  BY DEF ParseSections, CountSections32, CountSections64
<1>5. /\ pc' = "load"
      /\ pe' = [pe EXCEPT !.sections = TRUE,
                !.hdr = [[h EXCEPT !.n = h.n] EXCEPT !.secs = Sections([h EXCEPT !.n = h.n])]]
  BY <1>2, <1>3, <1>4 DEF CountSections
<1>6. [h EXCEPT !.n = h.n] = h
  BY DEF Header
<1>7. Sections(h) = h.secs
  <2>1. DOMAIN h.secs = 1 .. h.n
    BY <1>1
  <2>2. Sections(h) = [i \in 1 .. h.n |-> h.secs[i]]
    BY <2>1 DEF Sections
  <2> QED BY <1>1, <2>1, <2>2
<1>8. [h EXCEPT !.secs = h.secs] = h
  BY DEF Header
<1>9. pe' = [pe EXCEPT !.sections = TRUE, !.hdr = h]
  BY <1>5, <1>6, <1>7, <1>8
<1>10. /\ pe'.hdr = h /\ pe'.stream = pe.stream /\ pe'.bits = pe.bits /\ pe'.base = pe.base
       /\ pe'.epHash = pe.epHash
  BY <1>9 DEF ImageInv, HeaderOK, NewPe
<1> QED BY <1>4, <1>5, <1>10

\* So is that of a file that is loaded again.
LEMMA RecountSections ==
  ASSUME ImageInv, FileInv, Known, Tidy(dumped.hdr, Size(dumped.image)),
         pe.hdr = file[0][2], Size(pe.raw) = Size(file), ParseSections, pc' = "load"
  PROVE  pe'.hdr = dumped.hdr
<1> DEFINE h == dumped.hdr
<1>1. /\ h \in Header /\ Len(h.secs) = h.n /\ h.n <= MaxSections
      /\ AsInImage(h, Size(dumped.image)) /\ Size(file) = h.soi /\ file[0] = <<"header", h>>
  BY KnownFile
<1>2. pe.hdr = h /\ Size(pe.raw) = h.soi
  BY <1>1
<1>3. h.n \in Nat /\ h.soh \in Nat /\ h.soi \in Nat
  BY <1>1, FieldsAre
<1>4. Inside(h.soi, SectionsAt, h.n * SectionCells) /\ h.n > 0
  <2>1. SectionsAt + h.n * SectionCells <= h.soh /\ h.soh <= h.soi /\ h.n > 0
    BY <1>1 DEF Tidy, AsInImage
  <2>2. SectionsAt + h.n * SectionCells \in Int /\ SectionsAt \in Nat
    BY <1>3, ImageAssumption
  <2> QED BY <1>3, <2>1, <2>2 DEF Inside
<1> HIDE DEF h
<1>5. pe'.hdr = h
  BY <1>1, <1>2, <1>4, SectionsKept
<1> QED BY <1>5 DEF h

\* Where an image ends whose last section ends in it, for an end that is cut at the maximum.
LEMMA CutEnd ==
  ASSUME NEW va \in Nat, NEW vs \in Nat, NEW soi \in Nat, soi < DW, va + vs <= soi,
         NEW end, end = IF vs <= MaxSection THEN (va + vs) % DW
                        ELSE IF va < soi /\ soi < (va + MaxSection) % DW THEN soi
                        ELSE (va + MaxSection) % DW
  PROVE  end \in Nat /\ end <= soi
<1>1. CASE vs <= MaxSection
  <2>1. va + vs \in Nat /\ va + vs < DW
    BY ImageAssumption
  <2>2. (va + vs) % DW = va + vs
    BY <2>1, WrapsNat
  <2> QED BY <1>1, <2>1, <2>2
<1>2. CASE ~(vs <= MaxSection)
  <2>1. va + MaxSection \in Nat /\ va + MaxSection <= soi /\ va + MaxSection < DW
    BY <1>2, ImageAssumption
  <2>2. (va + MaxSection) % DW = va + MaxSection
    BY <2>1, WrapsNat
  <2> QED BY <1>2, <2>1, <2>2
<1> QED BY <1>1, <1>2

\* The size of an image whose last section ends in it.
LEMMA SizeIs ==
  ASSUME NEW h \in Header, pe.hdr = h, Len(h.secs) = h.n, h.n > 0, h.soi <= SizeLimit(h.n),
         h.secs[h.n].va + h.secs[h.n].vs <= h.soi
  PROVE  ImageSize = h.soi
<1> DEFINE last == h.secs[h.n]
<1>1. h.n \in Nat /\ h.n > 0 /\ h.soi \in Nat /\ h.soi < DW /\ h.soi <= SizeLimit(h.n)
  BY FieldsAre
<1>2. last.va \in Nat /\ last.vs \in Nat /\ last.raw \in Nat
  BY <1>1, FieldsAre
<1>3. last.va + last.vs <= h.soi
  OBVIOUS
<1>4. SizeLimit(h.n) \in Int
  <2>1. MaxSection * (pe.hdr.n + 1) \in Int
    BY <1>1, ImageAssumption
  <2> QED BY <2>1, WrapsNat DEF SizeLimit
<1>5. EndOfSections \in Nat /\ EndOfSections <= h.soi
  <2>1. EndOfSections = IF last.vs <= MaxSection THEN (last.va + last.vs) % DW
                        ELSE IF last.va < h.soi /\ h.soi < (last.va + MaxSection) % DW
                             THEN h.soi
                        ELSE (last.va + MaxSection) % DW
    <3>1. h.n # 0
      BY <1>1
    <3> QED BY <3>1, Zenon DEF EndOfSections
  <2> DEFINE va == last.va
             vs == last.vs
             soi == h.soi
             end == EndOfSections
  <2>2. va \in Nat /\ vs \in Nat /\ soi \in Nat /\ soi < DW /\ va + vs <= soi
    BY <1>1, <1>2, <1>3
  <2>3. end = IF vs <= MaxSection THEN (va + vs) % DW
              ELSE IF va < soi /\ soi < (va + MaxSection) % DW THEN soi
              ELSE (va + MaxSection) % DW
    BY <2>1, Zenon
  <2> HIDE DEF va, vs, soi, end
  <2>4. end \in Nat /\ end <= soi
    BY <2>2, <2>3, CutEnd
  <2> QED BY <2>4 DEF soi, end
<1>6. Larger(EndOfSections, h.soi) = h.soi
  BY <1>1, <1>5 DEF Larger
<1> QED BY <1>1, <1>4, <1>6 DEF ImageSize, Least

\* The image has the size of the file, ...
LEMMA ReloadedSize ==
  ASSUME FileInv, Known, pe.hdr = dumped.hdr
  PROVE  ImageSize = pe.hdr.soi
<1> DEFINE h == pe.hdr
           last == h.secs[h.n]
<1>1. h \in Header /\ Len(h.secs) = h.n /\ AsInImage(h, Size(dumped.image))
  BY KnownFile
<1>2. h.n \in Nat /\ h.n > 0 /\ h.soi \in Nat /\ h.soi <= SizeLimit(h.n)
  BY <1>1, FieldsAre DEF AsInImage
<1>3. last.va \in Nat /\ last.vs \in Nat /\ last.raw \in Nat
  BY <1>1, <1>2, FieldsAre
<1>4. last.va + last.vs <= h.soi
  <2>1. last.va + last.raw <= h.soi /\ last.vs <= last.raw
    BY <1>1, <1>2 DEF AsInImage
  <2> QED BY <1>2, <1>3, <2>1
<1> QED BY <1>1, <1>2, <1>4, SizeIs

\* ... and every section what the file holds of it.
LEMMA ReloadSections ==
  ASSUME ImageInv, FileInv, Known, Again, pe.stream = "file", pe.hdr = dumped.hdr, LoadSections
  PROVE  \A i \in 1 .. pe.hdr.n : LET s == pe.hdr.secs[i] IN
            \A a \in s.va .. s.va + s.raw - 1 : a \in DOMAIN pe'.image /\ pe'.image[a] = dumped.image[a]
<1> SUFFICES ASSUME NEW i \in 1 .. pe.hdr.n,
                    NEW a \in pe.hdr.secs[i].va .. pe.hdr.secs[i].va + pe.hdr.secs[i].raw - 1
             PROVE  a \in DOMAIN pe'.image /\ pe'.image[a] = dumped.image[a]
  OBVIOUS
<1> DEFINE h == pe.hdr
           s(j) == h.secs[j]
<1>1. /\ h \in Header /\ Len(h.secs) = h.n /\ AsInImage(h, Size(dumped.image))
      /\ DOMAIN file = 0 .. h.soi - 1 /\ a \in DOMAIN file /\ file[a] = dumped.image[a]
  BY KnownFile
<1>2. FileCells = file
  BY DEF Again, FileCells
<1>3. pe'.image = FileImage(h.soi)
  <2>1. LoadImage
    BY DEF LoadSections, LoadImage32, LoadImage64
  <2>2. pe' = [pe EXCEPT !.image = FileImage(h.soi)]
    BY <2>1, ReloadedSize DEF LoadImage
  <2> QED BY <2>2 DEF ImageInv, HeaderOK, NewPe
<1>4. /\ h.n \in Nat /\ h.soi \in Nat
      /\ \A j \in 1 .. h.n : /\ s(j).va \in Nat /\ s(j).vs \in Nat /\ s(j).raw \in Nat
                             /\ s(j).ptr = s(j).va /\ s(j).vs <= s(j).raw
                             /\ Inside(h.soi, s(j).va, s(j).raw)
  <2>1. /\ h.n \in Nat /\ h.soi \in Nat
        /\ \A j \in 1 .. h.n : s(j).va \in Nat /\ s(j).vs \in Nat /\ s(j).raw \in Nat
    BY <1>1, FieldsAre
  <2>2. \A j \in 1 .. h.n : /\ s(j).ptr = s(j).va /\ s(j).vs <= s(j).raw
                            /\ s(j).va + s(j).raw <= h.soi
    BY <1>1 DEF AsInImage
  <2> QED BY <2>1, <2>2 DEF Inside
<1>5. /\ a \in Int /\ a >= s(i).va /\ a < s(i).va + s(i).raw /\ s(i).ptr + a - s(i).va = a
  <2>1. /\ s(i).va \in Nat /\ s(i).vs \in Nat /\ s(i).raw \in Nat
        /\ s(i).ptr = s(i).va /\ s(i).vs <= s(i).raw
    BY <1>4
  <2>2. a \in s(i).va .. s(i).va + s(i).raw - 1
    OBVIOUS
  <2> HIDE DEF s
  <2> QED BY <2>1, <2>2
<1>6. i \in Holding(a, h.soi)
  BY <1>1, <1>2, <1>4, <1>5 DEF Holding, InFile
<1>7. ASSUME NEW j \in Holding(a, h.soi) PROVE j = i
  <2>1. j \in 1 .. h.n /\ a >= s(j).va /\ a < s(j).va + s(j).raw
    BY DEF Holding
  <2>2. Ordered(h)
    BY <1>1 DEF AsInImage, Ordered
  <2> QED BY <1>1, <1>5, <2>1, <2>2, OnlyOne
<1>8. Holding(a, h.soi) = {i}
  BY <1>6, <1>7
<1>9. Highest(Holding(a, h.soi)) = i
  BY <1>8 DEF Highest
<1>10. FileImage(h.soi)[a] = file[s(i).ptr + a - s(i).va]
  BY <1>1, <1>2, <1>8, <1>9 DEF FileImage
<1>11. DOMAIN FileImage(h.soi) = 0 .. h.soi - 1
  BY DEF FileImage
<1> QED BY <1>1, <1>3, <1>5, <1>10, <1>11

\* A step of the way back.
LEMMA ReloadStep == ASSUME ImageInv, FileInv, ReloadInv, [Next]_vars PROVE ReloadInv'
<1> SUFFICES ASSUME Again'
             PROVE  /\ pc' \in {"ready", "open", "header", "sections", "load", "hash", "close"}
                    /\ pc' \in {"header", "sections", "load", "hash"} => pe'.stream = "file"
                    /\ pc' = "sections" => pe'.hdr = file'[0][2] /\ Size(pe'.raw) = Size(file')
                    /\ Known' /\ pc' \in {"load", "hash"} => pe'.hdr = dumped'.hdr
                    /\ Known' /\ pc' = "hash" => SameSections(pe.hdr, dumped.image)'
  BY DEF ReloadInv, Size
<1>1. CASE StartJob
  BY <1>1 DEF StartJob
<1>2. CASE UNCHANGED vars
  <2>1. UNCHANGED <<pc, pe, job, file, dumped>>
    BY <1>2 DEF vars, given, done
  <2>2. Again /\ Known' = Known /\ SameSections(pe.hdr, dumped.image)' = SameSections(pe.hdr, dumped.image)
    BY <2>1 DEF Again, Known, SameSections
  <2> QED BY <2>1, <2>2 DEF ReloadInv, Size
<1>3. CASE Next /\ ~StartJob /\ ~Stop
  <2>1. Again
    <3>1. OpenFile \/ OpenAddress \/ OpenHandle \/ ReadHeader \/ BuildHeader => UNCHANGED job
      BY DEF OpenFile, OpenAddress, OpenHandle, ReadHeader, BuildHeader, given
    <3>2. BuildSection \/ EndBuild \/ ParseSections \/ LoadSections \/ ImportDirectory
          => UNCHANGED job
      BY DEF BuildSection, EndBuild, ParseSections, LoadSections, ImportDirectory, given
    <3>3. ExportDirectory \/ TakeHash \/ CountImports \/ EntryPoint \/ RebuildImports
          => UNCHANGED job
      BY DEF ExportDirectory, TakeHash, CountImports, EntryPoint, RebuildImports, given
    <3>4. AddLibrary \/ EndTable \/ LayOutHeaders \/ PlaceSection \/ EndLayout \/ CopyHeader
          \/ PackSections \/ WriteImage \/ Close \/ Crash => UNCHANGED job
      BY DEF AddLibrary, EndTable, LayOutHeaders, PlaceSection, EndLayout, CopyHeader,
             PackSections, WriteImage, Close, Crash, given
    <3> QED BY <1>3, <3>1, <3>2, <3>3, <3>4 DEF Next, Again
  <2>2. pc \in {"ready", "open", "header", "sections", "load", "hash", "close"}
    BY <2>1 DEF ReloadInv
  <2>3. OpenFile \/ ReadHeader \/ ParseSections \/ LoadSections \/ TakeHash \/ Close
    <3>1. ~(BuildHeader \/ BuildSection \/ EndBuild \/ ImportDirectory \/ ExportDirectory)
      BY <2>2 DEF BuildHeader, BuildSection, EndBuild, ImportDirectory, ExportDirectory
    <3>2. ~(CountImports \/ EntryPoint \/ RebuildImports \/ LayOutHeaders \/ PlaceSection)
      BY <2>2 DEF CountImports, EntryPoint, RebuildImports, LayOutHeaders, PlaceSection
    <3>3. ~(AddLibrary \/ EndTable \/ EndLayout \/ CopyHeader \/ PackSections \/ WriteImage \/ Crash)
      BY <2>2 DEF AddLibrary, EndTable, EndLayout, CopyHeader, PackSections, WriteImage, Crash
    <3>4. ~(OpenAddress \/ OpenHandle)
      BY <2>1 DEF OpenAddress, OpenHandle, Again
    <3> QED BY <1>3, <3>1, <3>2, <3>3, <3>4 DEF Next
  <2>4. UNCHANGED <<file, dumped>>
    BY <2>3 DEF OpenFile, ReadHeader, ParseSections, LoadSections, TakeHash, Close, done
  <2>5. Known' = Known
    BY <2>4 DEF Known
  <2>6. CASE OpenFile
    BY <2>6 DEF OpenFile, NewPe
  <2>7. CASE ReadHeader
    <3>1. pc = "header" /\ pc' \in {"close", "sections"}
      BY <2>1, <2>7 DEF ReadHeader, Again
    <3>2. pe.stream = "file"
      BY <2>1, <3>1 DEF ReloadInv
    <3>3. pc' = "sections" => /\ pe'.hdr = file[0][2] /\ Size(pe'.raw) = Size(file)
                              /\ pe'.stream = "file"
      BY <2>1, <2>7, <3>2, RereadHeader
    <3> QED BY <2>4, <3>1, <3>3 DEF Size
  <2>8. CASE ParseSections
    <3>1. pc = "sections" /\ pc' \in {"close", "load"} /\ pe'.stream = pe.stream
      <4>1. pc = "sections" /\ CountSections
        BY <2>8 DEF ParseSections, CountSections32, CountSections64
      <4>2. pc' \in {"close", "load"} /\ \E h : \/ pe' = [pe EXCEPT !.sections = TRUE, !.hdr = h]
                                              \/ pe' = [pe EXCEPT !.hdr.n = h]
        BY <4>1, Zenon DEF CountSections
      <4> QED BY <4>1, <4>2 DEF ImageInv, HeaderOK, NewPe
    <3>2. pe.stream = "file" /\ pe.hdr = file[0][2] /\ Size(pe.raw) = Size(file)
      BY <2>1, <3>1 DEF ReloadInv
    <3>3. Known /\ pc' = "load" => pe'.hdr = dumped.hdr
      BY <2>8, <3>2, RecountSections DEF Known
    <3> QED BY <2>4, <2>5, <3>1, <3>2, <3>3
  <2>9. CASE LoadSections
    <3>1. pc = "load" /\ pc' = "hash" /\ pe'.stream = pe.stream /\ pe'.hdr = pe.hdr
      <4>1. pc' = "hash"
        BY <2>1, <2>9 DEF LoadSections, Again
      <4> QED BY <2>9, <4>1 DEF LoadSections, LoadImage32, LoadImage64, LoadImage, ImageInv,
                                HeaderOK, NewPe
    <3>2. pe.stream = "file" /\ (Known => pe.hdr = dumped.hdr)
      BY <2>1, <3>1 DEF ReloadInv
    <3>3. Known => SameSections(pe.hdr, dumped.image)'
      <4> SUFFICES ASSUME Known PROVE SameSections(pe.hdr, dumped.image)'
        OBVIOUS
      <4>1. \A i \in 1 .. pe.hdr.n : LET s == pe.hdr.secs[i] IN
               \A a \in s.va .. s.va + s.raw - 1 :
                  a \in DOMAIN pe'.image /\ pe'.image[a] = dumped.image[a]
        BY <2>1, <2>9, <3>2, ReloadSections
      <4> QED BY <2>4, <3>1, <4>1 DEF SameSections
    <3> QED BY <2>4, <2>5, <3>1, <3>2, <3>3
  <2>10. CASE TakeHash
    BY <2>1, <2>10 DEF TakeHash, Again
  <2>11. CASE Close
    BY <2>11 DEF Close
  <2> QED BY <2>3, <2>6, <2>7, <2>8, <2>9, <2>10, <2>11
<1> QED BY <1>1, <1>2, <1>3 DEF Stop

\* Whatever has happened to an image before it was dumped, if its header is tidy then what
\* is loaded from the file is the image that was dumped (RoundTrip).
THEOREM LoadedAsDumped == Spec => []RoundTrip
<1> DEFINE Inv == ImageInv /\ LayoutInv /\ ChainInv /\ FileInv /\ ReloadInv
<1>1. Init => Inv
  <2> SUFFICES ASSUME Init PROVE Inv
    OBVIOUS
  <2>1. LayoutInv /\ ChainInv
    BY DEF Init, LayoutInv, ChainInv
  <2>2. FileInv
    BY DEF Init, FileInv, NoDump
  <2>3. ReloadInv
    <3>1. job.from = "none"
      BY DEF Init
    <3> QED BY <3>1 DEF ReloadInv, Again
  <2> QED BY <2>1, <2>2, <2>3, ImageBegins
<1>2. Inv /\ [Next]_vars => Inv'
  BY ImageStep, LayoutStep, ChainStep, FileStep, ReloadStep
<1>3. Inv => RoundTrip
  <2> SUFFICES ASSUME Inv, Reloaded
               PROVE  pe.hdr = dumped.hdr /\ SameSections(pe.hdr, dumped.image)
    BY DEF RoundTrip, SameSections
  <2> QED BY DEF Reloaded, ReloadInv, Again, Known
<1> HIDE DEF Inv
<1> QED BY <1>1, <1>2, <1>3, PTL DEF Spec

-----------------------------------------------------------------------------
(* A module that the loader has put into memory has one hash.              *)

\* Such a module.
LEMMA LinkedIs ==
  ASSUME NEW m \in Modules, LoadedAsLinked(m), NEW h, h = Origin(m)
  PROVE  /\ h \in Header /\ Len(h.secs) = h.n /\ h.n <= MaxSections
         /\ Tidy(h, h.soi) /\ h.soi = EndOfLast(h) /\ h.soh <= Size(m.file)
         /\ \A i \in 1 .. h.n : h.secs[i].ptr + h.secs[i].raw <= Size(m.file)
         /\ \A a \in 0 .. h.soi - 1 : m.base + a \in DOMAIN m.memory /\ InMemory(m, a) # Gap
         /\ m.end[m.base] - m.base \in Larger(h.soh, MinHeader) .. h.soi
         /\ [InMemory(m, 0)[2] EXCEPT !.base = h.base] = h
         /\ \A i \in 0 .. h.soi - 1 : EntryInside(m, i) =>
               (EntryZero(m, i) = (\A a \in EntryCells(m, i) : InFileOf(m, a) = Zero))
         /\ h.ep \in 1 .. h.soi - 1 => InMemory(m, h.ep) = InFileOf(m, h.ep)
<1>1. h \in Header
  BY DEF LoadedAsLinked, IsPE, Origin
<1>2. /\ Len(h.secs) = h.n /\ h.n <= MaxSections
      /\ Tidy(h, h.soi) /\ h.soi = EndOfLast(h) /\ h.soh <= Size(m.file)
      /\ \A i \in 1 .. h.n : h.secs[i].ptr + h.secs[i].raw <= Size(m.file)
  BY Zenon DEF LoadedAsLinked, Origin, EndOfLast
<1>3. /\ \A a \in 0 .. h.soi - 1 : m.base + a \in DOMAIN m.memory /\ InMemory(m, a) # Gap
      /\ m.end[m.base] - m.base \in Larger(h.soh, MinHeader) .. h.soi
      /\ [InMemory(m, 0)[2] EXCEPT !.base = h.base] = h
      /\ h.ep \in 1 .. h.soi - 1 => InMemory(m, h.ep) = InFileOf(m, h.ep)
  BY Zenon DEF LoadedAsLinked, Origin, InMemory, InFileOf
<1>4. \A i \in 0 .. h.soi - 1 : EntryInside(m, i) =>
         (EntryZero(m, i) = (\A a \in EntryCells(m, i) : InFileOf(m, a) = Zero))
  BY Zenon DEF LoadedAsLinked, Origin, InMemory, InFileOf, EntryInside, EntryZero, EntryCells,
               EntryWidth
<1> QED BY <1>1, <1>2, <1>3, <1>4

\* Its header.
LEMMA OriginIs ==
  ASSUME NEW m \in Modules, LoadedAsLinked(m), NEW h, h = Origin(m)
  PROVE  /\ h \in Header /\ Len(h.secs) = h.n /\ h.n \in Nat \ {0} /\ h.n <= MaxSections
         /\ h.soh \in Nat \ {0} /\ h.soi \in Nat /\ h.soi < DW /\ h.soh <= h.soi
         /\ h.soi <= SizeLimit(h.n)
         /\ h.iat \in Nat /\ h.ep \in Nat /\ SectionsAt + h.n * SectionCells <= h.soh /\ Ordered(h)
         /\ \A i \in 1 .. h.n : /\ h.secs[i].va \in Nat /\ h.secs[i].vs \in Nat
                                /\ h.secs[i].raw \in Nat /\ h.secs[i].ptr \in Nat
                                /\ h.secs[i].va + h.secs[i].raw <= h.soi
         /\ h.secs[h.n].va + h.secs[h.n].vs <= h.soi
<1>1. /\ h \in Header /\ Len(h.secs) = h.n /\ h.n <= MaxSections
      /\ Tidy(h, h.soi) /\ h.soi = EndOfLast(h)
  BY LinkedIs
<1>2. /\ h.soi \in Nat /\ h.soi < DW /\ h.sa \in Nat
      /\ \A i \in 1 .. h.n : /\ h.secs[i].va \in Nat /\ h.secs[i].vs \in Nat
                             /\ h.secs[i].raw \in Nat /\ h.secs[i].ptr \in Nat
  BY <1>1, FieldsAre
<1>3. /\ h.n \in Nat \ {0} /\ h.soh \in Nat \ {0} /\ h.soi <= SizeLimit(h.n)
      /\ SectionsAt + h.n * SectionCells <= h.soh /\ Ordered(h)
      /\ \A i \in 1 .. h.n : h.secs[i].va + h.secs[i].raw <= h.soi
  BY <1>1, <1>2, TidyOrder
<1>4. h.n \in 1 .. h.n /\ 1 \in 1 .. h.n
  BY <1>3
<1>5. h.soh <= h.soi
  <2>1. h.soh <= h.secs[1].va
    BY <1>3, <1>4 DEF Ordered
  <2>2. h.secs[1].va + h.secs[1].raw <= h.soi /\ h.secs[1].va \in Nat /\ h.secs[1].raw \in Nat
    BY <1>2, <1>3, <1>4
  <2> QED BY <1>2, <1>3, <2>1, <2>2
<1>6. h.secs[h.n].va + h.secs[h.n].vs <= h.soi
  <2> DEFINE end == h.secs[h.n].va + h.secs[h.n].vs
  <2>1. end \in Nat
    BY <1>2, <1>4
  <2>2. h.soi = Align(end, h.sa)
    BY <1>1 DEF EndOfLast
  <2> HIDE DEF end
  <2>3. end <= h.soi
    BY <1>2, <2>1, <2>2, AlignUp
  <2> QED BY <2>3 DEF end
<1>7. h.iat \in Nat /\ h.ep \in Nat
  BY <1>1, ImageAssumption DEF Header, DWord
<1> QED BY <1>1, <1>2, <1>3, <1>5, <1>6, <1>7

\* A header that agrees with it but for the base.
LEMMA HeaderAgrees ==
  ASSUME Origin(module) \in Header, pe.hdr \in Header, SameHeader, NEW h, h = Origin(module)
  PROVE  /\ pe.hdr.bits = h.bits /\ pe.hdr.n = h.n /\ pe.hdr.soh = h.soh /\ pe.hdr.soi = h.soi
         /\ pe.hdr.ep = h.ep /\ pe.hdr.imp = h.imp /\ pe.hdr.iat = h.iat /\ pe.hdr.secs = h.secs
BY DEF SameHeader, Header

\* The cells of its file ...
LEMMA FileIsLinked ==
  ASSUME ImageInv, LoadedAsLinked(module), Taken, SameHeader, pe.hdr \in Header,
         pe.stream = "file", NEW a \in 0 .. Origin(module).soi - 1
  PROVE  FileImage(Origin(module).soi)[a] = InFileOf(module, a)
<1> DEFINE h == Origin(module)
           f == module.file
           s(i) == h.secs[i]
           in == {i \in 1 .. h.n : a \in s(i).va .. s(i).va + s(i).raw - 1}
<1>1. /\ h \in Header /\ Len(h.secs) = h.n /\ h.n \in Nat /\ Ordered(h)
      /\ h.soh \in Nat /\ h.soi \in Nat /\ h.soh <= h.soi
      /\ \A i \in 1 .. h.n : /\ s(i).va \in Nat /\ s(i).raw \in Nat /\ s(i).ptr \in Nat
                             /\ s(i).va + s(i).raw <= h.soi
  BY OriginIs DEF ImageInv, StreamOK
<1>2. /\ h.soh <= Size(f) /\ \A i \in 1 .. h.n : s(i).ptr + s(i).raw <= Size(f)
      /\ DOMAIN f = 0 .. Size(f) - 1 /\ Size(f) \in Nat
  <2>1. h.soh <= Size(f) /\ \A i \in 1 .. h.n : s(i).ptr + s(i).raw <= Size(f)
    BY LinkedIs DEF ImageInv, StreamOK
  <2>2. Buffer(f)
    BY ImageAssumption DEF ImageInv, StreamOK
  <2> QED BY <2>1, <2>2, SizeNat DEF Buffer
<1>3. pe.hdr.n = h.n /\ pe.hdr.secs = h.secs /\ pe.hdr.soh = h.soh
  BY <1>1, HeaderAgrees
<1>4. FileCells = f
  BY DEF Taken, FileCells
<1>5. a \in Nat /\ a < h.soi
  BY <1>1
<1> HIDE DEF h, f
<1>6. Holding(a, h.soi) = in
  <2>1. ASSUME NEW i \in 1 .. h.n
        PROVE  (/\ Inside(h.soi, s(i).va, s(i).raw) /\ a >= s(i).va /\ a < s(i).va + s(i).raw
                /\ InFile(s(i).ptr + a - s(i).va))
               <=> a \in s(i).va .. s(i).va + s(i).raw - 1
    <3> DEFINE va == s(i).va
               raw == s(i).raw
               ptr == s(i).ptr
    <3>1. /\ va \in Nat /\ raw \in Nat /\ ptr \in Nat /\ va + raw <= h.soi /\ ptr + raw <= Size(f)
      BY <1>1, <1>2
    <3> HIDE DEF va, raw, ptr
    <3>2. Inside(h.soi, va, raw)
      BY <3>1 DEF Inside
    <3>3. (a >= va /\ a < va + raw) <=> a \in va .. va + raw - 1
      BY <1>5, <3>1
    <3>4. a >= va /\ a < va + raw => InFile(ptr + a - va)
      <4>1. a >= va /\ a < va + raw => ptr + a - va \in 0 .. Size(f) - 1
        BY <1>2, <1>5, <3>1
      <4> QED BY <1>2, <1>4, <4>1 DEF InFile
    <3> QED BY <3>2, <3>3, <3>4 DEF va, raw, ptr
  <2>2. Holding(a, h.soi) = {i \in 1 .. h.n :
            /\ Inside(h.soi, s(i).va, s(i).raw) /\ a >= s(i).va /\ a < s(i).va + s(i).raw
            /\ InFile(s(i).ptr + a - s(i).va)}
    BY <1>3 DEF Holding
  <2> HIDE DEF s
  <2> QED BY <2>1, <2>2
<1>7. FileImage(h.soi)[a] =
        IF Holding(a, h.soi) # {}
        THEN LET c == s(Highest(Holding(a, h.soi))) IN f[c.ptr + a - c.va]
        ELSE IF Inside(h.soi, 0, h.soh) /\ a < h.soh THEN StreamCell(a, Zero) ELSE Zero
  <2>1. a \in 0 .. h.soi - 1
    BY <1>1, <1>5
  <2> QED BY <1>3, <1>4, <2>1 DEF FileImage
<1>8. InFileOf(module, a) =
        IF in # {} THEN LET c == s(CHOOSE i \in in : TRUE) IN f[c.ptr + a - c.va]
        ELSE IF a < h.soh THEN f[a] ELSE Zero
  BY Zenon DEF InFileOf, Linked, h, f
<1>9. CASE in = {}
  <2>1. Inside(h.soi, 0, h.soh)
    BY <1>1 DEF Inside
  <2>2. a < h.soh => StreamCell(a, Zero) = f[a]
    <3>1. ASSUME a < h.soh PROVE a \in DOMAIN f
      BY <1>1, <1>2, <1>5, <3>1
    <3> QED BY <1>4, <3>1 DEF StreamCell, Accessible, InFile
  <2> HIDE DEF in, s
  <2>3. FileImage(h.soi)[a] = IF a < h.soh THEN StreamCell(a, Zero) ELSE Zero
    BY <1>6, <1>7, <1>9, <2>1, Zenon
  <2>4. InFileOf(module, a) = IF a < h.soh THEN f[a] ELSE Zero
    BY <1>8, <1>9, Zenon
  <2> QED BY <2>2, <2>3, <2>4, Zenon DEF h
<1>10. CASE in # {}
  <2>1. PICK i \in in : TRUE
    BY <1>10
  <2>2. i \in 1 .. h.n
    OBVIOUS
  <2>3. ASSUME NEW j \in in PROVE j = i
    <3>1. /\ j \in 1 .. h.n /\ a >= s(i).va /\ a < s(i).va + s(i).raw
          /\ a >= s(j).va /\ a < s(j).va + s(j).raw
      <4>1. j \in 1 .. h.n /\ a \in s(i).va .. s(i).va + s(i).raw - 1
            /\ a \in s(j).va .. s(j).va + s(j).raw - 1
        OBVIOUS
      <4>2. s(i).va \in Nat /\ s(i).raw \in Nat
        BY <1>1, <2>2
      <4>3. s(j).va \in Nat /\ s(j).raw \in Nat
        BY <1>1, <4>1
      <4> HIDE DEF s
      <4> QED BY <1>5, <4>1, <4>2, <4>3
    <3> QED BY <1>1, <1>5, <2>2, <3>1, OnlyOne DEF s
  <2>4. in = {i}
    BY <2>3
  <2> HIDE DEF in
  <2>5. Highest(in) = i /\ (CHOOSE j \in in : TRUE) = i
    <3>1. i \in Int
      BY <2>2
    <3> QED BY <2>4, <3>1 DEF Highest
  <2> HIDE DEF s
  <2>6. FileImage(h.soi)[a] = f[s(i).ptr + a - s(i).va]
    BY <1>6, <1>7, <1>10, <2>5, Zenon
  <2>7. InFileOf(module, a) = f[s(i).ptr + a - s(i).va]
    BY <1>8, <1>10, <2>5, Zenon
  <2> QED BY <2>6, <2>7, Zenon DEF h
<1> QED BY <1>9, <1>10 DEF h

\* ... and of its memory are those that are loaded.
LEMMA MemoryIsRead ==
  ASSUME ImageInv, LoadedAsLinked(module), pe.stream = "memory", pe.base = module.base,
         NEW a \in 0 .. Origin(module).soi - 1, NEW old
  PROVE  StreamCell(a, old) = InMemory(module, a)
<1>1. module.base + a \in DOMAIN module.memory /\ InMemory(module, a) # Gap
  BY LinkedIs DEF ImageInv, StreamOK
<1> QED BY <1>1 DEF StreamCell, Accessible, Readable, InMemory

\* Restoring the import addresses leaves those empty that are empty, and no other.
LEMMA RestoredZeros ==
  ASSUME Buffer(pe.image)
  PROVE  /\ DOMAIN Restored = DOMAIN pe.image
         /\ \A a \in DOMAIN pe.image : (Restored[a] = Zero) = (pe.image[a] = Zero)
<1>1. DOMAIN Restored = DOMAIN pe.image
  BY DEF Restored
<1>2. ASSUME NEW a \in DOMAIN pe.image
      PROVE  (Restored[a] = Zero) = (pe.image[a] = Zero)
  <2> DEFINE from == {q \in Descriptors \X DOMAIN pe.image :
                        LET d == pe.image[pe.hdr.imp + q[1]]
                        IN  q[2] \in Entries(d) /\ d[4] + q[2] = a}
             p == CHOOSE p \in from : \A q \in from : q[1] <= p[1]
             d == pe.image[pe.hdr.imp + p[1]]
  <2>1. Restored[a] = IF from = {} THEN pe.image[a] ELSE pe.image[d[2] + p[2]]
    BY DEF Restored
  <2>2. CASE from = {}
    <3> HIDE DEF from
    <3> QED BY <2>1, <2>2
  <2>3. CASE from # {}
    <3> DEFINE firsts == {q[1] : q \in from}
    <3>1. Size(pe.image) \in Nat
      BY SizeNat
    <3>2. \A q \in from : q[1] \in 0 .. Size(pe.image) /\ q[1] \in 0 .. Size(pe.image) - 1
      BY <3>1 DEF Descriptors
    <3>3. firsts \subseteq 0 .. Size(pe.image) /\ firsts # {}
      BY <2>3, <3>2
    <3>4. PICK q \in from : q[1] = Highest(firsts) /\ \A b \in firsts : Highest(firsts) >= b
      <4>1. Highest(firsts) \in firsts /\ \A b \in firsts : Highest(firsts) >= b
        <5> HIDE DEF firsts
        <5> QED BY <3>1, <3>3, HighestIn
      <4> QED BY <4>1
    <3>5. \A r \in from : r[1] <= q[1]
      <4> TAKE r \in from
      <4>1. r[1] \in firsts
        OBVIOUS
      <4>2. q[1] >= r[1]
        BY <3>4, <4>1
      <4>3. q[1] \in Int /\ r[1] \in Int
        BY <3>1, <3>2
      <4> HIDE DEF from
      <4> QED BY <4>2, <4>3
    <3>6. p \in from
      <4> HIDE DEF from
      <4> QED BY <3>5
    <3>7. p[2] \in Entries(d) /\ d[4] + p[2] = a
      <4> HIDE DEF p
      <4> QED BY <3>6
    <3> HIDE DEF p, d, from
    <3>8. p[2] \in 0 .. p[2] /\ pe.image[d[4] + p[2]] # Zero /\ pe.image[d[2] + p[2]] # Zero
      <4>1. p[2] \in 0 .. Size(pe.image) - 1
        BY <3>7 DEF Entries
      <4>2. p[2] \in 0 .. p[2]
        BY <3>1, <4>1
      <4> QED BY <3>7, <4>2, Zenon DEF Entries
    <3> QED BY <2>1, <2>3, <3>7, <3>8
  <2> QED BY <2>2, <2>3
<1> QED BY <1>1, <1>2

\* The entries of the import addresses as they are hashed.
LEMMA EntriesHashed ==
  ASSUME ImageInv, LoadedAsLinked(module), pe.hdr \in Header, SameHeader,
         pe.bits = pe.hdr.bits, SameEntries, NEW i \in Nat
  PROVE  /\ IatInside(i) <=> EntryInside(module, i)
         /\ IatInside(i) => i < Origin(module).soi /\ (IatZero(i) <=> EntryZero(module, i))
         /\ IatInside(i) /\ i > 0 => IatInside(i - 1)
<1> DEFINE h == Origin(module)
<1>1. h \in Header /\ h.iat \in Nat /\ h.soi \in Nat
  BY OriginIs DEF ImageInv, StreamOK
<1>2. pe.hdr.iat = h.iat /\ Width = EntryWidth(module) /\ Width \in {1, 2}
  <2>1. pe.hdr.iat = h.iat /\ pe.hdr.bits = h.bits
    BY <1>1, HeaderAgrees
  <2>2. pe.bits = pe.hdr.bits
    OBVIOUS
  <2> QED BY <2>1, <2>2 DEF Width, EntryWidth
<1>3. Size(pe.image) = h.soi
  BY <1>1, BufferOf DEF SameEntries
<1> DEFINE first == h.iat + i * Width
<1>4. first \in Nat /\ i <= first /\ (i > 0 => first - Width >= 0)
  BY <1>1, <1>2
<1>5. EntryCells(module, i) = {first + c : c \in 0 .. Width - 1}
  BY <1>2 DEF EntryCells
<1>6. IatInside(i) <=> first + Width <= h.soi
  BY <1>2, <1>3, <1>4 DEF IatInside, InImage, Inside
<1> HIDE DEF first
<1>7. EntryInside(module, i) <=> first + Width <= h.soi
  <2>1. EntryInside(module, i) <=> \A c \in 0 .. Width - 1 : first + c \in 0 .. h.soi - 1
    BY <1>5 DEF EntryInside
  <2> HIDE DEF h
  <2>2. CASE Width = 1
    <3>1. 0 .. Width - 1 = {0}
      BY <2>2
    <3> QED BY <1>1, <1>4, <2>1, <2>2, <3>1
  <2>3. CASE Width = 2
    <3>1. 0 .. Width - 1 = {0, 1}
      BY <2>3
    <3> QED BY <1>1, <1>4, <2>1, <2>3, <3>1
  <2> QED BY <1>2, <2>2, <2>3
<1>8. IatZero(i) <=> \A a \in EntryCells(module, i) : pe.image[a] = Zero
  BY <1>2, <1>5 DEF IatZero, first
<1>9. ASSUME IatInside(i)
      PROVE  i < h.soi /\ (IatZero(i) <=> EntryZero(module, i))
  <2>1. i < h.soi
    BY <1>1, <1>2, <1>4, <1>6, <1>9
  <2>2. i \in 0 .. h.soi - 1 /\ EntryInside(module, i)
    BY <1>1, <1>6, <1>7, <1>9, <2>1
  <2> QED BY <1>8, <2>1, <2>2 DEF SameEntries
<1>10. ASSUME IatInside(i), i > 0 PROVE IatInside(i - 1)
  <2>1. h.iat + (i - 1) * Width = first - Width /\ first - Width + Width = first
    BY <1>1, <1>2 DEF first
  <2>2. first - Width >= 0 /\ first <= h.soi
    BY <1>1, <1>2, <1>4, <1>6, <1>10
  <2> QED BY <1>2, <1>3, <2>1, <2>2 DEF IatInside, InImage, Inside
<1> QED BY <1>6, <1>7, <1>9, <1>10

\* The import addresses that are hashed end where those in memory do.
LEMMA EndsHashed ==
  ASSUME ImageInv, LoadedAsLinked(module), pe.hdr \in Header, SameHeader,
         pe.bits = pe.hdr.bits, SameEntries, NEW i \in 0 .. Origin(module).soi
  PROVE  IatEnds(i) <=> i \in EntryEnds(module)
<1>1. i \in Nat /\ (i > 0 => i - 1 \in Nat)
  BY OriginIs DEF ImageInv, StreamOK
<1>2. IatInside(i) <=> EntryInside(module, i)
  BY <1>1, EntriesHashed
<1>3. IatInside(i) => (IatZero(i) <=> EntryZero(module, i))
  BY <1>1, EntriesHashed
<1>4. IatInside(i) /\ i > 0 => (IatZero(i - 1) <=> EntryZero(module, i - 1))
  <2> SUFFICES ASSUME IatInside(i), i > 0 PROVE IatZero(i - 1) <=> EntryZero(module, i - 1)
    OBVIOUS
  <2>1. IatInside(i - 1)
    BY <1>1, EntriesHashed
  <2>2. i - 1 \in Nat
    BY <1>1
  <2> QED BY <2>1, <2>2, EntriesHashed
<1> QED BY <1>2, <1>3, <1>4 DEF IatEnds, EntryEnds

\* They end where those of the image in memory end.
LEMMA LengthHashed ==
  ASSUME ImageInv, LoadedAsLinked(module), pe.hdr \in Header, SameHeader,
         pe.bits = pe.hdr.bits, SameEntries, NEW n, n = Lowest(EntryEnds(module))
  PROVE  /\ IatLength = n /\ n \in 0 .. Origin(module).soi
         /\ \A i \in 0 .. n - 1 : i \in 0 .. Origin(module).soi /\ ~IatEnds(i)
<1> DEFINE soi == Origin(module).soi
           Ends == EntryEnds(module)
<1>1. soi \in Nat /\ Size(pe.image) = soi
  <2>1. soi \in Nat
    BY OriginIs DEF ImageInv, StreamOK
  <2> QED BY <2>1, BufferOf DEF SameEntries
<1>2. Ends \subseteq 0 .. soi /\ Ends \subseteq Nat
  BY <1>1 DEF EntryEnds
<1>3. soi \in Ends
  <2>1. soi \in 0 .. soi
    BY <1>1
  <2>2. ~IatInside(soi)
    BY <1>1, EntriesHashed
  <2>3. IatEnds(soi)
    BY <2>2 DEF IatEnds
  <2> QED BY <2>1, <2>3, EndsHashed
<1>4. n \in Ends /\ \A i \in Ends : n <= i
  <2>1. Ends # {}
    BY <1>3
  <2> HIDE DEF Ends
  <2>2. Lowest(Ends) \in Ends /\ \A i \in Ends : Lowest(Ends) <= i
    BY <1>2, <2>1, LowestIn
  <2>3. n = Lowest(Ends)
    BY DEF Ends
  <2> QED BY <2>2, <2>3
<1>5. \A i \in 0 .. soi : IatEnds(i) <=> i \in Ends
  BY EndsHashed
<1> HIDE DEF soi, Ends
<1>6. n \in 0 .. soi /\ IatEnds(n) /\ \A i \in 0 .. n - 1 : i \in 0 .. soi /\ ~IatEnds(i)
  <2>1. n \in 0 .. soi /\ IatEnds(n)
    BY <1>2, <1>4, <1>5
  <2>2. ASSUME NEW i \in 0 .. n - 1 PROVE i \in 0 .. soi /\ ~IatEnds(i)
    <3>1. i \in 0 .. soi /\ i < n
      BY <1>1, <2>1
    <3>2. i \notin Ends
      BY <1>1, <1>4, <2>1, <3>1
    <3> QED BY <1>5, <3>1, <3>2
  <2> QED BY <2>1, <2>2
<1>7. /\ IatLength \in 0 .. soi /\ IatEnds(IatLength)
      /\ \A i \in 0 .. IatLength - 1 : ~IatEnds(i)
  <2> DEFINE P(m) == IatEnds(m) /\ \A i \in 0 .. m - 1 : ~IatEnds(i)
  <2>1. P(n) /\ n \in 0 .. soi
    BY <1>6
  <2>2. IatLength = CHOOSE m \in 0 .. soi : P(m)
    BY <1>1 DEF IatLength
  <2> HIDE DEF P
  <2>3. IatLength \in 0 .. soi /\ P(IatLength)
    BY <2>1, <2>2
  <2> QED BY <2>3 DEF P
<1>8. IatLength = n
  <2> DEFINE l == IatLength
  <2>1. l \in 0 .. soi /\ IatEnds(l) /\ \A i \in 0 .. l - 1 : ~IatEnds(i)
    BY <1>7
  <2> HIDE DEF l
  <2>2. ~(l < n)
    <3>1. l < n => l \in 0 .. n - 1
      BY <1>1, <1>6, <2>1
    <3> QED BY <1>6, <2>1, <3>1
  <2>3. ~(n < l)
    <3>1. n < l => n \in 0 .. l - 1
      BY <1>1, <1>6, <2>1
    <3> QED BY <1>6, <2>1, <3>1
  <2>4. l = n
    BY <1>1, <1>6, <2>1, <2>2, <2>3
  <2> QED BY <2>4 DEF l
<1> QED BY <1>6, <1>8 DEF soi

\* The hash of the image is that of the image in memory.
LEMMA HashIs ==
  ASSUME ImageInv, LoadedAsLinked(module), pe.hdr \in Header, SameHeader,
         pe.bits = pe.hdr.bits, SameEntries
  PROVE  Hash = HashOf(module)
<1> DEFINE n == Lowest(EntryEnds(module))
<1>1. IatLength = n /\ n \in Nat
  <2>1. IatLength = n /\ n \in 0 .. Origin(module).soi
    BY LengthHashed
  <2>2. Origin(module).soi \in Nat
    BY OriginIs DEF ImageInv, StreamOK
  <2> HIDE DEF n
  <2> QED BY <2>1, <2>2
<1>2. \A i \in 1 .. n : IatZero(i - 1) = EntryZero(module, i - 1)
  <2> TAKE i \in 1 .. n
  <2>1. i - 1 \in 0 .. n - 1 /\ i - 1 \in Nat
    <3> HIDE DEF n
    <3> QED BY <1>1
  <2>2. ~IatEnds(i - 1)
    BY <2>1, LengthHashed
  <2>3. IatInside(i - 1)
    BY <2>2 DEF IatEnds
  <2>4. IatZero(i - 1) <=> EntryZero(module, i - 1)
    BY <2>1, <2>3, EntriesHashed
  <2>5. IatZero(i - 1) \in BOOLEAN /\ EntryZero(module, i - 1) \in BOOLEAN
    BY Zenon DEF IatZero, EntryZero
  <2> QED BY <2>4, <2>5
<1>3. [i \in 1 .. IatLength |-> IatZero(i - 1)] = [i \in 1 .. n |-> EntryZero(module, i - 1)]
  <2> HIDE DEF n
  <2> QED BY <1>1, <1>2, Zenon
<1>4. pe.hdr.secs = Origin(module).secs
  BY HeaderAgrees, OriginIs DEF ImageInv, StreamOK
<1>5. [i \in DOMAIN pe.hdr.secs |-> <<pe.hdr.secs[i].name, pe.hdr.secs[i].raw, pe.hdr.secs[i].ch>>]
      = [i \in DOMAIN Origin(module).secs |-> <<Origin(module).secs[i].name,
                                    Origin(module).secs[i].raw, Origin(module).secs[i].ch>>]
  BY <1>4
<1> QED BY <1>3, <1>5, Zenon DEF Hash, HashOf

\* The hash of the code at the entry point, if it is taken.
LEMMA EpHashIs ==
  ASSUME ImageInv, LoadedAsLinked(module), pe.hdr \in Header, SameHeader,
         DOMAIN pe.image = 0 .. Origin(module).soi - 1, SameEntryPoint, NEW on,
         HashEp(on).short # Zero
  PROVE  HashEp(on) = EpOf(module)
<1> DEFINE ep == Origin(module).ep
           soi == Origin(module).soi
<1>1. ep \in Nat /\ soi \in Nat /\ Size(pe.image) = soi
  <2>1. ep \in Nat /\ soi \in Nat
    BY OriginIs DEF ImageInv, StreamOK
  <2> QED BY <2>1, BufferOf
<1>2. pe.hdr.ep = ep
  BY HeaderAgrees, OriginIs DEF ImageInv, StreamOK
<1>3. HashShortAsm(ep, on) # Zero
  BY <1>2 DEF HashEp
<1>4. ep # 0 /\ on /\ InImage(ep, 2) /\ HashShortAsm(ep, on) = pe.image[ep]
  BY <1>3 DEF HashShortAsm
<1>5. ep \in 1 .. soi - 1
  BY <1>1, <1>4 DEF InImage, Inside
<1>6. pe.image[ep] = InMemory(module, ep)
  BY <1>5 DEF SameEntryPoint
<1>7. HashAsm(ep, on) = IF Inside(soi, ep, CodeCells) /\ InMemory(module, ep) \in FullHash
                        THEN <<"full", InMemory(module, ep)>> ELSE Zero
  BY <1>1, <1>4, <1>6 DEF HashAsm, InImage
<1> HIDE DEF ep, soi
<1>8. HashEp(on) = [short |-> HashShortAsm(ep, on), full |-> HashAsm(ep, on)]
  BY <1>2, <1>3, Zenon DEF HashEp
<1> QED BY <1>4, <1>6, <1>7, <1>8, Zenon DEF EpOf, ep, soi

\* A job is given once, and what is done with it does not change the module.
LEMMA JobKept == ASSUME Next, ~StartJob PROVE UNCHANGED given
<1>1. OpenFile \/ OpenAddress \/ OpenHandle \/ ReadHeader \/ BuildHeader => UNCHANGED given
  BY DEF OpenFile, OpenAddress, OpenHandle, ReadHeader, BuildHeader
<1>2. BuildSection \/ EndBuild \/ ParseSections \/ LoadSections \/ ImportDirectory
      => UNCHANGED given
  BY DEF BuildSection, EndBuild, ParseSections, LoadSections, ImportDirectory
<1>3. ExportDirectory \/ TakeHash \/ CountImports \/ EntryPoint \/ RebuildImports
      => UNCHANGED given
  BY DEF ExportDirectory, TakeHash, CountImports, EntryPoint, RebuildImports
<1>4. AddLibrary \/ EndTable \/ LayOutHeaders \/ PlaceSection \/ EndLayout \/ CopyHeader
      => UNCHANGED given
  BY DEF AddLibrary, EndTable, LayOutHeaders, PlaceSection, EndLayout, CopyHeader
<1>5. PackSections \/ WriteImage \/ Close \/ Crash \/ Stop => UNCHANGED given
  BY DEF PackSections, WriteImage, Close, Crash, Stop, vars
<1> QED BY <1>1, <1>2, <1>3, <1>4, <1>5 DEF Next

\* A module is what it was, and so are the options.
LEMMA ModuleKept == ASSUME [Next]_vars PROVE UNCHANGED <<module, options>>
<1>1. CASE StartJob
  BY <1>1 DEF StartJob
<1>2. CASE UNCHANGED vars
  BY <1>2 DEF vars, given
<1> QED BY <1>1, <1>2, JobKept DEF given

\* Hashes are only added by the step that takes them.
LEMMA HashesKept == ASSUME Next, ~TakeHash PROVE UNCHANGED hashes
<1>1. StartJob \/ OpenFile \/ OpenAddress \/ OpenHandle \/ ReadHeader \/ BuildHeader
      => UNCHANGED hashes
  BY DEF StartJob, OpenFile, OpenAddress, OpenHandle, ReadHeader, BuildHeader, done
<1>2. BuildSection \/ EndBuild \/ ParseSections \/ LoadSections \/ ImportDirectory
      => UNCHANGED hashes
  BY DEF BuildSection, EndBuild, ParseSections, LoadSections, ImportDirectory, done
<1>3. ExportDirectory \/ CountImports \/ EntryPoint \/ RebuildImports => UNCHANGED hashes
  BY DEF ExportDirectory, CountImports, EntryPoint, RebuildImports, done
<1>4. AddLibrary \/ EndTable \/ LayOutHeaders \/ PlaceSection \/ EndLayout \/ CopyHeader
      => UNCHANGED hashes
  BY DEF AddLibrary, EndTable, LayOutHeaders, PlaceSection, EndLayout, CopyHeader, done
<1>5. PackSections \/ WriteImage \/ Close \/ Crash \/ Stop => UNCHANGED hashes
  BY DEF PackSections, WriteImage, Close, Crash, Stop, vars, done
<1> QED BY <1>1, <1>2, <1>3, <1>4, <1>5 DEF Next

\* The steps of an image up to its hash.
LEMMA ToTheHash ==
  ASSUME Next, pc' \in {"build", "regions", "header", "sections", "load", "imports", "hash"}
  PROVE  \/ OpenFile \/ OpenAddress \/ OpenHandle \/ ReadHeader \/ ParseSections \/ LoadSections
         \/ ImportDirectory \/ BuildHeader \/ BuildSection \/ EndBuild \/ Stop
<1>1. ~(StartJob \/ ExportDirectory \/ TakeHash \/ CountImports)
  BY DEF StartJob, ExportDirectory, TakeHash, CountImports
<1>2. ~(EntryPoint \/ AddLibrary \/ EndTable \/ LayOutHeaders \/ PlaceSection \/ EndLayout)
  BY DEF EntryPoint, AddLibrary, EndTable, LayOutHeaders, PlaceSection, EndLayout
<1>3. ~RebuildImports
  BY DEF RebuildImports, ImportTable32, ImportTable64, TableStep, MakeRoom, KeepImports
<1>4. ~(CopyHeader \/ PackSections \/ WriteImage \/ Close \/ Crash)
  BY DEF CopyHeader, PackSections, WriteImage, Close, Crash
<1> QED BY <1>1, <1>2, <1>3, <1>4 DEF Next

\* The header is read from the file or from memory.
LEMMA HeaderRead ==
  ASSUME ImageInv, LoadedAsLinked(module), Agrees, Taken, ReadHeader, pc' = "sections"
  PROVE  Agrees'
<1> DEFINE h == Origin(module)
<1>1. /\ pc = "header" /\ IsPE(RawCells) /\ UNCHANGED given
      /\ pe' = [pe EXCEPT !.raw = RawCells, !.hdr = RawCells[0][2], !.bits = RawCells[0][2].bits]
  BY DEF ReadHeader
<1>2. /\ pe'.hdr = RawCells[0][2] /\ pe'.raw = RawCells /\ pe'.bits = pe'.hdr.bits
      /\ pe'.stream = pe.stream /\ pe'.base = pe.base /\ pe'.epHash = pe.epHash
  BY <1>1 DEF ImageInv, HeaderOK, NewPe
<1>3. Origin(module') = h /\ module' = module
  BY <1>1 DEF given
<1>4. h \in Header /\ h.soh \in Nat \ {0} /\ h.soi \in Nat /\ h.soh <= h.soi
  BY OriginIs DEF ImageInv, StreamOK
<1>5. pe.stream \in {"file", "memory"}
  <2> SUFFICES ASSUME pe.stream \notin {"file", "memory"} PROVE FALSE
    OBVIOUS
  <2>1. DOMAIN RawCells = 0 .. 0 - 1
    BY DEF RawCells, BlockSize
  <2>2. Size(RawCells) = 0
    BY <2>1, BufferOf
  <2> QED BY <1>1, <2>2, ImageAssumption DEF IsPE
<1>6. BlockSize \in Nat /\ BlockSize >= h.soh
  <2>1. CASE pe.stream = "file"
    <3>1. FileCells = module.file
      BY DEF Taken, FileCells
    <3>2. h.soh <= Size(module.file)
      BY LinkedIs DEF ImageInv, StreamOK
    <3>3. Size(module.file) \in Nat
      BY SizeNat, ImageAssumption DEF ImageInv, StreamOK
    <3> QED BY <2>1, <3>1, <3>2, <3>3 DEF BlockSize
  <2>2. CASE pe.stream = "memory"
    <3>1. pe.base = module.base /\ module.base \in Int
      BY <1>1, <2>2, ImageAssumption DEF ImageInv, StreamOK
    <3>2. BlockSize = module.end[module.base] - module.base
      <4>1. pe.base + 0 = module.base /\ module.end[module.base] \in Int
        BY <3>1, ImageAssumption DEF ImageInv, StreamOK
      <4> QED BY <2>2, <3>1, <4>1 DEF BlockSize, RegionSize
    <3>3. BlockSize \in Larger(h.soh, MinHeader) .. h.soi
      BY <3>2, LinkedIs DEF ImageInv, StreamOK
    <3>4. Larger(h.soh, MinHeader) \in Nat /\ Larger(h.soh, MinHeader) >= h.soh
      BY <1>4, ImageAssumption DEF Larger
    <3> HIDE DEF h
    <3> QED BY <1>4, <3>3, <3>4
  <2> QED BY <1>5, <2>1, <2>2
<1>7. Size(RawCells) = BlockSize /\ 0 \in 0 .. BlockSize - 1
  <2>1. DOMAIN RawCells = 0 .. BlockSize - 1
    BY DEF RawCells
  <2>2. Size(RawCells) = BlockSize
    BY <1>6, <2>1, BufferOf
  <2> HIDE DEF h
  <2> QED BY <1>4, <1>6, <2>2
<1>8. RawCells[0] = StreamCell(0, Gap)
  BY <1>7 DEF RawCells
<1>9. [pe'.hdr EXCEPT !.base = h.base] = h
  <2>1. CASE pe.stream = "file"
    <3>1. FileCells = module.file
      BY DEF Taken, FileCells
    <3>2. 0 \in DOMAIN module.file
      <4>1. h.soh <= Size(module.file) /\ Buffer(module.file)
        BY LinkedIs, ImageAssumption DEF ImageInv, StreamOK
      <4>2. Size(module.file) \in Nat
        BY <4>1, SizeNat
      <4> HIDE DEF h
      <4> QED BY <1>4, <4>1, <4>2 DEF Buffer
    <3>3. pe'.hdr = h
      BY <1>2, <1>8, <2>1, <3>1, <3>2 DEF StreamCell, Accessible, InFile, Origin
    <3> QED BY <1>4, <3>3 DEF Header
  <2>2. CASE pe.stream = "memory"
    <3>1. pe.base = module.base
      BY <1>1, <2>2 DEF ImageInv, StreamOK
    <3>2. 0 \in 0 .. h.soi - 1
      <4> HIDE DEF h
      <4> QED BY <1>4
    <3>3. StreamCell(0, Gap) = InMemory(module, 0)
      BY <2>2, <3>1, <3>2, MemoryIsRead
    <3>4. [InMemory(module, 0)[2] EXCEPT !.base = h.base] = h
      BY LinkedIs DEF ImageInv, StreamOK
    <3> QED BY <1>2, <1>8, <3>3, <3>4
  <2> QED BY <1>5, <2>1, <2>2
<1>10. SameHeader' /\ Size(pe'.raw) >= h.soh
  <2>1. Size(pe'.raw) >= h.soh
    BY <1>2, <1>6, <1>7
  <2> QED BY <1>3, <1>9, <2>1 DEF SameHeader
<1>11. pe.epHash = NewPe.epHash /\ (pe.stream = "memory" => pe.base = module.base)
  BY <1>1 DEF Agrees
<1> HIDE DEF h
<1> QED BY <1>2, <1>3, <1>5, <1>10, <1>11 DEF Agrees, h, Size

\* Its sections are parsed.
LEMMA SectionsParsed ==
  ASSUME ImageInv, LoadedAsLinked(module), Agrees, Taken, ParseSections
  PROVE  Agrees'
<1> DEFINE h == Origin(module)
           g == pe.hdr
<1>1. /\ pc = "sections" /\ SameHeader /\ pe.stream \in {"file", "memory"}
      /\ pe.bits = pe.hdr.bits /\ Size(pe.raw) >= h.soh /\ pe.epHash = NewPe.epHash
      /\ pe.stream = "memory" => pe.base = module.base
  BY DEF ParseSections, Agrees
<1>2. /\ h \in Header /\ Len(h.secs) = h.n /\ h.n \in Nat \ {0} /\ h.n <= MaxSections
      /\ h.soh \in Nat /\ SectionsAt + h.n * SectionCells <= h.soh
  BY OriginIs DEF ImageInv, StreamOK
<1>3. g \in Header /\ Size(pe.raw) \in Nat
  BY <1>1, SizeNat DEF ImageInv, HeaderOK, BuffersOK, WithHeader
<1>4. g.n = h.n /\ g.secs = h.secs
  BY <1>1, <1>2, <1>3, HeaderAgrees
<1>5. Inside(Size(pe.raw), SectionsAt, h.n * SectionCells)
  <2> DEFINE cells == h.n * SectionCells
             soh == h.soh
  <2>1. cells \in Nat /\ SectionsAt \in Nat
    <3> DEFINE n == h.n
    <3>1. n \in Nat /\ SectionCells \in Nat /\ SectionsAt \in Nat
      BY <1>2, ImageAssumption
    <3> HIDE DEF n
    <3>2. n * SectionCells \in Nat
      BY <3>1
    <3> QED BY <3>1, <3>2 DEF n
  <2>2. SectionsAt + cells <= soh /\ soh \in Nat /\ Size(pe.raw) >= soh
    BY <1>1, <1>2
  <2> HIDE DEF cells, soh
  <2>3. Inside(Size(pe.raw), SectionsAt, cells)
    BY <1>3, <2>1, <2>2 DEF Inside
  <2> QED BY <2>3 DEF cells
<1>6. Len(g.secs) = g.n /\ g.n <= MaxSections /\ g.n > 0 /\ Inside(Size(pe.raw), SectionsAt, g.n * SectionCells)
  <2>1. h.n > 0
    BY <1>2
  <2> HIDE DEF h, g
  <2> QED BY <1>2, <1>4, <1>5, <2>1
<1> HIDE DEF g
<1>7. /\ pc' = "load" /\ UNCHANGED given
      /\ pe'.hdr = pe.hdr /\ pe'.stream = pe.stream /\ pe'.bits = pe.bits /\ pe'.base = pe.base
      /\ pe'.epHash = pe.epHash
  BY <1>3, <1>6, SectionsKept DEF g
<1>8. module' = module
  BY <1>7 DEF given
<1>9. SameHeader'
  BY <1>1, <1>7, <1>8 DEF SameHeader
<1> QED BY <1>1, <1>7, <1>8, <1>9 DEF Agrees

\* The image is loaded.
LEMMA ImageLoaded ==
  ASSUME ImageInv, LoadedAsLinked(module), Agrees, Taken, LoadSections
  PROVE  Agrees'
<1> DEFINE h == Origin(module)
           soi == h.soi
<1>1. /\ pc = "load" /\ SameHeader /\ pe.stream \in {"file", "memory"}
      /\ pe.bits = pe.hdr.bits /\ pe.epHash = NewPe.epHash
      /\ pe.stream = "memory" => pe.base = module.base
  BY DEF LoadSections, Agrees
<1>2. /\ pc' \in {"hash", "exports", "references", "imports"} /\ module' = module
      /\ LoadImage /\ UNCHANGED given
      /\ pc' = "imports" => job'.what \notin {"clean", "collect"}
  BY DEF LoadSections, LoadImage32, LoadImage64, given
<1>3. pe.hdr \in Header /\ Len(pe.hdr.secs) = pe.hdr.n
  BY <1>1 DEF ImageInv, HeaderOK, WithHeader, WithSections
<1>4. /\ h \in Header /\ soi \in Nat /\ h.n \in Nat \ {0} /\ Len(h.secs) = h.n
      /\ h.ep \in Nat /\ soi <= SizeLimit(h.n)
      /\ h.secs[h.n].va + h.secs[h.n].vs <= soi
  BY OriginIs DEF ImageInv, StreamOK
<1>5. pe.hdr.n = h.n /\ pe.hdr.secs = h.secs /\ pe.hdr.soi = soi
  BY <1>1, <1>3, <1>4, HeaderAgrees
<1>6. ImageSize = soi
  <2> DEFINE g == pe.hdr
  <2>1. /\ g \in Header /\ Len(g.secs) = g.n /\ g.n > 0 /\ g.soi <= SizeLimit(g.n)
        /\ g.secs[g.n].va + g.secs[g.n].vs <= g.soi
    BY <1>3, <1>4, <1>5
  <2>2. g = pe.hdr /\ g.soi = soi
    BY <1>5
  <2> HIDE DEF g
  <2> QED BY <2>1, <2>2, SizeIs
<1>7. pe' = [pe EXCEPT !.image = IF pe.stream = "file" THEN FileImage(soi) ELSE MemoryImage(soi)]
  BY <1>2, <1>6 DEF LoadImage
<1>8. /\ pe'.hdr = pe.hdr /\ pe'.stream = pe.stream /\ pe'.bits = pe.bits /\ pe'.base = pe.base
      /\ pe'.epHash = pe.epHash
      /\ pe'.image = IF pe.stream = "file" THEN FileImage(soi) ELSE MemoryImage(soi)
  BY <1>7 DEF ImageInv, HeaderOK, NewPe
<1>9. DOMAIN pe'.image = 0 .. soi - 1
  BY <1>8 DEF FileImage, MemoryImage
<1>10. /\ pe.stream = "file" => \A a \in 0 .. soi - 1 : pe'.image[a] = InFileOf(module, a)
       /\ pe.stream = "memory" => \A a \in 0 .. soi - 1 : pe'.image[a] = InMemory(module, a)
  <2>1. CASE pe.stream = "file"
    <3>1. \A a \in 0 .. soi - 1 : FileImage(soi)[a] = InFileOf(module, a)
      BY <1>1, <1>3, <2>1, FileIsLinked
    <3> QED BY <1>8, <2>1, <3>1
  <2>2. CASE pe.stream = "memory"
    <3>1. \A a \in 0 .. soi - 1 : StreamCell(a, Zero) = InMemory(module, a)
      BY <1>1, <2>2, MemoryIsRead
    <3>2. pe'.image = [a \in 0 .. soi - 1 |-> StreamCell(a, Zero)]
      BY <1>8, <2>2 DEF MemoryImage
    <3> HIDE DEF soi
    <3> QED BY <2>2, <3>1, <3>2
  <2> QED BY <1>1, <2>1, <2>2
<1>11. ASSUME NEW i \in 0 .. soi - 1, EntryInside(module, i)
       PROVE  (\A a \in EntryCells(module, i) : pe'.image[a] = Zero) = EntryZero(module, i)
  <2>1. EntryCells(module, i) \subseteq 0 .. soi - 1
    BY <1>11 DEF EntryInside
  <2>2. CASE pe.stream = "file"
    <3>1. EntryZero(module, i) = (\A a \in EntryCells(module, i) : InFileOf(module, a) = Zero)
      BY <1>11, LinkedIs DEF ImageInv, StreamOK
    <3> HIDE DEF soi
    <3> QED BY <1>10, <2>1, <2>2, <3>1
  <2>3. CASE pe.stream = "memory"
    <3> HIDE DEF soi
    <3> QED BY <1>10, <2>1, <2>3 DEF EntryZero
  <2> QED BY <1>1, <2>2, <2>3
<1>12. SameEntries'
  BY <1>2, <1>9, <1>11 DEF SameEntries
<1>13. SameEntryPoint'
  <2>1. ASSUME h.ep \in 1 .. soi - 1 PROVE pe'.image[h.ep] = InMemory(module, h.ep)
    <3>1. h.ep \in 0 .. soi - 1
      <4> HIDE DEF soi
      <4> QED BY <1>4, <2>1
    <3>2. InMemory(module, h.ep) = InFileOf(module, h.ep)
      BY <2>1, LinkedIs DEF ImageInv, StreamOK
    <3> QED BY <1>1, <1>10, <3>1, <3>2
  <2> QED BY <1>2, <2>1 DEF SameEntryPoint
<1>14. SameHeader'
  BY <1>1, <1>2, <1>8 DEF SameHeader
<1> HIDE DEF h
<1> QED BY <1>1, <1>2, <1>8, <1>12, <1>13, <1>14 DEF Agrees

\* The import directory is gone over.
LEMMA ImportsRestored ==
  ASSUME ImageInv, Agrees, Taken, ImportDirectory
  PROVE  Agrees'
<1>1. /\ pc = "imports" /\ SameHeader /\ pe.stream \in {"file", "memory"} /\ SameEntries
      /\ job.what \notin {"clean", "collect"}
      /\ pe.bits = pe.hdr.bits /\ pe.epHash = NewPe.epHash
      /\ pe.stream = "memory" => pe.base = module.base
  BY DEF ImportDirectory, Agrees
<1>2. /\ pc' = "hash" /\ module' = module /\ UNCHANGED job
      /\ pe' = pe \/ pe' = [pe EXCEPT !.image = Restored, !.desc = pe.hdr.imp]
  BY DEF ImportDirectory, RestoreThunks32, RestoreThunks64, RestoreThunks, given
<1>3. /\ pe'.hdr = pe.hdr /\ pe'.stream = pe.stream /\ pe'.bits = pe.bits /\ pe'.base = pe.base
      /\ pe'.epHash = pe.epHash /\ (pe'.image = pe.image \/ pe'.image = Restored)
  BY <1>2 DEF ImageInv, HeaderOK, NewPe
<1>4. DOMAIN pe'.image = DOMAIN pe.image
      /\ \A a \in DOMAIN pe.image : (pe'.image[a] = Zero) = (pe.image[a] = Zero)
  BY <1>3, RestoredZeros DEF ImageInv, BuffersOK
<1>5. ASSUME NEW i \in 0 .. Origin(module).soi - 1, EntryInside(module, i)
      PROVE  (\A a \in EntryCells(module, i) : pe'.image[a] = Zero) = EntryZero(module, i)
  <2>1. EntryCells(module, i) \subseteq DOMAIN pe.image
    BY <1>1, <1>5 DEF EntryInside, SameEntries
  <2>2. (\A a \in EntryCells(module, i) : pe'.image[a] = Zero)
        = (\A a \in EntryCells(module, i) : pe.image[a] = Zero)
    BY <1>4, <2>1
  <2> QED BY <1>1, <1>5, <2>2 DEF SameEntries
<1>6. SameEntries'
  BY <1>1, <1>2, <1>4, <1>5 DEF SameEntries
<1>7. SameHeader'
  BY <1>1, <1>2, <1>3 DEF SameHeader
<1> QED BY <1>1, <1>2, <1>3, <1>6, <1>7 DEF Agrees

\* A stream is opened.
LEMMA StreamOpened ==
  ASSUME Agrees, Taken, OpenFile \/ OpenAddress \/ OpenHandle
  PROVE  Agrees'
<1>1. UNCHANGED given /\ pc' = "header"
  BY DEF OpenFile, OpenAddress, OpenHandle, Taken
<1>2. pe'.epHash = NewPe.epHash /\ (pe'.stream = "memory" => pe'.base = module.base)
  <2>1. CASE OpenFile
    BY <2>1 DEF OpenFile, NewPe
  <2>2. CASE OpenAddress
    <3>1. PICK s \in {"memory", "none"} : pe' = [NewPe EXCEPT !.stream = s, !.base = module.base]
      BY <2>2 DEF OpenAddress
    <3> QED BY <3>1 DEF NewPe
  <2>3. CASE OpenHandle
    BY <2>3 DEF OpenHandle, NewPe
  <2> QED BY <2>1, <2>2, <2>3
<1>3. module' = module
  BY <1>1 DEF given
<1>4. NewPe' = NewPe
  BY DEF NewPe
<1> QED BY <1>1, <1>2, <1>3, <1>4 DEF Agrees

\* No other step goes on with an image whose hash is to be taken.
LEMMA AgreesStep ==
  ASSUME ImageInv, LoadedAsLinked(module), Agrees, [Next]_vars
  PROVE  Agrees'
<1> DEFINE Way == {"build", "regions", "header", "sections", "load", "imports", "hash"}
<1>1. CASE UNCHANGED vars
  <2>1. UNCHANGED <<given, pc, pe>>
    BY <1>1 DEF vars
  <2>2. Taken' = Taken /\ SameHeader' = SameHeader /\ SameEntries' = SameEntries
        /\ SameEntryPoint' = SameEntryPoint
    <3>1. module' = module /\ job' = job /\ pe' = pe
      BY <2>1 DEF given
    <3>2. Taken' = Taken /\ SameHeader' = SameHeader /\ SameEntryPoint' = SameEntryPoint
      BY <3>1, Zenon DEF Taken, SameHeader, SameEntryPoint
    <3>3. SameEntries' = SameEntries
      BY <3>1 DEF SameEntries
    <3> QED BY <3>2, <3>3
  <2>3. NewPe' = NewPe /\ Origin(module)' = Origin(module)
    BY <2>1 DEF NewPe, given
  <2> QED BY <2>1, <2>2, <2>3 DEF Agrees, given, Size
<1>2. CASE Next /\ pc' \notin Way
  BY <1>2 DEF Agrees
<1>3. CASE Next /\ pc' \in Way /\ ~Taken'
  BY <1>3 DEF Agrees
<1>4. CASE Next /\ pc' \in Way /\ Taken'
  <2>1. \/ OpenFile \/ OpenAddress \/ OpenHandle \/ ReadHeader \/ ParseSections \/ LoadSections
        \/ ImportDirectory \/ BuildHeader \/ BuildSection \/ EndBuild \/ Stop
    BY <1>4, ToTheHash
  <2>2. ~StartJob
    BY <1>4 DEF StartJob
  <2>3. Taken
    BY <1>4, <2>2, JobKept DEF Taken, given
  <2>4. ~(BuildHeader \/ BuildSection \/ EndBuild)
    BY <2>3 DEF Agrees, BuildHeader, BuildSection, EndBuild
  <2>5. CASE OpenFile \/ OpenAddress \/ OpenHandle
    BY <2>3, <2>5, StreamOpened
  <2>6. CASE ReadHeader
    <3>1. pc' = "sections"
      BY <1>4, <2>6 DEF ReadHeader
    <3> QED BY <2>3, <2>6, <3>1, HeaderRead
  <2>7. CASE ParseSections
    BY <2>3, <2>7, SectionsParsed
  <2>8. CASE LoadSections
    BY <2>3, <2>8, ImageLoaded
  <2>9. CASE ImportDirectory
    BY <2>3, <2>9, ImportsRestored
  <2>10. CASE Stop
    BY <1>1, <2>10 DEF Stop
  <2> QED BY <2>1, <2>4, <2>5, <2>6, <2>7, <2>8, <2>9, <2>10
<1> HIDE DEF Way
<1> QED BY <1>1, <1>2, <1>3, <1>4

\* A hash that is taken is that of the image in memory.
LEMMA HashTaken ==
  ASSUME ImageInv, LoadedAsLinked(module), Agrees, AllAgree, TakeHash
  PROVE  AllAgree'
<1> DEFINE g == [hash |-> pe'.hash, ep |-> pe'.epHash]
<1>1. module' = module
  BY DEF TakeHash, given
<1>2. HashOf(module)' = HashOf(module) /\ EpOf(module)' = EpOf(module)
  BY <1>1
<1>3. CASE ~Taken
  <2>1. hashes' = hashes
    BY <1>3 DEF TakeHash, Taken
  <2> QED BY <1>2, <2>1 DEF AllAgree
<1>4. CASE Taken
  <2>1. /\ pc = "hash" /\ SameHeader /\ SameEntries /\ pe.bits = pe.hdr.bits
        /\ pe.epHash = NewPe.epHash /\ pe.hdr \in Header
        /\ job.what \in {"clean", "collect"} => SameEntryPoint
    BY <1>4 DEF TakeHash, Agrees, ImageInv, HeaderOK, WithHeader
  <2>2. hashes' = hashes \cup {g}
    BY <1>4 DEF TakeHash, Taken
  <2>3. PICK on \in EntryPointHash :
          pe' = [pe EXCEPT !.hash = Hash,
                   !.epHash = IF job.what \in {"clean", "collect"} THEN HashEp(on) ELSE @]
    BY DEF TakeHash
  <2>4. /\ pe'.hash = Hash
        /\ pe'.epHash = IF job.what \in {"clean", "collect"} THEN HashEp(on) ELSE pe.epHash
    <3>1. DOMAIN pe = DOMAIN NewPe
      BY DEF ImageInv, HeaderOK
    <3>2. "hash" \in DOMAIN pe /\ "epHash" \in DOMAIN pe
      BY <3>1 DEF NewPe
    <3> QED BY <2>3, <3>2
  <2>5. g.hash = HashOf(module)
    BY <2>1, <2>4, HashIs
  <2>6. g.ep.short # Zero => g.ep = EpOf(module)
    <3>1. CASE job.what \in {"clean", "collect"}
      <4>1. DOMAIN pe.image = 0 .. Origin(module).soi - 1 /\ SameEntryPoint
        BY <2>1, <3>1 DEF SameEntries
      <4>2. g.ep = HashEp(on)
        BY <2>4, <3>1
      <4> QED BY <2>1, <4>1, <4>2, EpHashIs
    <3>2. CASE job.what \notin {"clean", "collect"}
      <4>1. g.ep.short = Zero
        BY <2>1, <2>4, <3>2 DEF NewPe
      <4> QED BY <4>1
    <3> QED BY <3>1, <3>2
  <2> HIDE DEF g
  <2> QED BY <1>2, <2>2, <2>5, <2>6 DEF AllAgree
<1> QED BY <1>3, <1>4

\* Every step keeps what the object has in common with the file, and the hashes.
LEMMA HashStep == ASSUME ImageInv, HashInv, [Next]_vars PROVE HashInv'
<1>1. module' = module
  BY ModuleKept
<1>2. LoadedAsLinked(module)' = LoadedAsLinked(module)
  BY <1>1
<1> SUFFICES ASSUME LoadedAsLinked(module) PROVE Agrees' /\ AllAgree'
  BY <1>2 DEF HashInv
<1>3. Agrees'
  BY AgreesStep DEF HashInv
<1>4. AllAgree'
  <2>1. CASE TakeHash
    BY <2>1, HashTaken DEF HashInv
  <2>2. CASE UNCHANGED hashes
    <3>1. HashOf(module)' = HashOf(module) /\ EpOf(module)' = EpOf(module)
      BY <1>1
    <3> QED BY <2>2, <3>1 DEF HashInv, AllAgree
  <2>3. CASE UNCHANGED vars
    <3>1. UNCHANGED hashes
      BY <2>3 DEF vars, done
    <3> QED BY <2>2, <3>1
  <2> QED BY <2>1, <2>2, <2>3, HashesKept
<1> QED BY <1>3, <1>4

\* A module as a linker makes it and the loader loads it has one hash, whether it is read
\* from its file or from memory, before its imports are restored or after, and one hash
\* of its entry point.
THEOREM SameHashed == Spec => []SameHash
<1> DEFINE Inv == ImageInv /\ HashInv
<1>1. Init => Inv
  <2> SUFFICES ASSUME Init PROVE HashInv
    BY ImageBegins
  <2>1. pc = "ready" /\ hashes = {}
    BY DEF Init
  <2> QED BY <2>1 DEF HashInv, Agrees, AllAgree
<1>2. Inv /\ [Next]_vars => Inv'
  BY ImageStep, HashStep
<1>3. Inv => SameHash
  <2> SUFFICES ASSUME HashInv, LoadedAsLinked(module), NEW g \in hashes, NEW h \in hashes
               PROVE  g.hash = h.hash /\ (Zero \notin {g.ep.short, h.ep.short} => g.ep = h.ep)
    BY Zenon DEF SameHash
  <2> QED BY DEF HashInv, AllAgree
<1> HIDE DEF Inv
<1> QED BY <1>1, <1>2, <1>3, PTL DEF Spec

-----------------------------------------------------------------------------
(* The import table in the file is read as what the image needs.           *)

\* The elements of a finite set of integers, in order.
LEMMA AllInOrder ==
  ASSUME NEW A \in SUBSET Int, IsFiniteSet(A)
  PROVE  {Nth(A, i) : i \in 1 .. Cardinality(A)} = A
<1> DEFINE n == Cardinality(A)
           below(a) == {b \in A : b < a}
<1>1. n \in Nat
  BY FS_CardinalityType
<1>2. ASSUME NEW a \in A PROVE Rank(A, a) \in 0 .. n - 1 /\ IsFiniteSet(below(a))
  <2>1. IsFiniteSet(A \ {a}) /\ Cardinality(A \ {a}) = n - 1
    BY FS_RemoveElement
  <2>2. below(a) \in SUBSET (A \ {a})
    OBVIOUS
  <2>3. IsFiniteSet(below(a)) /\ Cardinality(below(a)) <= n - 1 /\ Cardinality(below(a)) \in Nat
    <3> HIDE DEF below
    <3> QED BY <2>1, <2>2, FS_Subset, FS_CardinalityType
  <2> QED BY <1>1, <2>3 DEF Rank
<1>3. ASSUME NEW a \in A, NEW c \in A, a < c PROVE Rank(A, a) # Rank(A, c)
  <2>1. below(a) \in SUBSET below(c) /\ a \in below(c) /\ a \notin below(a)
    <3>1. \A b \in A : b < a => b < c
      <4> TAKE b \in A
      <4>1. a \in Int /\ b \in Int /\ c \in Int
        OBVIOUS
      <4> QED BY <1>3, <4>1
    <3>2. below(a) \in SUBSET below(c)
      BY <3>1
    <3>3. ~(a < a)
      <4>1. a \in Int
        OBVIOUS
      <4> QED BY <4>1
    <3> QED BY <1>3, <3>2, <3>3
  <2>2. IsFiniteSet(below(c))
    BY <1>2
  <2>3. Cardinality(below(c)) # Cardinality(below(a))
    <3> HIDE DEF below
    <3> QED BY <2>1, <2>2, FS_Subset
  <2> QED BY <2>3 DEF Rank
<1>4. \A a, c \in A : Rank(A, a) = Rank(A, c) => a = c
  <2> TAKE a \in A, c \in A
  <2>1. a \in Int /\ c \in Int
    OBVIOUS
  <2>2. a < c \/ c < a \/ a = c
    BY <2>1
  <2> QED BY <1>3, <2>2
<1> DEFINE f == [a \in A |-> Rank(A, a)]
<1>5. f \in Surjection(A, 0 .. n - 1)
  <2>1. f \in Injection(A, 0 .. n - 1)
    BY <1>2, <1>4 DEF Injection, IsInjective
  <2>2. IsFiniteSet(0 .. n - 1) /\ Cardinality(0 .. n - 1) = n
    BY <1>1, FS_Interval
  <2> HIDE DEF f
  <2> QED BY <2>1, <2>2, FS_Injection
<1>6. \A i \in 1 .. n : Nth(A, i) \in A /\ Rank(A, Nth(A, i)) = i - 1
  <2> TAKE i \in 1 .. n
  <2>1. i - 1 \in 0 .. n - 1
    BY <1>1
  <2>2. \E a \in A : Rank(A, a) = i - 1
    BY <1>5, <2>1 DEF Surjection
  <2> QED BY <2>2 DEF Nth
<1>7. \A a \in A : \E i \in 1 .. n : a = Nth(A, i)
  <2> TAKE a \in A
  <2>1. PICK i \in 1 .. n : Rank(A, a) = i - 1
    <3> DEFINE k == Rank(A, a)
    <3>1. k \in 0 .. n - 1
      BY <1>2
    <3> HIDE DEF k, n
    <3>2. k + 1 \in 1 .. n /\ k = (k + 1) - 1
      BY <1>1, <3>1
    <3> QED BY <3>2 DEF k
  <2>2. a = Nth(A, i)
    <3> HIDE DEF n
    <3>1. Nth(A, i) \in A /\ Rank(A, Nth(A, i)) = Rank(A, a)
      BY <1>6, <2>1
    <3> QED BY <1>4, <3>1
  <2> QED BY <2>1, <2>2
<1> QED BY <1>6, <1>7

\* The descriptors of an image, each of which is there.
LEMMA OldAre ==
  ASSUME NEW image, NEW size \in Nat, NEW rva, NEW old, old = OldLibraries(image, size, rva)
  PROVE  /\ Len(old) \in Nat /\ DOMAIN old = 1 .. Len(old)
         /\ \A i \in 1 .. Len(old) :
               /\ old[i] = OldLibrary(DescriptorAt(image, size, rva, i - 1))
               /\ DescriptorAt(image, size, rva, i - 1) # Zero
<1> DEFINE at(i) == DescriptorAt(image, size, rva, i)
           S == {k \in 0 .. size : \A i \in 0 .. k : at(i) # Zero}
           n == Cardinality(S)
<1>1. n \in Nat /\ IsFiniteSet(S) /\ n <= size + 1
  <2>1. IsFiniteSet(0 .. size) /\ Cardinality(0 .. size) = size + 1
    BY FS_Interval
  <2>2. S \in SUBSET (0 .. size)
    OBVIOUS
  <2> HIDE DEF S
  <2> QED BY <2>1, <2>2, FS_Subset, FS_CardinalityType
<1>2. old = [i \in 1 .. n |-> OldLibrary(at(i - 1))]
  BY DEF OldLibraries
<1>3. Len(old) = n /\ DOMAIN old = 1 .. n
  <2> HIDE DEF S, at
  <2> QED BY <1>1, <1>2
<1>4. ASSUME NEW i \in 1 .. n PROVE at(i - 1) # Zero
  <2> SUFFICES ASSUME at(i - 1) = Zero PROVE FALSE
    OBVIOUS
  <2>1. i - 1 \in Nat /\ i - 1 <= size
    BY <1>1
  <2>2. S \in SUBSET (0 .. i - 2)
    <3>1. ASSUME NEW k \in S PROVE k \in 0 .. i - 2
      <4>1. k \in 0 .. size /\ (i - 1 \in 0 .. k => FALSE)
        OBVIOUS
      <4> HIDE DEF S
      <4> QED BY <1>1, <2>1, <4>1
    <3> HIDE DEF S
    <3> QED BY <3>1
  <2>3. IsFiniteSet(0 .. i - 2) /\ Cardinality(0 .. i - 2) = i - 1
    <3>1. 0 \in Int /\ i - 2 \in Int /\ i >= 1
      BY <2>1
    <3>2. IsFiniteSet(0 .. i - 2)
          /\ Cardinality(0 .. i - 2) = IF 0 > i - 2 THEN 0 ELSE i - 2 - 0 + 1
      BY <3>1, FS_Interval
    <3> QED BY <3>1, <3>2
  <2>4. n <= i - 1
    <3> HIDE DEF S
    <3> QED BY <2>2, <2>3, FS_Subset
  <2> HIDE DEF S
  <2> QED BY <1>1, <2>4
<1> HIDE DEF S
<1> QED BY <1>1, <1>2, <1>3, <1>4

\* They are those up to the first empty one.
LEMMA OldEnd ==
  ASSUME NEW image, NEW size \in Nat, NEW rva, NEW n \in 0 .. size,
         \A i \in 0 .. n - 1 : DescriptorAt(image, size, rva, i) # Zero,
         DescriptorAt(image, size, rva, n) = Zero
  PROVE  Len(OldLibraries(image, size, rva)) = n
<1> DEFINE at(i) == DescriptorAt(image, size, rva, i)
           S == {k \in 0 .. size : \A i \in 0 .. k : at(i) # Zero}
<1>1. S = 0 .. n - 1
  <2>1. ASSUME NEW k \in 0 .. n - 1 PROVE k \in 0 .. size /\ \A i \in 0 .. k : at(i) # Zero
    <3>1. \A i \in 0 .. k : i \in 0 .. n - 1
      OBVIOUS
    <3> QED BY <3>1
  <2>2. ASSUME NEW k \in 0 .. size, \A i \in 0 .. k : at(i) # Zero PROVE k \in 0 .. n - 1
    <3>1. n \notin 0 .. k
      BY <2>2
    <3> QED BY <3>1
  <2> HIDE DEF at
  <2> QED BY <2>1, <2>2
<1>2. Cardinality(S) = n
  <2>1. Cardinality(0 .. n - 1) = n
    BY FS_Interval
  <2> QED BY <1>1, <2>1
<1>3. OldLibraries(image, size, rva) = [i \in 1 .. n |-> OldLibrary(at(i - 1))]
  BY <1>2 DEF OldLibraries
<1> HIDE DEF S
<1> QED BY <1>3

\* What is found is what is wanted.
LEMMA ReferencesAre ==
  ASSUME ImageInv
  PROVE  /\ References = FoundIn(pe.image, pe.bits, module)
         /\ \A a \in References : Candidate(a) = AddressOf(pe.image, pe.bits, a)
         /\ References \in SUBSET Int /\ IsFiniteSet(References)
<1> DEFINE n == Size(pe.image)
<1>1. n \in Nat /\ DOMAIN pe.image = 0 .. n - 1 /\ IsFiniteSet(DOMAIN pe.image)
  BY SizeNat DEF ImageInv, BuffersOK, Buffer
<1>2. DOMAIN module.exports \subseteq Int
  BY ImageAssumption DEF ImageInv, StreamOK
<1>3. Scanned = 0 .. n - 3
  <2>1. Scanned = {a \in 0 .. n - 1 : a < n - 2}
    BY <1>1 DEF Scanned
  <2> HIDE DEF n
  <2> QED BY <1>1, <2>1
<1>4. ASSUME NEW a \in Scanned
      PROVE  /\ Candidate(a) \in DOMAIN module.exports
                  <=> /\ AddressOf(pe.image, pe.bits, a) \in DOMAIN module.exports
                      /\ pe.bits = 32 => 2 * AddressOf(pe.image, pe.bits, a) < DW
             /\ Candidate(a) \in DOMAIN module.exports
                  => Candidate(a) = AddressOf(pe.image, pe.bits, a)
  <2>1. NoRva \notin DOMAIN module.exports
    BY <1>2, RvaAssumption
  <2>2. CASE pe.bits = 32
    <3> DEFINE v == AddressOf(pe.image, 32, a)
    <3>1. Candidate(a) = IF 2 * v < DW THEN v ELSE NoRva
      BY <2>2 DEF Candidate, Candidate32, AddressOf
    <3> HIDE DEF v
    <3>2. CASE 2 * v < DW
      BY <2>2, <3>1, <3>2 DEF v
    <3>3. CASE ~(2 * v < DW)
      BY <2>1, <2>2, <3>1, <3>3 DEF v
    <3> QED BY <3>2, <3>3
  <2>3. CASE pe.bits # 32
    <3>1. Candidate(a) = AddressOf(pe.image, pe.bits, a)
      BY <2>3 DEF Candidate, Candidate64, Value64, AddressOf
    <3> QED BY <2>3, <3>1
  <2> QED BY <2>2, <2>3
<1>5. References = FoundIn(pe.image, pe.bits, module)
  <2>1. FoundIn(pe.image, pe.bits, module) = {a \in Scanned :
           /\ AddressOf(pe.image, pe.bits, a) \in DOMAIN module.exports
           /\ pe.bits = 32 => 2 * AddressOf(pe.image, pe.bits, a) < DW}
    BY <1>3 DEF FoundIn
  <2> QED BY <1>4, <2>1 DEF References
<1>6. References \in SUBSET (0 .. n - 3) /\ IsFiniteSet(0 .. n - 3)
  <2>1. IsFiniteSet(0 .. n - 3)
    <3>1. n - 3 \in Int
      BY <1>1
    <3> QED BY <3>1, FS_Interval
  <2> QED BY <1>3, <2>1 DEF References
<1>7. References \in SUBSET Int /\ IsFiniteSet(References)
  <2>1. IsFiniteSet(References)
    BY <1>6, FS_Subset
  <2>2. 0 .. n - 3 \in SUBSET Int
    OBVIOUS
  <2> HIDE DEF n
  <2> QED BY <1>6, <2>1, <2>2
<1>8. \A a \in References : Candidate(a) = AddressOf(pe.image, pe.bits, a)
  BY <1>4 DEF References
<1> QED BY <1>5, <1>7, <1>8

\* The libraries of the new table.
LEMMA LibrariesListed ==
  ASSUME ImageInv
  PROVE  Lists(Libraries, pe.image, pe.desc, pe.bits, module)
<1> DEFINE old == OldLibraries(pe.image, Size(pe.image), pe.desc)
           n == Len(old)
           r == Cardinality(References)
           new == [i \in 1 .. r |-> Fixup(Nth(References, i))]
           libs == old \o new
<1>1. /\ n \in Nat /\ DOMAIN old = 1 .. n
      /\ \A i \in 1 .. n : \E d : old[i] = OldLibrary(d) /\ d # Zero
  <2>1. Size(pe.image) \in Nat
    BY SizeNat DEF ImageInv, BuffersOK
  <2> HIDE DEF old
  <2>2. old = OldLibraries(pe.image, Size(pe.image), pe.desc)
    BY DEF old
  <2> QED BY <2>1, <2>2, OldAre
<1>2. r \in Nat
  BY ReferencesAre, FS_CardinalityType
<1>3. Libraries = libs
  BY Zenon DEF Libraries, Nth, Rank
<1>4. /\ Len(libs) = n + r /\ DOMAIN libs = 1 .. n + r
      /\ \A i \in 1 .. n : libs[i] = old[i]
      /\ \A i \in 1 .. r : libs[n + i] = new[i]
  <2> DEFINE S == {old[i] : i \in 1 .. n} \cup {new[i] : i \in 1 .. r}
  <2>1. old \in Seq(S) /\ new \in Seq(S) /\ Len(new) = r
    <3>1. new \in [1 .. r -> S]
      OBVIOUS
    <3>2. old = [i \in 1 .. n |-> old[i]]
      BY <1>1, Zenon DEF OldLibraries
    <3>3. old \in [1 .. n -> S]
      BY <3>2
    <3> HIDE DEF old, new, r, S, n
    <3> QED BY <1>1, <1>2, <3>1, <3>3
  <2> HIDE DEF old, new, S, r
  <2> QED BY <1>1, <1>2, <2>1
<1>5. \A a \in References : Fixup(a).library # NoRva /\ Fixup(a).descriptor[4] = a
                            /\ Import(Fixup(a), a) = Import(module.exports[Candidate(a)], a)
  <2> TAKE a \in References
  <2>1. Candidate(a) \in DOMAIN module.exports /\ module \in Modules
    BY DEF References, ImageInv, StreamOK
  <2>2. module.exports[Candidate(a)].library # NoRva
    BY <2>1, ImageAssumption
  <2> QED BY <2>2 DEF Fixup, ByName, ByOrdinal, Descriptor, Import
<1>6. \A i \in n + 1 .. Len(libs) : i - n \in 1 .. r /\ i = n + (i - n)
  <2> HIDE DEF old, new, libs, r
  <2> QED BY <1>1, <1>2, <1>4
<1>7. {Nth(References, i) : i \in 1 .. r} = References
  BY ReferencesAre, AllInOrder
<1> HIDE DEF old, r, libs, n
<1>8. \A i \in 1 .. r : n + i \in n + 1 .. Len(libs) /\ libs[n + i] = Fixup(Nth(References, i))
                        /\ Nth(References, i) \in References
  BY <1>1, <1>2, <1>4, <1>7
<1>9. \A i \in n + 1 .. Len(libs) : \E a \in References : libs[i] = Fixup(a)
  <2> TAKE i \in n + 1 .. Len(libs)
  <2>1. i - n \in 1 .. r /\ i = n + (i - n)
    BY <1>6
  <2> QED BY <1>8, <2>1
<1>10. \A a \in References : \E i \in n + 1 .. Len(libs) : libs[i] = Fixup(a)
  BY <1>7, <1>8
<1>11. {Import(libs[i], libs[i].descriptor[4]) : i \in n + 1 .. Len(libs)}
       = {Import(module.exports[Candidate(a)], a) : a \in References}
  <2>1. \A i \in n + 1 .. Len(libs) : \E a \in References :
           Import(libs[i], libs[i].descriptor[4]) = Import(module.exports[Candidate(a)], a)
    BY <1>5, <1>9
  <2>2. \A a \in References : \E i \in n + 1 .. Len(libs) :
           Import(libs[i], libs[i].descriptor[4]) = Import(module.exports[Candidate(a)], a)
    BY <1>5, <1>10
  <2> QED BY <2>1, <2>2
<1>12. {Import(module.exports[Candidate(a)], a) : a \in References}
       = WantedOf(pe.image, pe.bits, module)
  BY ReferencesAre DEF WantedOf
<1>13. \A i \in 1 .. n : /\ libs[i] = old[i] /\ libs[i].descriptor # Zero
                         /\ libs[i] = OldLibrary(libs[i].descriptor)
  BY <1>1, <1>4 DEF OldLibrary
<1>14. \A i \in n + 1 .. Len(libs) : HasThunk(libs[i])
  BY <1>5, <1>9 DEF HasThunk
<1>15. Len(libs) \in Nat /\ n <= Len(libs) /\ DOMAIN libs = 1 .. Len(libs)
  BY <1>1, <1>2, <1>4
<1> QED BY <1>1, <1>3, <1>11, <1>12, <1>13, <1>14, <1>15 DEF Lists, old, n

\* The libraries from the k-th on need what the k-th needs, and what those behind it need.
LEMMA RestSteps ==
  ASSUME NEW libs, NEW n \in Nat, DOMAIN libs = 1 .. n, NEW k \in 1 .. n
  PROVE  /\ Rest(libs, k + 1) \in Nat
         /\ Rest(libs, k) = Rest(libs, k + 1) +
               (IF libs[k].name # NoRva THEN 1 ELSE 0) + (IF HasThunk(libs[k]) THEN 5 ELSE 0)
<1>1. ASSUME NEW A \in SUBSET (1 .. n)
      PROVE  LET B == {i \in A : i >= k + 1}
             IN  /\ Cardinality(B) \in Nat
                 /\ Cardinality({i \in A : i >= k}) = Cardinality(B) + (IF k \in A THEN 1 ELSE 0)
  <2> DEFINE B == {i \in A : i >= k + 1}
  <2>1. IsFiniteSet(B) /\ Cardinality(B) \in Nat
    <3>1. IsFiniteSet(1 .. n) /\ B \in SUBSET (1 .. n)
      <4>1. 1 \in Int /\ n \in Int
        OBVIOUS
      <4> QED BY <4>1, FS_Interval
    <3> HIDE DEF B
    <3> QED BY <3>1, FS_Subset, FS_CardinalityType
  <2>2. k \notin B
    OBVIOUS
  <2>3. \A i \in A : i >= k <=> (i >= k + 1 \/ i = k)
    OBVIOUS
  <2> DEFINE C == {i \in A : i >= k}
  <2>4. (k \in A => C = B \cup {k}) /\ (k \notin A => C = B)
    BY <2>3
  <2> HIDE DEF B, C
  <2>5. Cardinality(B \cup {k}) = Cardinality(B) + 1
    BY <2>1, <2>2, FS_AddElement
  <2>6. Cardinality(C) = Cardinality(B) + (IF k \in A THEN 1 ELSE 0)
    <3>1. CASE k \in A
      BY <2>4, <2>5, <3>1
    <3>2. CASE k \notin A
      BY <2>1, <2>4, <3>2
    <3> QED BY <3>1, <3>2
  <2> QED BY <2>1, <2>6 DEF B, C
<1>2. Named(libs) \in SUBSET (1 .. n) /\ Added(libs) \in SUBSET (1 .. n)
  BY DEF Named, Added
<1>3. (k \in Named(libs) <=> libs[k].name # NoRva) /\ (k \in Added(libs) <=> HasThunk(libs[k]))
  BY DEF Named, Added
<1> DEFINE N(j) == Cardinality({i \in Named(libs) : i >= j})
           M(j) == Cardinality({i \in Added(libs) : i >= j})
<1>4. /\ N(k + 1) \in Nat /\ N(k) = N(k + 1) + (IF libs[k].name # NoRva THEN 1 ELSE 0)
      /\ M(k + 1) \in Nat /\ M(k) = M(k + 1) + (IF HasThunk(libs[k]) THEN 1 ELSE 0)
  BY <1>1, <1>2, <1>3
<1>5. \A j : Rest(libs, j) = 1 * N(j) + (4 + 1) * M(j)
  BY Zenon DEF Rest, ImportNameCells, ThunkCells, LibraryNameCells
<1> HIDE DEF N, M
<1>6. Rest(libs, k) = N(k) + 5 * M(k) /\ Rest(libs, k + 1) = N(k + 1) + 5 * M(k + 1)
  <2>1. N(k) \in Nat /\ M(k) \in Nat
    BY <1>4
  <2> QED BY <1>4, <1>5, <2>1
<1> QED BY <1>4, <1>6

\* In the beginning everything is left.
LEMMA RestOfAll ==
  ASSUME NEW libs, NEW n \in Nat, DOMAIN libs = 1 .. n
  PROVE  Rest(libs, 1) = DataSize(libs) /\ Rest(libs, 1) \in Nat
<1>1. {i \in Named(libs) : i >= 1} = Named(libs) /\ {i \in Added(libs) : i >= 1} = Added(libs)
  BY DEF Named, Added
<1>2. Cardinality(Named(libs)) \in Nat /\ Cardinality(Added(libs)) \in Nat
  <2>1. IsFiniteSet(1 .. n) /\ Named(libs) \in SUBSET (1 .. n) /\ Added(libs) \in SUBSET (1 .. n)
    BY FS_Interval DEF Named, Added
  <2> QED BY <2>1, FS_Subset, FS_CardinalityType
<1>3. Rest(libs, 1) = DataSize(libs)
  BY <1>1 DEF Rest, DataSize
<1> QED BY <1>2, <1>3 DEF DataSize, ImportNameCells, ThunkCells, LibraryNameCells

\* A library stays placed if what it takes up is left alone.
LEMMA PlacedKept ==
  ASSUME NEW image, NEW other, NEW start \in Nat, NEW rva, NEW libs, Len(libs) \in Nat,
         NEW i \in 1 .. Len(libs), NEW upto \in Int, NEW next \in Int, upto <= next,
         Placed(image, start, rva, libs, i, upto), other[start + i - 1] = image[start + i - 1],
         \A y \in Nat : Len(libs) < y /\ y < upto => other[start + y] = image[start + y]
  PROVE  Placed(other, start, rva, libs, i, next)
<1> DEFINE l == libs[i]
           n == Len(libs)
<1>1. CASE ~HasThunk(l)
  BY <1>1 DEF Placed
<1>2. CASE HasThunk(l)
  <2>1. PICK x \in Nat : LET thunk == x + NameCells(l) IN
           /\ n < x /\ thunk + ThunkCells + LibraryNameCells <= upto
           /\ image[start + i - 1] =
                 Descriptor(thunk + rva, thunk + ThunkCells + rva, l.descriptor[4])
           /\ l.name # NoRva => image[start + x] = <<"import", l.name>>
           /\ image[start + thunk] = ThunkOf(l, x + rva)
           /\ image[start + thunk + ThunkCells] = <<"library", l.library>>
    BY <1>2, Zenon DEF Placed
  <2> DEFINE thunk == x + NameCells(l)
  <2>2. /\ thunk \in Nat /\ (l.name # NoRva => thunk = x + 1) /\ x <= thunk
        /\ n < x /\ thunk + ThunkCells + LibraryNameCells <= upto
        /\ ThunkCells = 4 /\ LibraryNameCells = 1 /\ n \in Nat
    BY <2>1 DEF NameCells, ImportNameCells, ThunkCells, LibraryNameCells
  <2> HIDE DEF thunk, n
  <2>3. l.name # NoRva => other[start + x] = image[start + x]
    BY <2>2 DEF n
  <2>4. other[start + thunk] = image[start + thunk]
    <3>1. thunk \in Nat /\ n < thunk /\ thunk < upto
      BY <2>2
    <3> QED BY <3>1 DEF n
  <2>5. other[start + thunk + ThunkCells] = image[start + thunk + ThunkCells]
    <3>1. thunk + 4 \in Nat /\ n < thunk + 4 /\ thunk + 4 < upto
          /\ start + thunk + ThunkCells = start + (thunk + 4)
      BY <2>2
    <3> QED BY <3>1 DEF n
  <2>6. thunk + ThunkCells + LibraryNameCells <= next
    BY <2>2
  <2> QED BY <1>2, <2>1, <2>2, <2>3, <2>4, <2>5, <2>6, Zenon DEF Placed, thunk, n
<1> QED BY <1>1, <1>2

\* The table so far: its cells, and how far its descriptors and what they refer to have got.
SoFar(cells, at, extra) == [cells |-> cells, at |-> at, extra |-> extra]

\* What a library adds to it: a descriptor alone, or a thunk and names too.
OldWritten(r, c, at, extra, start, size, l) ==
    /\ r.at = at + 1 /\ r.extra = extra /\ r.cells[start + at] = l.descriptor
    /\ \A y \in Nat : y # at /\ y < size => r.cells[start + y] = c[start + y]
NewWritten(r, c, at, extra, start, rva, thunk, l) ==
    /\ r.at = at + 1 /\ r.extra = thunk + 5
    /\ r.cells[start + at] = Descriptor(thunk + rva, thunk + 4 + rva, l.descriptor[4])
    /\ l.name # NoRva => r.cells[start + extra] = <<"import", l.name>>
    /\ r.cells[start + thunk] = ThunkOf(l, extra + rva)
    /\ r.cells[start + (thunk + 4)] = <<"library", l.library>>
    /\ \A y \in Nat : y # at /\ y < extra => r.cells[start + y] = c[start + y]

\* Fields of the table being built are changed.
LEMMA DescriptorChanged ==
  ASSUME NEW t, DOMAIN t = {"cells", "at", "extra"}, NEW x, NEW v,
         NEW u, u = [t EXCEPT !.cells[x] = v, !.at = @ + 1]
  PROVE  u.cells = [t.cells EXCEPT ![x] = v] /\ u.at = t.at + 1 /\ u.extra = t.extra
  OBVIOUS

\* The fields are as they were but for those that are changed.
LEMMA TableChanged ==
  ASSUME NEW t, DOMAIN t = {"cells", "at", "extra"}, NEW d, NEW e, NEW x, NEW y, NEW v, NEW w
  PROVE  /\ LET u == [t EXCEPT !.cells = d, !.extra = e]
            IN  DOMAIN u = DOMAIN t /\ u.cells = d /\ u.at = t.at /\ u.extra = e
         /\ LET u == [t EXCEPT !.cells[x] = v, !.extra = e]
            IN  /\ DOMAIN u = DOMAIN t /\ u.cells = [t.cells EXCEPT ![x] = v]
                /\ u.at = t.at /\ u.extra = e
         /\ LET u == [t EXCEPT !.cells[x] = v, !.cells[y] = w, !.extra = e, !.at = @ + 1]
            IN  /\ u.cells = [[t.cells EXCEPT ![x] = v] EXCEPT ![y] = w]
                /\ u.at = t.at + 1 /\ u.extra = e
<1>1. ASSUME NEW u, u = [t EXCEPT !.cells = d, !.extra = e]
      PROVE  DOMAIN u = DOMAIN t /\ u.cells = d /\ u.at = t.at /\ u.extra = e
  BY <1>1
<1>2. ASSUME NEW u, u = [t EXCEPT !.cells[x] = v, !.extra = e]
      PROVE  /\ DOMAIN u = DOMAIN t /\ u.cells = [t.cells EXCEPT ![x] = v]
             /\ u.at = t.at /\ u.extra = e
  BY <1>2
<1>3. ASSUME NEW u, u = [t EXCEPT !.cells[x] = v, !.cells[y] = w, !.extra = e, !.at = @ + 1]
      PROVE  /\ u.cells = [[t.cells EXCEPT ![x] = v] EXCEPT ![y] = w]
             /\ u.at = t.at + 1 /\ u.extra = e
  BY <1>3
<1> QED BY <1>1, <1>2, <1>3, Zenon

\* A cell is written.
LEMMA CellWritten ==
  ASSUME NEW c, NEW a \in DOMAIN c, NEW v, NEW d, d = [c EXCEPT ![a] = v]
  PROVE  DOMAIN d = DOMAIN c /\ d[a] = v /\ \A b \in DOMAIN c : b # a => d[b] = c[b]
  OBVIOUS

\* A library is built: the descriptor it had, ...
LEMMA OldBuilt ==
  ASSUME NEW c, NEW at \in Nat, NEW extra \in Nat, NEW start \in Nat, NEW size \in Int,
         NEW rva, NEW l, ~HasThunk(l), at < size, DOMAIN c = 0 .. start + size - 1,
         NEW r, r = BuildLibrary(SoFar(c, at, extra), start, size, rva, l)
  PROVE  OldWritten(r, c, at, extra, start, size, l)
<1> DEFINE t == SoFar(c, at, extra)
<1>1. /\ DOMAIN t = {"cells", "at", "extra"} /\ t.cells = c /\ t.at = at /\ t.extra = extra
      /\ r = BuildLibrary(t, start, size, rva, l)
  BY DEF SoFar
<1> HIDE DEF t
<1>2. Inside(size, t.at, DescriptorCells)
  BY <1>1 DEF Inside, DescriptorCells
<1>3. r = [t EXCEPT !.cells[start + t.at] = l.descriptor, !.at = @ + 1]
  BY <1>1, <1>2, Zenon DEF BuildLibrary, DescriptorCells
<1>4. r.cells = [c EXCEPT ![start + at] = l.descriptor] /\ r.at = at + 1 /\ r.extra = extra
  <2> DEFINE x == start + t.at
             v == l.descriptor
  <2> HIDE DEF x, v
  <2>1. r = [t EXCEPT !.cells[x] = v, !.at = @ + 1]
    BY <1>3, Zenon DEF x, v
  <2>2. r.cells = [t.cells EXCEPT ![x] = v] /\ r.at = t.at + 1 /\ r.extra = t.extra
    BY <1>1, <2>1, DescriptorChanged
  <2> QED BY <1>1, <2>2 DEF x, v
<1>5. start + at \in DOMAIN c
  OBVIOUS
<1>6. r.cells[start + at] = l.descriptor
      /\ \A b \in DOMAIN c : b # start + at => r.cells[b] = c[b]
  BY <1>4, <1>5, CellWritten
<1>7. \A y \in Nat : y # at /\ y < size => start + y # start + at /\ start + y \in DOMAIN c
  OBVIOUS
<1> QED BY <1>4, <1>6, <1>7 DEF OldWritten

\* ... or a new one and what it refers to.
LEMMA NewBuilt ==
  ASSUME NEW c, NEW at \in Nat, NEW extra \in Nat, NEW start \in Nat, NEW size \in Int,
         NEW rva, NEW l, HasThunk(l), at < extra, DOMAIN c = 0 .. start + size - 1,
         NEW thunk, thunk = extra + NameCells(l), thunk + 5 <= size,
         NEW r, r = BuildLibrary(SoFar(c, at, extra), start, size, rva, l)
  PROVE  NewWritten(r, c, at, extra, start, rva, thunk, l)
<1>1. /\ thunk \in Nat /\ extra <= thunk /\ (l.name # NoRva => extra < thunk)
      /\ NameCells(l) \in {0, 1}
  BY DEF NameCells, ImportNameCells
<1> DEFINE d == Descriptor(thunk + rva, thunk + 4 + rva, l.descriptor[4])
           library == <<"library", l.library>>
           c1 == IF l.name # NoRva THEN [c EXCEPT ![start + extra] = <<"import", l.name>>] ELSE c
           c2 == [c1 EXCEPT ![start + thunk] = ThunkOf(l, extra + rva)]
           c3 == [c2 EXCEPT ![start + (thunk + 4)] = library]
           c4 == [c3 EXCEPT ![start + at] = d]
           t == SoFar(c, at, extra)
           first == IF l.name # NoRva
                    THEN [t.cells EXCEPT ![start + t.extra] = <<"import", l.name>>] ELSE t.cells
           named == [t EXCEPT !.cells = first, !.extra = thunk]
           full == [named EXCEPT !.cells[start + thunk] = ThunkOf(l, t.extra + rva),
                                 !.extra = thunk + 4]
           last == [full EXCEPT !.cells[start + (thunk + 4)] = library, !.cells[start + t.at] = d,
                                !.extra = thunk + 4 + 1, !.at = @ + 1]
<1>2. /\ DOMAIN t = {"cells", "at", "extra"} /\ t.cells = c /\ t.at = at /\ t.extra = extra
      /\ r = BuildLibrary(t, start, size, rva, l)
  BY DEF SoFar
<1> HIDE DEF t
<1>3. r.cells = c4 /\ r.at = at + 1 /\ r.extra = thunk + 5
  <2>1. /\ Inside(size, t.extra, NameCells(l)) /\ Inside(size, thunk, ThunkCells)
        /\ Inside(size, t.at, DescriptorCells) /\ Inside(size, thunk + 4, LibraryNameCells)
        /\ thunk = t.extra + NameCells(l)
    BY <1>1, <1>2 DEF Inside, DescriptorCells, ThunkCells, LibraryNameCells
  <2>2. r = last
    <3>1. BuildLibrary(t, start, size, rva, l) = last
      BY <2>1, Zenon DEF BuildLibrary, ThunkCells, DescriptorCells, LibraryNameCells
    <3> QED BY <1>2, <3>1
  <2>3. first = c1
    BY <1>2
  <2> HIDE DEF first, c1
  <2>4. /\ DOMAIN named = {"cells", "at", "extra"} /\ named.cells = c1
        /\ named.at = at
    BY <1>2, <2>3, TableChanged
  <2> HIDE DEF named
  <2>5. /\ DOMAIN full = {"cells", "at", "extra"} /\ full.cells = c2 /\ full.at = at
    BY <1>2, <2>4, TableChanged
  <2> HIDE DEF full, c2, d, library
  <2>6. last.cells = c4 /\ last.at = at + 1 /\ last.extra = thunk + 4 + 1
    BY <1>2, <2>5, TableChanged
  <2> HIDE DEF last, c4
  <2> QED BY <1>1, <2>2, <2>6
<1> HIDE DEF last, full, named, first, d, library
<1>4. /\ start + extra \in DOMAIN c /\ start + thunk \in DOMAIN c
      /\ start + (thunk + 4) \in DOMAIN c /\ start + at \in DOMAIN c
  BY <1>1
<1>5. /\ start + at # start + extra /\ start + at # start + thunk
      /\ start + at # start + (thunk + 4) /\ start + thunk # start + (thunk + 4)
      /\ start + extra # start + (thunk + 4)
      /\ l.name # NoRva => start + extra # start + thunk
  BY <1>1
<1>6. DOMAIN c1 = DOMAIN c /\ (l.name # NoRva => c1[start + extra] = <<"import", l.name>>)
      /\ \A a \in DOMAIN c : a # start + extra => c1[a] = c[a]
  BY <1>4, CellWritten
<1> HIDE DEF c1
<1>7. DOMAIN c2 = DOMAIN c /\ c2[start + thunk] = ThunkOf(l, extra + rva)
      /\ \A a \in DOMAIN c : a # start + thunk => c2[a] = c1[a]
  BY <1>4, <1>6, CellWritten
<1> HIDE DEF c2
<1>8. DOMAIN c3 = DOMAIN c /\ c3[start + (thunk + 4)] = library
      /\ \A a \in DOMAIN c : a # start + (thunk + 4) => c3[a] = c2[a]
  BY <1>4, <1>7, CellWritten
<1> HIDE DEF c3
<1>9. c4[start + at] = d /\ \A a \in DOMAIN c : a # start + at => c4[a] = c3[a]
  BY <1>4, <1>8, CellWritten
<1> HIDE DEF c4
<1>10. ASSUME NEW y \in Nat, y # at, y < extra PROVE c4[start + y] = c[start + y]
  <2>1. start + y # start + at /\ start + y # start + extra /\ start + y # start + thunk
        /\ start + y # start + (thunk + 4) /\ start + y \in DOMAIN c
    BY <1>1, <1>10
  <2> QED BY <1>6, <1>7, <1>8, <1>9, <2>1
<1>11. l.name # NoRva => c4[start + extra] = <<"import", l.name>>
  BY <1>4, <1>5, <1>6, <1>7, <1>8, <1>9
<1>12. c4[start + thunk] = ThunkOf(l, extra + rva)
       /\ c4[start + (thunk + 4)] = library
  BY <1>4, <1>5, <1>7, <1>8, <1>9
<1> QED BY <1>1, <1>3, <1>9, <1>10, <1>11, <1>12 DEF d, library, NewWritten

\* The room for a library and those behind it, once it has been used for that library.
LEMMA RoomFor ==
  ASSUME NEW extra \in Nat, NEW cells \in Nat, NEW left \in Nat, NEW size \in Nat, NEW n \in Nat,
         extra > n, extra + (left + cells + 5) <= size
  PROVE  LET thunk == extra + cells
         IN  /\ thunk + 5 <= size /\ extra <= thunk + 5 /\ (thunk + 5) + left <= size
             /\ thunk + 5 \in Nat /\ thunk + 5 > n
  OBVIOUS

\* The table so far holds the first libraries, and has room for those that are left.
HoldsFirst(r, k, n, libs, start, rva, left, size) ==
    /\ r.at = k /\ r.extra \in Nat /\ r.extra > n /\ r.extra + left <= size
    /\ r.cells[start + n] = Zero
    /\ \A i \in 1 .. k : Placed(r.cells, start, rva, libs, i, r.extra)

\* With room for all the libraries that are left, there is room for the next one, and then
\* for those that are left.
LEMMA LibraryAdded ==
  ASSUME NEW c, NEW start \in Nat, NEW size \in Nat, DOMAIN c = 0 .. start + size - 1,
         NEW rva, NEW libs, NEW n \in Nat, n = Len(libs), NEW k \in 1 .. n,
         NEW extra \in Nat, extra > n, c[start + n] = Zero,
         \A i \in 1 .. k - 1 : Placed(c, start, rva, libs, i, extra),
         NEW l, l = libs[k], NEW left \in Nat, extra + left <= size,
         HasThunk(l) => extra + NameCells(l) + 5 + left <= size,
         NEW r, r = BuildLibrary(SoFar(c, k - 1, extra), start, size, rva, l)
  PROVE  HoldsFirst(r, k, n, libs, start, rva, left, size)
<1>1. NameCells(l) \in {0, 1}
  BY DEF NameCells, ImportNameCells
<1> DEFINE thunk == extra + NameCells(l)
<1>2. thunk \in Nat /\ k - 1 \in Nat /\ k - 1 < n /\ k - 1 < extra /\ start + k - 1 = start + (k - 1)
  BY <1>1
\* The others stay as they are.
<1>4. ASSUME NEW cells, NEW next \in Nat, extra <= next,
             \A y \in Nat : y # k - 1 /\ y < extra => cells[start + y] = c[start + y]
      PROVE  /\ cells[start + n] = Zero
             /\ \A i \in 1 .. k - 1 : Placed(cells, start, rva, libs, i, next)
  <2>1. n # k - 1
    BY <1>2
  <2>2. cells[start + n] = Zero
    BY <1>4, <2>1
  <2>3. ASSUME NEW i \in 1 .. k - 1 PROVE Placed(cells, start, rva, libs, i, next)
    <3>1. i \in 1 .. Len(libs) /\ Placed(c, start, rva, libs, i, extra) /\ Len(libs) \in Nat
      BY <1>2
    <3>2. i - 1 \in Nat /\ i - 1 # k - 1 /\ i - 1 < extra /\ start + i - 1 = start + (i - 1)
      BY <1>2
    <3>3. cells[start + i - 1] = c[start + i - 1]
      BY <1>4, <3>2
    <3>4. \A y \in Nat : Len(libs) < y /\ y < extra => cells[start + y] = c[start + y]
      <4> TAKE y \in Nat
      <4>1. n < y => y # k - 1
        BY <1>2
      <4> QED BY <1>4, <4>1
    <3>5. extra \in Int /\ next \in Int
      BY <1>4
    <3> QED BY <1>4, <3>1, <3>3, <3>4, <3>5, PlacedKept
  <2> QED BY <2>2, <2>3
<1>5. CASE ~HasThunk(l)
  <2>1. k - 1 < size /\ extra <= size /\ extra + left <= size
    BY <1>2
  <2>2. /\ r.at = k - 1 + 1 /\ r.extra = extra /\ r.cells[start + (k - 1)] = l.descriptor
        /\ \A y \in Nat : y # k - 1 /\ y < size => r.cells[start + y] = c[start + y]
    <3> DEFINE p == k - 1
    <3>1. size \in Int /\ p \in Nat /\ p < size
      BY <1>2, <2>1
    <3>2. r = BuildLibrary(SoFar(c, p, extra), start, size, rva, l)
      OBVIOUS
    <3> HIDE DEF p
    <3>3. OldWritten(r, c, p, extra, start, size, l)
      BY <1>5, <3>1, <3>2, OldBuilt
    <3> QED BY <3>3 DEF p, OldWritten
  <2>4. \A y \in Nat : y # k - 1 /\ y < extra => r.cells[start + y] = c[start + y]
    <3> TAKE y \in Nat
    <3>1. y < extra => y < size
      BY <2>1
    <3> QED BY <2>2, <3>1
  <2>5. /\ r.cells[start + n] = Zero
        /\ \A i \in 1 .. k - 1 : Placed(r.cells, start, rva, libs, i, extra)
    <3>1. extra <= extra
      OBVIOUS
    <3> QED BY <1>4, <2>4, <3>1
  <2>6. Placed(r.cells, start, rva, libs, k, extra)
    BY <1>2, <1>5, <2>2 DEF Placed
  <2>8. r.at = k /\ r.extra = extra
    BY <2>2
  <2>9. \A i \in 1 .. k : i \in 1 .. k - 1 \/ i = k
    OBVIOUS
  <2> QED BY <1>2, <2>1, <2>5, <2>6, <2>8, <2>9 DEF HoldsFirst
<1>6. CASE HasThunk(l)
  <2>1. thunk + 5 <= size /\ extra <= thunk + 5 /\ (thunk + 5) + left <= size
        /\ thunk + 5 \in Nat /\ thunk + 5 > n
    <3> DEFINE cells == NameCells(l)
    <3>1. cells \in Nat /\ extra + cells + 5 + left <= size /\ thunk = extra + cells
      BY <1>1, <1>6
    <3> HIDE DEF cells, thunk
    <3>2. extra + (left + cells + 5) <= size
      BY <3>1
    <3> QED BY <3>1, <3>2, RoomFor
  <2>0. thunk = extra + NameCells(l)
    OBVIOUS
  <2> HIDE DEF thunk
  <2>2. /\ r.at = k - 1 + 1 /\ r.extra = thunk + 5
        /\ r.cells[start + (k - 1)] = Descriptor(thunk + rva, thunk + 4 + rva, l.descriptor[4])
        /\ l.name # NoRva => r.cells[start + extra] = <<"import", l.name>>
        /\ r.cells[start + thunk] = ThunkOf(l, extra + rva)
        /\ r.cells[start + (thunk + 4)] = <<"library", l.library>>
        /\ \A y \in Nat : y # k - 1 /\ y < extra => r.cells[start + y] = c[start + y]
    <3> DEFINE p == k - 1
    <3>1. size \in Int /\ p \in Nat /\ p < extra
      BY <1>2
    <3>2. r = BuildLibrary(SoFar(c, p, extra), start, size, rva, l)
      OBVIOUS
    <3> HIDE DEF p
    <3>3. NewWritten(r, c, p, extra, start, rva, thunk, l)
      BY <1>6, <2>0, <2>1, <3>1, <3>2, NewBuilt
    <3> QED BY <3>3 DEF p, NewWritten
  <2>3. /\ r.cells[start + n] = Zero
        /\ \A i \in 1 .. k - 1 : Placed(r.cells, start, rva, libs, i, thunk + 5)
    BY <1>4, <2>1, <2>2
  <2>4. Placed(r.cells, start, rva, libs, k, thunk + 5)
    <3>1. thunk = extra + NameCells(l) /\ Len(libs) < extra
          /\ thunk + ThunkCells + LibraryNameCells <= thunk + 5
          /\ ThunkCells = 4 /\ start + thunk + 4 = start + (thunk + 4)
      BY <1>2, <2>0 DEF ThunkCells, LibraryNameCells
    <3>2. r.cells[start + k - 1] = Descriptor(thunk + rva, thunk + ThunkCells + rva, l.descriptor[4])
          /\ r.cells[start + thunk + ThunkCells] = <<"library", l.library>>
      BY <1>2, <2>2, <3>1
    <3> QED BY <1>6, <2>2, <3>1, <3>2, Zenon DEF Placed
  <2>5. r.at = k
    BY <2>2
  <2>6. \A i \in 1 .. k : i \in 1 .. k - 1 \/ i = k
    OBVIOUS
  <2> QED BY <2>1, <2>2, <2>3, <2>4, <2>5, <2>6 DEF HoldsFirst
<1> QED BY <1>5, <1>6

-----------------------------------------------------------------------------
(* The table is there from the time it is built.                           *)

\* The header of an image that grows keeps what is not said of its last section.
LEMMA GrowsInPlace ==
  ASSUME NEW h \in Header, NEW by
  PROVE  /\ GrowLast(h, by).sa = h.sa /\ GrowLast(h, by).bits = h.bits
         /\ GrowLast(h, by).imp = h.imp
<1>1. CASE h.n = 0
  <2>1. PICK iat : GrowLast(h, by) = [h EXCEPT !.iat = iat]
    BY <1>1 DEF GrowLast
  <2> QED BY <2>1 DEF Header
<1>2. CASE h.n # 0
  <2>1. PICK secs : GrowLast(h, by) = [h EXCEPT !.secs = secs]
    BY <1>2 DEF GrowLast
  <2> QED BY <2>1 DEF Header
<1> QED BY <1>1, <1>2

\* A step in front of the layout keeps the width.
LEMMA BitsKept ==
  ASSUME ImageInv, pc \in WithHeader,
         \/ BuildSection \/ EndBuild \/ ParseSections \/ LoadSections \/ ImportDirectory \/ TakeHash
         \/ EntryPoint \/ RebuildImports \/ AddLibrary \/ EndTable
  PROVE  pe'.bits = pe.bits /\ pe'.hdr.bits = pe.hdr.bits
<1>1. pe.hdr \in Header /\ DOMAIN pe = DOMAIN NewPe
  BY DEF ImageInv, HeaderOK
<1>2. CASE BuildSection
  <2>1. PICK secs : pe' = [pe EXCEPT !.hdr = [pe.hdr EXCEPT !.secs = secs]]
    BY <1>2 DEF BuildSection
  <2> QED BY <1>1, <2>1 DEF NewPe, Header
<1>3. CASE EndBuild
  <2>1. pe' = [pe EXCEPT !.hdr = WithSizes(pe.hdr, loop.i, loop.at % DW)]
    BY <1>1, <1>3 DEF EndBuild, WithSizes, NewPe
  <2> QED BY <1>1, <2>1 DEF NewPe, Header, WithSizes
<1>4. CASE ParseSections
  <2>1. CountSections
    BY <1>4 DEF ParseSections, CountSections32, CountSections64
  <2>2. \/ \E m, secs : pe' = [pe EXCEPT !.sections = TRUE,
                                 !.hdr = [[pe.hdr EXCEPT !.n = m] EXCEPT !.secs = secs]]
        \/ \E n : pe' = [pe EXCEPT !.hdr = [pe.hdr EXCEPT !.n = n]]
    BY <2>1 DEF CountSections
  <2>3. CASE \E m, secs : pe' = [pe EXCEPT !.sections = TRUE,
                                   !.hdr = [[pe.hdr EXCEPT !.n = m] EXCEPT !.secs = secs]]
    <3>1. PICK m, secs : pe' = [pe EXCEPT !.sections = TRUE,
                                  !.hdr = [[pe.hdr EXCEPT !.n = m] EXCEPT !.secs = secs]]
      BY <2>3
    <3> QED BY <1>1, <3>1 DEF NewPe, Header
  <2>4. CASE \E n : pe' = [pe EXCEPT !.hdr = [pe.hdr EXCEPT !.n = n]]
    <3>1. PICK n : pe' = [pe EXCEPT !.hdr = [pe.hdr EXCEPT !.n = n]]
      BY <2>4
    <3> QED BY <1>1, <3>1 DEF NewPe, Header
  <2> QED BY <2>2, <2>3, <2>4
<1>5. CASE LoadSections
  <2>1. PICK image : pe' = [pe EXCEPT !.image = image]
    BY <1>5 DEF LoadSections, LoadImage32, LoadImage64, LoadImage
  <2> QED BY <1>1, <2>1 DEF NewPe
<1>6. CASE ImportDirectory
  <2>1. pe' = pe \/ pe' = [pe EXCEPT !.image = Restored, !.desc = pe.hdr.imp]
    BY <1>6, Zenon DEF ImportDirectory, RestoreThunks32, RestoreThunks64, RestoreThunks
  <2> QED BY <1>1, <2>1 DEF NewPe
<1>7. CASE TakeHash
  <2>1. \E hash, ep : pe' = [pe EXCEPT !.hash = hash, !.epHash = ep]
    BY <1>7 DEF TakeHash
  <2> QED BY <1>1, <2>1 DEF NewPe
<1>8. CASE EntryPoint
  <2>1. PICK ep : pe' = [pe EXCEPT !.hdr = [pe.hdr EXCEPT !.ep = ep]]
    BY <1>8 DEF EntryPoint, RebuildEntryPoint32, RebuildEntryPoint64, RebuildEntryPoint
  <2> QED BY <1>1, <2>1 DEF NewPe, Header
<1>9. CASE RebuildImports
  <2>1. pe' = pe \/ \E by : pe' = [pe EXCEPT !.hdr = GrowLast(pe.hdr, by)]
    BY <1>9 DEF RebuildImports, ImportTable32, ImportTable64, TableStep, MakeRoom, KeepImports
  <2>2. \A by : GrowLast(pe.hdr, by).bits = pe.hdr.bits
    BY <1>1, GrowsInPlace
  <2> QED BY <1>1, <2>1, <2>2 DEF NewPe
<1>10. CASE AddLibrary
  BY <1>10 DEF AddLibrary
<1>11. CASE EndTable
  <2>1. PICK imp : pe' = [pe EXCEPT !.hdr = [pe.hdr EXCEPT !.imp = imp]]
    BY <1>11 DEF EndTable
  <2> QED BY <1>1, <2>1 DEF NewPe, Header
<1> QED BY <1>2, <1>3, <1>4, <1>5, <1>6, <1>7, <1>8, <1>9, <1>10, <1>11

\* The steps from the layout to the file.
LEMMA LayoutFrame ==
  ASSUME ImageInv, LayOutHeaders \/ PlaceSection \/ EndLayout
  PROVE  /\ pc \in {"layout", "place"} /\ pc' \in {"place", "copy"} /\ UNCHANGED <<larger, dumped>>
         /\ pe'.bits = pe.bits /\ pe'.image = pe.image /\ pe'.desc = pe.desc
         /\ pe'.hdr.bits = pe.hdr.bits /\ pe'.hdr.sa = pe.hdr.sa /\ pe'.hdr.imp = pe.hdr.imp
<1>1. DOMAIN pe = DOMAIN NewPe
  BY DEF ImageInv, HeaderOK
<1>2. CASE LayOutHeaders
  <2>1. pc = "layout" /\ pc' = "place" /\ UNCHANGED <<larger, dumped>> /\ Layout
    BY <1>2 DEF LayOutHeaders, Layout32, Layout64, done
  <2>2. pe.hdr \in Header
    BY <2>1 DEF ImageInv, HeaderOK, WithHeader
  <2>3. pe' = [pe EXCEPT !.hdr = WithPlace(pe.hdr, NewBase, Headers(pe.hdr) % DW)]
    BY <1>1, <2>1 DEF Layout, NewPe, WithPlace
  <2> QED BY <1>1, <2>1, <2>2, <2>3 DEF NewPe, Header, WithPlace
<1>3. CASE PlaceSection
  <2>1. pc = "place" /\ pc' = "place" /\ UNCHANGED <<larger, dumped>> /\ PlaceOne
    BY <1>3 DEF PlaceSection, PlaceOne32, PlaceOne64, done
  <2>2. pe.hdr \in Header
    BY <2>1 DEF ImageInv, HeaderOK, WithHeader
  <2>3. PICK secs : pe' = [pe EXCEPT !.hdr = [pe.hdr EXCEPT !.secs = secs]]
    BY <2>1 DEF PlaceOne
  <2> QED BY <1>1, <2>1, <2>2, <2>3 DEF NewPe, Header
<1>4. CASE EndLayout
  <2>1. /\ pc = "place" /\ pc' = "copy" /\ UNCHANGED <<larger, dumped>>
        /\ pe' = [pe EXCEPT !.hdr = [pe.hdr EXCEPT !.soi = loop.at]]
    BY <1>4 DEF EndLayout, done
  <2>2. pe.hdr \in Header
    BY <2>1 DEF ImageInv, HeaderOK, WithHeader
  <2> QED BY <1>1, <2>1, <2>2 DEF NewPe, Header
<1> QED BY <1>2, <1>3, <1>4

\* The steps behind the layout keep the header and the image.
LEMMA PackFrame ==
  ASSUME ImageInv, CopyHeader \/ PackSections
  PROVE  /\ UNCHANGED <<dumped>>
         /\ \/ CopyHeader /\ pc = "copy" /\ pc' = "pack"
            \/ PackSections /\ pc = "pack" /\ pc' = "write" /\ UNCHANGED larger
         /\ pe'.bits = pe.bits /\ pe'.image = pe.image /\ pe'.desc = pe.desc /\ pe'.hdr = pe.hdr
<1>1. CASE CopyHeader
  BY <1>1 DEF CopyHeader, done
<1>2. CASE PackSections
  <2>1. /\ pc = "pack" /\ pc' = "write" /\ UNCHANGED <<larger, dumped>>
        /\ pe' = [pe EXCEPT !.disk = DiskImage(pe.hdr.soi)]
    BY <1>2 DEF PackSections, Pack32, Pack64, Pack, done
  <2> QED BY <1>2, <2>1 DEF ImageInv, HeaderOK, NewPe
<1> QED BY <1>1, <1>2

\* The width of an image is that of its header.
LEMMA BitsStep == ASSUME ImageInv, BitsInv, [Next]_vars PROVE BitsInv'
<1>1. CASE ReadHeader
  <2> SUFFICES ASSUME pc' \in WithHeader PROVE pe'.bits = pe'.hdr.bits
    BY DEF BitsInv
  <2>1. PICK raw, hdr : pe' = [pe EXCEPT !.raw = raw, !.hdr = hdr, !.bits = hdr.bits]
    BY <1>1 DEF ReadHeader, WithHeader
  <2> QED BY <2>1 DEF ImageInv, HeaderOK, NewPe
<1>2. CASE BuildHeader
  <2> SUFFICES ASSUME pc' \in WithHeader PROVE pe'.bits = pe'.hdr.bits
    BY DEF BitsInv
  <2>1. PICK bits : pe' = [pe EXCEPT !.base = @ - HeaderCells, !.hdr = GeneratedHeader(bits),
                                     !.bits = bits, !.raw = Blank(HeaderCells)]
    BY <1>2 DEF BuildHeader, Build32, Build64, Build, WithHeader
  <2>2. pe'.hdr = GeneratedHeader(bits) /\ pe'.bits = bits
    BY <2>1 DEF ImageInv, HeaderOK, NewPe
  <2> QED BY <2>2 DEF GeneratedHeader
<1>3. ASSUME BuildSection \/ EndBuild \/ ParseSections \/ LoadSections \/ ImportDirectory
             \/ TakeHash \/ EntryPoint \/ RebuildImports \/ AddLibrary \/ EndTable
      PROVE  BitsInv'
  <2>1. pc \in WithHeader
    BY <1>3 DEF BuildSection, EndBuild, ParseSections, LoadSections, ImportDirectory, TakeHash,
                EntryPoint, RebuildImports, AddLibrary, EndTable, WithHeader
  <2> QED BY <1>3, <2>1, BitsKept DEF BitsInv
<1>4. CASE LayOutHeaders \/ PlaceSection \/ EndLayout
  BY <1>4, LayoutFrame DEF BitsInv, WithHeader
<1>5. CASE CopyHeader \/ PackSections
  BY <1>5, PackFrame DEF BitsInv, WithHeader
<1>6. CASE StartJob \/ OpenFile \/ OpenAddress \/ OpenHandle \/ Close \/ Crash \/ WriteImage
  <2>1. pc' \notin WithHeader
    BY <1>6 DEF StartJob, OpenFile, OpenAddress, OpenHandle, Close, Crash, WriteImage, WithHeader
  <2> QED BY <2>1 DEF BitsInv
<1>7. CASE ExportDirectory \/ CountImports
  <2>1. pc' \notin WithHeader
    BY <1>7 DEF ExportDirectory, CountImports, WithHeader
  <2> QED BY <2>1 DEF BitsInv
<1>8. CASE UNCHANGED vars
  BY <1>8 DEF vars, BitsInv
<1>9. CASE Stop
  BY <1>8, <1>9 DEF Stop
<1> QED BY <1>1, <1>2, <1>3, <1>4, <1>5, <1>6, <1>7, <1>8, <1>9 DEF Next

\* There is room for the table that is begun, ...
LEMMA TableBegins ==
  ASSUME ImageInv, RebuildImports, options.ImportRec
  PROVE  TableGrows' /\ pc' = "libraries"
<1> DEFINE libs == Libraries
           n == Len(libs)
           start == TableStart
           room == TableSize(libs)
<1>1. pc = "table" /\ pc' = "libraries" /\ MakeRoom /\ pe.hdr.sa > 0 /\ UNCHANGED module
  BY DEF RebuildImports, ImportTable32, ImportTable64, TableStep, given, MakeRoom
<1>2. pe.hdr \in Header /\ DOMAIN pe = DOMAIN NewPe
  BY <1>1 DEF ImageInv, HeaderOK, WithHeader
<1>3. Lists(libs, pe.image, pe.desc, pe.bits, module)
  BY LibrariesListed
<1>4. n \in Nat /\ DOMAIN libs = 1 .. n
  <2> HIDE DEF libs
  <2> QED BY <1>3 DEF Lists
<1>5. Rest(libs, 1) = DataSize(libs) /\ Rest(libs, 1) \in Nat
  <2> HIDE DEF libs, n
  <2> QED BY <1>4, RestOfAll
<1>6. start \in Nat /\ start >= Size(pe.image) /\ Size(pe.image) \in Nat
  BY <1>2, TableRoom, SizeNat DEF ImageInv, BuffersOK
<1>7. room \in Nat /\ n + 1 + Rest(libs, 1) <= room
  <2> DEFINE needed == n + 1 + Rest(libs, 1)
  <2>1. room = Align(needed, pe.hdr.sa)
    <3>1. DescriptorSize(libs) + DataSize(libs) = needed
      <4> DEFINE rest == Rest(libs, 1)
      <4>1. DescriptorSize(libs) = (n + 1) * 1 /\ DataSize(libs) = rest /\ rest \in Nat
        BY <1>5 DEF DescriptorSize, DescriptorCells
      <4> HIDE DEF rest, libs, n
      <4>2. DescriptorSize(libs) + DataSize(libs) = n + 1 + rest
        BY <1>4, <4>1
      <4> QED BY <4>2 DEF rest
    <3> QED BY <3>1 DEF TableSize
  <2>2. needed \in Nat
    <3> DEFINE rest == Rest(libs, 1)
    <3>1. rest \in Nat
      BY <1>5
    <3> HIDE DEF rest, libs, n
    <3> QED BY <1>4, <3>1 DEF rest
  <2>3. pe.hdr.sa \in Nat
    BY <1>2, ImageAssumption DEF Header, DWord
  <2> HIDE DEF needed, room
  <2>4. room \in Nat /\ needed <= room
    BY <2>1, <2>2, <2>3, AlignUp
  <2> QED BY <2>4 DEF needed
<1>8. /\ larger' = Extended(start + room) /\ pe' = [pe EXCEPT !.hdr = GrowLast(@, room)]
      /\ table' = [libs |-> libs, at |-> 0, extra |-> DescriptorSize(libs)]
      /\ loop' = [loop EXCEPT !.i = 1]
  BY <1>1, Zenon DEF MakeRoom
<1> HIDE DEF libs, n, start, room
<1>9. /\ pe'.hdr = GrowLast(pe.hdr, room) /\ pe'.bits = pe.bits /\ pe'.image = pe.image
      /\ pe'.desc = pe.desc
  BY <1>2, <1>8 DEF NewPe
<1>10. pe'.hdr.sa = pe.hdr.sa
  BY <1>2, <1>9, GrowsInPlace
<1>11. TableStart' = start
  BY <1>9, <1>10 DEF TableStart, start
<1>12. /\ table'.libs = libs /\ table'.at = 0 /\ table'.extra = n + 1 /\ loop'.i = 1
       /\ DOMAIN table' = DOMAIN NoTable
  <2>1. DescriptorSize(libs) = n + 1
    BY <1>4 DEF DescriptorSize, DescriptorCells, n
  <2>2. loop \in [i : Nat, at : Int]
    BY DEF ImageInv, LoopOK
  <2> QED BY <1>8, <2>1, <2>2 DEF NoTable
<1>13. Size(larger') = start + room
  <2> DEFINE size == start + room
  <2>1. size \in Nat
    BY <1>6, <1>7
  <2> HIDE DEF size
  <2>2. DOMAIN larger' = 0 .. size - 1
    BY <1>8 DEF Extended, size
  <2>3. Size(larger') = IF size > 0 THEN size ELSE 0
    BY <2>1, <2>2, BufferOf
  <2> QED BY <2>1, <2>3 DEF size
<1>14. larger'[start + n] = Zero
  <2>1. DOMAIN pe.image = 0 .. Size(pe.image) - 1
    BY DEF ImageInv, BuffersOK, Buffer
  <2> DEFINE rest == Rest(libs, 1)
  <2>2. rest \in Nat /\ n + 1 + rest <= room
    BY <1>5, <1>7
  <2> HIDE DEF rest
  <2>3. start + n \in 0 .. (start + room) - 1
    BY <1>4, <1>6, <1>7, <2>2
  <2>4. start + n \notin DOMAIN pe.image
    BY <1>4, <1>6, <2>1
  <2> DEFINE x == start + n
             size == start + room
  <2> HIDE DEF x, size
  <2>5. x \in 0 .. size - 1 /\ x \notin DOMAIN pe.image
    BY <2>3, <2>4 DEF x, size
  <2>6. larger' = [a \in 0 .. size - 1 |-> IF a \in DOMAIN pe.image THEN pe.image[a] ELSE Zero]
    BY <1>8 DEF Extended, size
  <2>7. larger'[x] = Zero
    BY <2>5, <2>6
  <2> QED BY <2>7 DEF x
<1>15. start + (n + 1) + Rest(libs, 1) <= Size(larger')
  <2> DEFINE rest == Rest(libs, 1)
  <2>1. rest \in Nat /\ n + 1 + rest <= room
    BY <1>5, <1>7
  <2> HIDE DEF rest
  <2>2. start + (n + 1) + rest <= start + room
    BY <1>4, <1>6, <1>7, <2>1
  <2> QED BY <1>13, <2>2 DEF rest
<1>16. n + 1 \in Nat /\ n + 1 > n /\ 1 <= n + 1 /\ 1 - 1 = 0 /\ 1 .. 1 - 1 = {}
  BY <1>4
<1>17. LibrariesLeft'
  BY <1>1, <1>3, <1>9, <1>11, <1>12, <1>14, <1>15, <1>16 DEF LibrariesLeft, n
<1> QED BY <1>1, <1>10, <1>12, <1>17 DEF TableGrows

\* ... for every library ...
LEMMA TableGoesOn ==
  ASSUME ImageInv, TableGrows, AddLibrary
  PROVE  TableGrows' /\ pc' = "libraries"
<1> DEFINE libs == table.libs
           n == Len(libs)
           k == loop.i
           start == TableStart
           size == Size(larger) - start
           rva == Size(pe.image)
           l == libs[k]
           rest == Rest(libs, k)
           left == Rest(libs, k + 1)
           extra == table.extra
           at == table.at
           r == BuildLibrary([cells |-> larger, at |-> at, extra |-> extra], start, size, rva, l)
<1>1. /\ pc = "libraries" /\ pc' = "libraries" /\ UNCHANGED <<module, pe>> /\ k <= n
      /\ loop' = [loop EXCEPT !.i = k + 1] /\ larger' = r.cells
      /\ table' = [table EXCEPT !.at = r.at, !.extra = r.extra]
  BY Zenon DEF AddLibrary, given
<1>2. LibrariesLeft /\ k >= 1 /\ pe.hdr.sa > 0
  BY <1>1 DEF TableGrows
<1>3. /\ Lists(libs, pe.image, pe.desc, pe.bits, module) /\ at = k - 1
      /\ extra \in Nat /\ extra > n /\ start + extra + rest <= Size(larger)
      /\ larger[start + n] = Zero
      /\ \A i \in 1 .. k - 1 : Placed(larger, start, rva, libs, i, extra)
  BY <1>2 DEF LibrariesLeft
<1>4. n \in Nat /\ DOMAIN libs = 1 .. n
  BY <1>3 DEF Lists
<1>5. pe.hdr \in Header
  BY <1>1 DEF ImageInv, HeaderOK, WithHeader
<1>6. start \in Nat /\ Size(larger) \in Nat /\ DOMAIN larger = 0 .. Size(larger) - 1
  BY <1>5, TableRoom, SizeNat DEF ImageInv, BuffersOK, Buffer
<1>7. k \in 1 .. n
  BY <1>1, <1>2, <1>4 DEF ImageInv, LoopOK
<1>8. /\ left \in Nat /\ rest \in Nat /\ rest >= left
      /\ HasThunk(l) => rest = left + NameCells(l) + 5
  <2>1. /\ left \in Nat
        /\ rest = left + (IF l.name # NoRva THEN 1 ELSE 0) + (IF HasThunk(l) THEN 5 ELSE 0)
    <3> HIDE DEF libs, n, k
    <3> QED BY <1>4, <1>7, RestSteps
  <2> HIDE DEF rest, left
  <2> QED BY <2>1 DEF NameCells, ImportNameCells
<1> HIDE DEF rest, left, extra, n, start, k, libs
<1>9. /\ size \in Nat /\ DOMAIN larger = 0 .. start + size - 1 /\ extra + left <= size
      /\ HasThunk(l) => extra + NameCells(l) + 5 + left <= size
  <2> DEFINE cells == NameCells(l)
  <2>1. cells \in Nat
    BY DEF NameCells, ImportNameCells
  <2> HIDE DEF cells
  <2>2. HasThunk(l) => rest = left + cells + 5
    BY <1>8 DEF cells
  <2>3. size \in Nat /\ extra + left <= size /\ start + size - 1 = Size(larger) - 1
    BY <1>3, <1>6, <1>8
  <2>4. HasThunk(l) => extra + cells + 5 + left <= size
    BY <1>3, <1>6, <1>8, <2>1, <2>2
  <2> QED BY <1>6, <2>3, <2>4 DEF cells
<1> HIDE DEF size, rva, l
<1>10. r = BuildLibrary(SoFar(larger, k - 1, extra), start, size, rva, l)
  BY <1>3, Zenon DEF SoFar
<1> HIDE DEF r
<1>11. HoldsFirst(r, k, n, libs, start, rva, left, size)
  <2>1. n = Len(libs) /\ l = libs[k]
    BY DEF n, l
  <2> QED BY <1>3, <1>4, <1>6, <1>7, <1>8, <1>9, <1>10, <2>1, LibraryAdded
<1>12. /\ r.at = k /\ r.extra \in Nat /\ r.extra > n /\ r.extra + left <= size
       /\ r.cells[start + n] = Zero
       /\ \A i \in 1 .. k : Placed(r.cells, start, rva, libs, i, r.extra)
  BY <1>11 DEF HoldsFirst
<1>13. DOMAIN r.cells = DOMAIN larger
  <2> DEFINE t == SoFar(larger, k - 1, extra)
  <2>1. DOMAIN t = {"cells", "at", "extra"} /\ t.cells = larger
    BY DEF SoFar
  <2> HIDE DEF t
  <2>2. r = BuildLibrary(t, start, size, rva, l)
    BY <1>10 DEF t
  <2> QED BY <2>1, <2>2, LibraryWritten
<1>14. /\ table'.libs = libs /\ table'.at = k /\ table'.extra = r.extra
       /\ DOMAIN table' = DOMAIN NoTable /\ loop'.i = k + 1
  <2>1. DOMAIN table = {"libs", "at", "extra"}
    BY <1>2 DEF LibrariesLeft, NoTable
  <2>2. loop \in [i : Nat, at : Int]
    BY DEF ImageInv, LoopOK
  <2> QED BY <1>1, <1>12, <2>1, <2>2 DEF libs, NoTable
<1>15. TableStart' = start /\ Size(larger') = Size(larger) /\ Size(pe.image)' = rva
  BY <1>1, <1>13 DEF TableStart, start, Size, rva
<1>16. start + r.extra + left <= Size(larger)
  BY <1>6, <1>8, <1>12 DEF size
<1>17. k + 1 <= n + 1 /\ k = (k + 1) - 1 /\ k + 1 >= 1
  BY <1>4, <1>7
<1>18. LibrariesLeft'
  BY <1>1, <1>3, <1>12, <1>14, <1>15, <1>16, <1>17 DEF LibrariesLeft, n, left
<1> QED BY <1>1, <1>2, <1>14, <1>17, <1>18 DEF TableGrows

\* ... until it is whole.
LEMMA TableEnds ==
  ASSUME ImageInv, TableGrows, EndTable
  PROVE  TableThere' /\ pc' = "layout"
<1> DEFINE libs == table.libs
           n == Len(libs)
           k == loop.i
           start == TableStart
           rva == Size(pe.image)
           rest == Rest(libs, k)
           extra == table.extra
           size == Size(larger) - start
<1>1. /\ pc = "libraries" /\ pc' = "layout" /\ UNCHANGED module /\ k > n
      /\ pe' = [pe EXCEPT !.hdr = [pe.hdr EXCEPT !.imp = start % DW]]
      /\ DOMAIN larger' = DOMAIN larger
      /\ \A a \in DOMAIN larger :
            larger'[a] = larger[a] \/ (a = start + table.at /\ larger'[a] = Zero)
  BY DEF EndTable, WithBlank, given
<1>2. LibrariesLeft /\ k >= 1
  BY <1>1 DEF TableGrows
<1>3. /\ Lists(libs, pe.image, pe.desc, pe.bits, module) /\ k <= n + 1
      /\ extra \in Nat /\ extra > n /\ start + extra + rest <= Size(larger)
      /\ larger[start + n] = Zero /\ table.at = k - 1
      /\ \A i \in 1 .. k - 1 : Placed(larger, start, rva, libs, i, extra)
  BY <1>2 DEF LibrariesLeft
<1>4. n \in Nat /\ DOMAIN libs = 1 .. n
  BY <1>3 DEF Lists
<1>5. pe.hdr \in Header /\ DOMAIN pe = DOMAIN NewPe
  BY <1>1 DEF ImageInv, HeaderOK, WithHeader
<1>6. start \in Nat /\ Size(larger) \in Nat
  BY <1>5, TableRoom, SizeNat DEF ImageInv, BuffersOK
<1>7. k = n + 1
  <2>1. k \in Nat
    BY DEF ImageInv, LoopOK
  <2> HIDE DEF k, n
  <2> QED BY <1>1, <1>3, <1>4, <2>1
<1>8. rest \in Nat
  <2>1. CASE n = 0
    <3>1. rest = Rest(libs, 1) /\ n \in Nat
      BY <1>4, <1>7, <2>1
    <3> HIDE DEF libs, n, k, rest
    <3> QED BY <1>4, <3>1, RestOfAll
  <2>2. CASE n # 0
    <3>1. n \in 1 .. n
      BY <1>4, <2>2
    <3> HIDE DEF libs, n, k
    <3>2. Rest(libs, n + 1) \in Nat
      BY <1>4, <3>1, RestSteps
    <3> QED BY <1>7, <3>2
  <2> QED BY <2>1, <2>2
<1> HIDE DEF rest, extra, start, k, libs, rva
<1>9. extra <= size /\ start + n < Size(larger) /\ extra \in Int /\ size \in Int
  <2> HIDE DEF n
  <2> QED BY <1>3, <1>4, <1>6, <1>8
<1>10. start + table.at = start + n
  <2> HIDE DEF n
  <2> QED BY <1>3, <1>4, <1>7
<1>11. /\ DOMAIN larger = 0 .. Size(larger) - 1 /\ Size(larger') = Size(larger)
         /\ \A a \in DOMAIN larger : larger'[a] = larger[a]
  <2>1. DOMAIN larger = 0 .. Size(larger) - 1 /\ Size(larger') = Size(larger)
    BY <1>1 DEF ImageInv, BuffersOK, Buffer, Size
  <2> HIDE DEF n
  <2> QED BY <1>1, <1>3, <1>10, <2>1
<1>12. \A y \in Nat : start + y < Size(larger) => larger'[start + y] = larger[start + y]
  BY <1>6, <1>11
<1>13. \A y \in Nat : n < y /\ y < extra => larger'[start + y] = larger[start + y]
  BY <1>4, <1>6, <1>9, <1>12 DEF size
<1> HIDE DEF size
<1>14. ASSUME NEW i \in 1 .. n PROVE Placed(larger', start, rva, libs, i, size)
  <2>1. Placed(larger, start, rva, libs, i, extra)
    <3>1. i \in 1 .. k - 1
      <4> HIDE DEF n
      <4> QED BY <1>4, <1>7
    <3> QED BY <1>3, <3>1
  <2>2. larger'[start + i - 1] = larger[start + i - 1]
    <3>1. i - 1 \in Nat /\ start + (i - 1) = start + i - 1 /\ start + (i - 1) < Size(larger)
      <4> HIDE DEF n
      <4> QED BY <1>4, <1>6, <1>9
    <3> QED BY <1>12, <3>1
  <2> QED BY <1>4, <1>6, <1>9, <1>13, <2>1, <2>2, PlacedKept
<1>15. Built(larger', start, rva, libs)
  <2>1. larger'[start + n] = Zero
    BY <1>3, <1>4, <1>9, <1>12
  <2> QED BY <1>9, <1>14, <1>11, <2>1 DEF Built, size
<1>16. /\ pe'.hdr.imp = start % DW /\ pe'.hdr.sa = pe.hdr.sa /\ pe'.bits = pe.bits
       /\ pe'.image = pe.image /\ pe'.desc = pe.desc
  BY <1>1, <1>5 DEF NewPe, Header
<1>17. TableStart' = start /\ Size(pe.image)' = rva
  BY <1>16 DEF TableStart, start, rva
<1>18. HasTable(larger', start, pe.image, pe.desc, pe.bits, module)
  <2>1. Built(larger', start, Size(pe.image), libs)
    BY <1>15 DEF rva
  <2> QED BY <1>3, <2>1 DEF HasTable
<1>19. TableBuilt'
  BY <1>1, <1>16, <1>17, <1>18 DEF TableBuilt
<1> QED BY <1>1, <1>16, <1>17, <1>19 DEF TableThere

\* The table is left alone by a step that leaves alone where it is.
LEMMA TableUntouched ==
  ASSUME UNCHANGED <<module, larger>>, pe'.bits = pe.bits, pe'.image = pe.image,
         pe'.desc = pe.desc, pe'.hdr.sa = pe.hdr.sa, pe'.hdr.imp = pe.hdr.imp
  PROVE  /\ TableStart' = TableStart /\ TableBuilt' = TableBuilt
         /\ (pe.hdr.imp = TableStart % DW)' = (pe.hdr.imp = TableStart % DW)
<1>1. TableStart' = TableStart
  BY DEF TableStart
<1> QED BY <1>1 DEF TableBuilt

\* The header may be copied over it.
LEMMA TableCovered ==
  ASSUME ImageInv, TableThere, CopyHeader, UNCHANGED module
  PROVE  TableStays'
<1>1. /\ pc = "copy" /\ pc' = "pack" /\ UNCHANGED pe
      /\ larger' = [a \in DOMAIN larger |-> IF a < HeaderCopied THEN RawCell(a) ELSE larger[a]]
  BY DEF CopyHeader
<1>2. pe.hdr.imp = TableStart % DW /\ TableBuilt /\ TableStart' = TableStart
  BY <1>1 DEF TableThere, TableStart
<1>3. pe.hdr \in Header
  BY <1>1 DEF ImageInv, HeaderOK, WithHeader
<1> DEFINE start == TableStart
           soh == pe.hdr.soh
<1>4. /\ start \in Nat /\ soh \in Nat /\ Size(larger) \in Nat
      /\ DOMAIN larger = 0 .. Size(larger) - 1 /\ Size(larger') = Size(larger)
  <2>1. soh \in DWord
    BY <1>3 DEF Header
  <2> QED BY <1>1, <1>3, <2>1, TableRoom, SizeNat, ImageAssumption
          DEF ImageInv, BuffersOK, Buffer, DWord, Size
<1>5. ASSUME soh <= start PROVE TableBuilt'
  <2>1. PICK libs : /\ Lists(libs, pe.image, pe.desc, pe.bits, module)
                    /\ Built(larger, start, Size(pe.image), libs)
    BY <1>2, Zenon DEF TableBuilt, HasTable
  <2> DEFINE n == Len(libs)
             size == Size(larger) - start
             copied == HeaderCopied
             rva == Size(pe.image)
  <2>2. n \in Nat
    BY <2>1 DEF Lists
  <2>3. /\ start + n < Size(larger) /\ larger[start + n] = Zero
        /\ \A i \in 1 .. n : Placed(larger, start, rva, libs, i, size)
    BY <2>1 DEF Built
  <2>4. copied <= start /\ copied \in Int
    <3>1. Size(pe.raw) \in Nat
      BY SizeNat DEF ImageInv, BuffersOK
    <3> DEFINE raw == Size(pe.raw)
               cells == Size(larger)
    <3>2. copied = IF soh <= cells /\ soh <= raw THEN soh
                   ELSE IF raw <= cells /\ raw <= raw THEN raw ELSE 0
      BY DEF HeaderCopied
    <3> HIDE DEF raw, cells, copied, soh, start
    <3>3. raw \in Nat /\ cells \in Nat /\ soh \in Nat /\ start \in Nat /\ soh <= start
      BY <1>4, <1>5, <3>1 DEF raw, cells
    <3> QED BY <3>2, <3>3
  <2> HIDE DEF n, size, copied, rva, start
  <2>5. \A y \in Nat : start + y < Size(larger) => larger'[start + y] = larger[start + y]
    <3> TAKE y \in Nat
    <3>1. ASSUME start + y < Size(larger)
          PROVE  start + y \in DOMAIN larger /\ ~(start + y < copied)
      BY <1>4, <2>4, <3>1
    <3>2. \A a \in DOMAIN larger : ~(a < copied) => larger'[a] = larger[a]
      BY <1>1 DEF copied
    <3> QED BY <3>1, <3>2
  <2>6. larger'[start + n] = Zero
    BY <2>2, <2>3, <2>5
  <2>7. ASSUME NEW i \in 1 .. n PROVE Placed(larger', start, rva, libs, i, size)
    <3>1. Placed(larger, start, rva, libs, i, size) /\ size \in Int /\ size <= size
      BY <1>4, <2>3 DEF size
    <3>2. larger'[start + i - 1] = larger[start + i - 1]
      <4>1. i - 1 \in Nat /\ start + (i - 1) < Size(larger) /\ start + i - 1 = start + (i - 1)
        BY <1>4, <2>2, <2>3
      <4> QED BY <2>5, <4>1
    <3>3. \A y \in Nat : Len(libs) < y /\ y < size => larger'[start + y] = larger[start + y]
      <4> TAKE y \in Nat
      <4>1. y < size => start + y < Size(larger)
        BY <1>4 DEF size
      <4> QED BY <2>5, <4>1
    <3> QED BY <1>4, <2>2, <3>1, <3>2, <3>3, PlacedKept DEF n
  <2>8. Built(larger', start, rva, libs)
    BY <1>4, <2>3, <2>6, <2>7 DEF Built, n, size
  <2>9. HasTable(larger', start, pe.image, pe.desc, pe.bits, module)
    BY <2>1, <2>8 DEF HasTable, rva
  <2> QED BY <1>1, <1>2, <2>9 DEF TableBuilt, start
<1> QED BY <1>1, <1>2, <1>5 DEF TableStays

\* The table is in the file that is written.
LEMMA TableFiled ==
  ASSUME ImageInv, BitsInv, TableStays, TableWritten, WriteImage, UNCHANGED module
  PROVE  TableWritten'
<1>1. CASE UNCHANGED dumped
  BY <1>1 DEF TableWritten
<1>2. CASE ~UNCHANGED dumped
  <2>1. /\ pc = "write" /\ dumped'.hdr = pe.hdr /\ dumped'.image = larger
        /\ dumped'.read = pe.image /\ dumped'.desc = pe.desc
    BY <1>2 DEF WriteImage
  <2>2. /\ pe.hdr.imp = TableStart % DW /\ pe.bits = pe.hdr.bits
        /\ pe.hdr.soh <= TableStart => TableBuilt
    BY <2>1 DEF TableStays, BitsInv, WithHeader
  <2>3. Buffer(pe.image) /\ Size(pe.image) < DW
    BY DEF ImageInv, BuffersOK
  <2>4. Align(Size(dumped'.read), dumped'.hdr.sa) = TableStart
    BY <2>1 DEF TableStart
  <2> QED BY <2>1, <2>2, <2>3, <2>4 DEF TableWritten, TableBuilt
<1> QED BY <1>1, <1>2

\* The steps that are made while there is no table.
LEMMA ToTheTable ==
  ASSUME Next, pc' \in {"libraries", "layout"}
  PROVE  RebuildImports \/ AddLibrary \/ EndTable \/ Stop
<1>1. ~(StartJob \/ OpenFile \/ OpenAddress \/ OpenHandle \/ ReadHeader \/ BuildHeader)
  BY DEF StartJob, OpenFile, OpenAddress, OpenHandle, ReadHeader, BuildHeader
<1>2. ~(BuildSection \/ EndBuild \/ LoadSections \/ ImportDirectory)
  BY DEF BuildSection, EndBuild, LoadSections, ImportDirectory
<1>3. ~ParseSections
  BY DEF ParseSections, CountSections32, CountSections64, CountSections
<1>4. ~(ExportDirectory \/ TakeHash \/ CountImports \/ EntryPoint)
  BY DEF ExportDirectory, TakeHash, CountImports, EntryPoint
<1>5. ~(LayOutHeaders \/ PlaceSection \/ EndLayout \/ CopyHeader \/ PackSections)
  BY DEF LayOutHeaders, PlaceSection, EndLayout, CopyHeader, PackSections
<1>6. ~(WriteImage \/ Close \/ Crash)
  BY DEF WriteImage, Close, Crash
<1> QED BY <1>1, <1>2, <1>3, <1>4, <1>5, <1>6 DEF Next

\* Every step keeps the table, where it is and what it holds.
LEMMA TableKept == ASSUME ImageInv, BitsInv, TableInv, [Next]_vars PROVE TableInv'
<1> SUFFICES ASSUME options'.ImportRec
             PROVE  TableGrows' /\ TableThere' /\ TableStays' /\ TableWritten'
  BY DEF TableInv
<1>1. UNCHANGED <<module, options>> /\ options.ImportRec
  BY ModuleKept
<1>2. TableGrows /\ TableThere /\ TableStays /\ TableWritten
  BY <1>1 DEF TableInv
<1>3. TableWritten'
  <2>1. CASE UNCHANGED dumped
    BY <1>1, <1>2, <2>1 DEF TableWritten
  <2>2. CASE WriteImage
    BY <1>1, <1>2, <2>2, TableFiled
  <2>3. UNCHANGED vars => UNCHANGED dumped
    BY DEF vars, done
  <2> QED BY <2>1, <2>2, <2>3, DumpedKept
<1>4. CASE UNCHANGED vars
  <2>1. UNCHANGED <<pc, pe, larger, loop, table>>
    BY <1>4 DEF vars, counted
  <2>2. TableStart' = TableStart
    BY <2>1 DEF TableStart
  <2>3. TableGrows'
    <3>1. LibrariesLeft' <=> LibrariesLeft
      BY <1>1, <2>1, <2>2 DEF LibrariesLeft
    <3> QED BY <1>2, <2>1, <3>1 DEF TableGrows
  <2>4. TableBuilt' = TableBuilt
    BY <1>1, <2>1, TableUntouched
  <2> QED BY <1>2, <1>3, <2>1, <2>2, <2>3, <2>4 DEF TableThere, TableStays
<1>5. CASE RebuildImports
  BY <1>1, <1>3, <1>5, TableBegins DEF TableThere, TableStays
<1>6. CASE AddLibrary
  BY <1>2, <1>3, <1>6, TableGoesOn DEF TableThere, TableStays
<1>7. CASE EndTable
  BY <1>2, <1>3, <1>7, TableEnds DEF TableGrows, TableStays
<1>8. CASE LayOutHeaders \/ PlaceSection \/ EndLayout
  <2>1. /\ pc \in {"layout", "place"} /\ pc' \in {"place", "copy"} /\ UNCHANGED <<larger, dumped>>
        /\ pe'.bits = pe.bits /\ pe'.image = pe.image /\ pe'.desc = pe.desc
        /\ pe'.hdr.sa = pe.hdr.sa /\ pe'.hdr.imp = pe.hdr.imp
    BY <1>8, LayoutFrame
  <2>2. /\ TableStart' = TableStart /\ TableBuilt' = TableBuilt
        /\ (pe.hdr.imp = TableStart % DW)' = (pe.hdr.imp = TableStart % DW)
    BY <1>1, <2>1, TableUntouched
  <2> QED BY <1>2, <1>3, <2>1, <2>2 DEF TableGrows, TableThere, TableStays
<1>9. CASE CopyHeader
  <2>1. pc' = "pack"
    BY <1>9 DEF CopyHeader
  <2> QED BY <1>1, <1>2, <1>3, <1>9, <2>1, TableCovered DEF TableGrows, TableThere
<1>10. CASE PackSections
  <2>1. /\ pc = "pack" /\ pc' = "write" /\ UNCHANGED larger
        /\ pe'.bits = pe.bits /\ pe'.image = pe.image /\ pe'.desc = pe.desc /\ pe'.hdr = pe.hdr
    <3>1. pc # "copy"
      BY <1>10 DEF PackSections
    <3> QED BY <1>10, <3>1, PackFrame
  <2>2. /\ TableStart' = TableStart /\ TableBuilt' = TableBuilt
        /\ (pe.hdr.imp = TableStart % DW)' = (pe.hdr.imp = TableStart % DW)
    BY <1>1, <2>1, TableUntouched
  <2> QED BY <1>2, <1>3, <2>1, <2>2 DEF TableGrows, TableThere, TableStays
<1>11. CASE pc' \notin {"libraries", "layout", "place", "copy", "pack", "write"}
  BY <1>3, <1>11 DEF TableGrows, TableThere, TableStays
<1> QED BY <1>4, <1>5, <1>6, <1>7, <1>8, <1>9, <1>10, <1>11, ToTheTable, ToTheLayout DEF Stop

-----------------------------------------------------------------------------
(* The table is read again.                                                *)

\* What a loader takes from a descriptor, in an image.
ImportedFrom(image, d) ==
    LET thunk == image[d[2]]
    IN  <<d[4], image[d[3]], IF thunk[1] = "number" THEN image[thunk[2]] ELSE thunk>>

\* The cells of the table are in another image too.
Shared(d, p, size) == \A a \in size .. Size(d) - 1 : a \in DOMAIN p /\ p[a] = d[a]

\* What has been placed for an export is what it is imported as.
LEMMA PlacedIsRead ==
  ASSUME NEW d, NEW p, NEW size \in Nat, Size(d) \in Nat, Shared(d, p, size),
         NEW libs, Len(libs) \in Nat, NEW i \in 1 .. Len(libs), HasThunk(libs[i]),
         Placed(d, size, size, libs, i, Size(d) - size)
  PROVE  /\ d[size + i - 1] # Zero
         /\ ImportedFrom(p, d[size + i - 1]) = Import(libs[i], libs[i].descriptor[4])
<1> DEFINE l == libs[i]
           entry == d[size + i - 1]
<1>1. PICK x \in Nat :
         LET thunk == x + NameCells(l)
         IN  /\ Len(libs) < x /\ thunk + ThunkCells + LibraryNameCells <= Size(d) - size
             /\ entry = Descriptor(thunk + size, thunk + ThunkCells + size, l.descriptor[4])
             /\ l.name # NoRva => d[size + x] = <<"import", l.name>>
             /\ d[size + thunk] = ThunkOf(l, x + size)
             /\ d[size + thunk + ThunkCells] = <<"library", l.library>>
  BY Zenon DEF Placed
<1> DEFINE thunk == x + NameCells(l)
<1>2. thunk \in Nat /\ x <= thunk
  BY DEF NameCells, ImportNameCells
<1>3. /\ thunk + 4 < Size(d) - size
      /\ entry = Descriptor(thunk + size, thunk + 4 + size, l.descriptor[4])
      /\ d[size + thunk] = ThunkOf(l, x + size)
      /\ d[size + thunk + 4] = <<"library", l.library>>
  BY <1>1, <1>2 DEF ThunkCells, LibraryNameCells
<1>4. entry[1] = "descriptor" /\ entry[2] = thunk + size /\ entry[3] = thunk + 4 + size
      /\ entry[4] = l.descriptor[4]
  BY <1>3 DEF Descriptor
<1>5. p[thunk + size] = ThunkOf(l, x + size) /\ p[thunk + 4 + size] = <<"library", l.library>>
  <2> HIDE DEF thunk, l
  <2>1. thunk + size = size + thunk /\ thunk + 4 + size = size + thunk + 4
        /\ size + thunk \in size .. Size(d) - 1 /\ size + thunk + 4 \in size .. Size(d) - 1
    BY <1>2, <1>3
  <2> QED BY <1>3, <2>1 DEF Shared
<1>6. l.name # NoRva => p[x + size] = <<"import", l.name>>
  <2>1. x + 4 < Size(d) - size
    <3> HIDE DEF thunk
    <3> QED BY <1>2, <1>3
  <2>2. x + size = size + x /\ size + x \in size .. Size(d) - 1
    BY <2>1
  <2> QED BY <1>1, <2>2 DEF Shared
<1>7. CASE l.name # NoRva
  <2>1. p[thunk + size][1] = "number" /\ p[thunk + size][2] = x + size
    BY <1>5, <1>7 DEF ThunkOf, Number
  <2> HIDE DEF thunk, entry, l
  <2>2. ImportedFrom(p, entry) = <<l.descriptor[4], <<"library", l.library>>, p[x + size]>>
    BY <1>4, <1>5, <2>1 DEF ImportedFrom
  <2>3. Import(l, l.descriptor[4])
        = <<l.descriptor[4], <<"library", l.library>>, <<"import", l.name>> >>
    BY <1>7 DEF Import
  <2>4. entry # Zero
    BY <1>4 DEF Zero, Number
  <2> QED BY <1>6, <1>7, <2>2, <2>3, <2>4 DEF entry, l
<1>8. CASE l.name = NoRva
  <2>1. p[thunk + size] = <<"ordinal", l.ord>> /\ p[thunk + size][1] # "number"
    BY <1>5, <1>8 DEF ThunkOf
  <2> HIDE DEF thunk, entry, l
  <2>2. ImportedFrom(p, entry)
        = <<l.descriptor[4], <<"library", l.library>>, <<"ordinal", l.ord>> >>
    BY <1>4, <1>5, <2>1 DEF ImportedFrom
  <2>3. Import(l, l.descriptor[4])
        = <<l.descriptor[4], <<"library", l.library>>, <<"ordinal", l.ord>> >>
    BY <1>8 DEF Import
  <2>4. entry # Zero
    BY <1>4 DEF Zero, Number
  <2> QED BY <2>2, <2>3, <2>4 DEF entry, l
<1> QED BY <1>7, <1>8

\* The descriptors that are read at the table are those of its libraries.
LEMMA DescriptorsRead ==
  ASSUME NEW d, NEW p, NEW size \in Nat, Size(d) \in Nat, Shared(d, p, size), Buffer(p),
         NEW image, NEW desc, NEW bits, NEW m,
         NEW libs, Lists(libs, image, desc, bits, m), Built(d, size, size, libs)
  PROVE  /\ Len(OldLibraries(p, Size(p), size)) = Len(libs)
         /\ \A i \in 1 .. Len(libs) :
               OldLibraries(p, Size(p), size)[i] = OldLibrary(d[size + i - 1])
<1> DEFINE n == Len(libs)
           old == OldLibraries(image, Size(image), desc)
           now == OldLibraries(p, Size(p), size)
           at(x) == DescriptorAt(p, Size(p), size, x)
<1>1. /\ Len(old) \in Nat /\ n \in Nat
      /\ \A i \in 1 .. Len(old) : libs[i].descriptor # Zero
                                   /\ libs[i] = OldLibrary(libs[i].descriptor)
      /\ \A i \in Len(old) + 1 .. n : HasThunk(libs[i])
  BY Zenon DEF Lists
<1>2. /\ size + n < Size(d) /\ d[size + n] = Zero
      /\ \A i \in 1 .. n : Placed(d, size, size, libs, i, Size(d) - size)
  BY Zenon DEF Built
<1>3. Size(p) \in Nat /\ DOMAIN p = 0 .. Size(p) - 1
  BY SizeNat DEF Buffer
<1>4. ASSUME NEW x \in 0 .. n PROVE at(x) = d[size + x] /\ x <= Size(p)
  <2> HIDE DEF old
  <2>1. size + x \in size .. Size(d) - 1
    BY <1>1, <1>2
  <2>2. size + x \in DOMAIN p /\ p[size + x] = d[size + x]
    BY <2>1 DEF Shared
  <2>3. size # NoRva
    BY RvaAssumption
  <2> QED BY <1>1, <1>3, <2>2, <2>3 DEF DescriptorAt, DescriptorCells, Inside
<1>5. ASSUME NEW i \in 1 .. n PROVE d[size + i - 1] # Zero
  <2>1. CASE HasThunk(libs[i])
    BY <1>1, <1>2, <2>1, PlacedIsRead
  <2>2. CASE ~HasThunk(libs[i])
    <3>1. i \in 1 .. Len(old)
      <4> HIDE DEF old
      <4> QED BY <1>1, <2>2
    <3>2. d[size + i - 1] = libs[i].descriptor
      BY <1>2, <2>2 DEF Placed
    <3> QED BY <1>1, <3>1, <3>2
  <2> QED BY <2>1, <2>2
<1>6. ASSUME NEW x \in 0 .. n - 1 PROVE at(x) # Zero
  <2> HIDE DEF old
  <2>1. x + 1 \in 1 .. n /\ x \in 0 .. n /\ size + (x + 1) - 1 = size + x
    BY <1>1
  <2> QED BY <1>4, <1>5, <2>1
<1>7. at(n) = Zero /\ n \in 0 .. Size(p)
  <2> HIDE DEF old
  <2>1. n \in 0 .. n
    BY <1>1
  <2> QED BY <1>2, <1>4, <2>1
<1>8. Len(now) = n
  <2> HIDE DEF old
  <2> QED BY <1>3, <1>6, <1>7, OldEnd
<1>9. ASSUME NEW i \in 1 .. n PROVE now[i] = OldLibrary(d[size + i - 1])
  <2>1. now[i] = OldLibrary(at(i - 1))
    <3> HIDE DEF old
    <3>1. i \in 1 .. Len(now)
      BY <1>8
    <3> QED BY <1>3, <3>1, OldAre
  <2>2. i - 1 \in 0 .. n /\ size + (i - 1) = size + i - 1
    BY <1>1
  <2>3. at(i - 1) = d[size + (i - 1)]
    BY <1>4, <2>2
  <2> HIDE DEF at, now, n
  <2> QED BY <2>1, <2>2, <2>3
<1> QED BY <1>8, <1>9

\* They are the ones the image had, and then one for everything that is wanted.
LEMMA ImportsRead ==
  ASSUME NEW d, NEW p, NEW size \in Nat, Size(d) \in Nat, Shared(d, p, size), Buffer(p),
         NEW image, NEW desc, NEW bits, NEW m,
         NEW libs, Lists(libs, image, desc, bits, m), Built(d, size, size, libs),
         NEW now, now = OldLibraries(p, Size(p), size),
         NEW before, before = OldLibraries(image, Size(image), desc)
  PROVE  /\ Len(before) <= Len(now) /\ \A i \in 1 .. Len(before) : now[i] = before[i]
         /\ {ImportedFrom(p, now[i].descriptor) : i \in Len(before) + 1 .. Len(now)}
            = WantedOf(image, bits, m)
<1> DEFINE n == Len(libs)
           k == Len(before)
           wanted == WantedOf(image, bits, m)
<1>1. /\ k \in Nat /\ n \in Nat /\ k <= n
      /\ \A i \in 1 .. k : libs[i] = before[i] /\ libs[i] = OldLibrary(libs[i].descriptor)
      /\ \A i \in k + 1 .. n : HasThunk(libs[i])
      /\ {Import(libs[i], libs[i].descriptor[4]) : i \in k + 1 .. n} = wanted
  BY Zenon DEF Lists
<1>2. \A i \in 1 .. n : Placed(d, size, size, libs, i, Size(d) - size)
  BY Zenon DEF Built
<1>3. Len(now) = n /\ \A i \in 1 .. n : now[i] = OldLibrary(d[size + i - 1])
  BY DescriptorsRead
<1> HIDE DEF wanted, k, n
<1>4. ASSUME NEW i \in 1 .. k PROVE now[i] = before[i]
  <2>1. i \in 1 .. n
    BY <1>1
  <2>2. ~HasThunk(libs[i])
    <3>1. libs[i] = OldLibrary(libs[i].descriptor)
      BY <1>1
    <3>2. libs[i].library = NoRva
      BY <3>1 DEF OldLibrary
    <3> QED BY <3>2 DEF HasThunk
  <2>3. d[size + i - 1] = libs[i].descriptor
    BY <1>2, <2>1, <2>2 DEF Placed
  <2> QED BY <1>1, <1>3, <2>1, <2>3
<1>5. ASSUME NEW i \in k + 1 .. n
      PROVE  ImportedFrom(p, now[i].descriptor) = Import(libs[i], libs[i].descriptor[4])
  <2>1. i \in 1 .. n /\ HasThunk(libs[i])
    BY <1>1
  <2>2. now[i].descriptor = d[size + i - 1]
    BY <1>3, <2>1 DEF OldLibrary
  <2>3. ImportedFrom(p, d[size + i - 1]) = Import(libs[i], libs[i].descriptor[4])
    BY <1>1, <1>2, <2>1, PlacedIsRead DEF n
  <2> QED BY <2>2, <2>3
<1>6. {ImportedFrom(p, now[i].descriptor) : i \in k + 1 .. n} = wanted
  BY <1>1, <1>5, Zenon
<1> QED BY <1>1, <1>3, <1>4, <1>6 DEF k, wanted

\* After the file has been loaded again, the import directory leads to the table.
LEMMA TableIsThere ==
  ASSUME ImageInv, FileInv, ReloadInv, TableInv, Reloaded, options.ImportRec, TableInLast
  PROVE  LET size == Size(dumped.read)
         IN  /\ size \in Nat /\ pe.hdr.imp = size
             /\ Size(dumped.image) \in Nat /\ Shared(dumped.image, pe.image, size)
             /\ HasTable(dumped.image, size, dumped.read, dumped.desc, dumped.hdr.bits, module)
<1> DEFINE h == dumped.hdr
           size == Size(dumped.read)
           room == Size(dumped.image)
           last == h.secs[h.n]
           start == Align(size, h.sa)
<1>1. h # NoHeader /\ Tidy(h, room) /\ pc = "hash" /\ Again /\ Known
  BY DEF Reloaded, Again, Known
<1>2. h \in Header /\ Len(h.secs) = h.n /\ Buffer(dumped.image) /\ room \in Nat
  BY <1>1, SizeNat DEF FileInv
<1>3. /\ h.n \in Nat \ {0} /\ h.sa \in Nat \ {0} /\ Ordered(h)
  <2> HIDE DEF h, room
  <2> QED BY <1>1, <1>2, TidyOrder
<1>4. /\ Buffer(dumped.read) /\ size < DW /\ h.imp = start % DW
      /\ h.soh <= start => HasTable(dumped.image, start, dumped.read, dumped.desc, h.bits, module)
  BY <1>1, Zenon DEF TableInv, TableWritten
<1>5. size \in Nat
  BY <1>4, SizeNat
<1>6. size % h.sa = 0 /\ last.va <= size /\ room <= last.va + last.raw
  BY DEF TableInLast
<1>7. start = size
  BY <1>6 DEF Align
<1>8. h.imp = size
  <2> HIDE DEF size, h
  <2> QED BY <1>4, <1>5, <1>7, WrapsNat
<1>9. h.soh <= start
  <2>1. h.soh \in Int /\ last.va \in Int
    <3>1. last \in SectionHeader
      BY <1>2, <1>3 DEF Header
    <3>2. h.soh \in DWord /\ last.va \in DWord
      <4> HIDE DEF last
      <4> QED BY <1>2, <3>1 DEF Header, SectionHeader
    <3> QED BY <3>2, ImageAssumption DEF DWord
  <2>2. h.soh <= last.va
    BY <1>3 DEF Ordered
  <2> HIDE DEF h, last, size
  <2> QED BY <1>5, <1>6, <1>7, <2>1, <2>2
<1>10. pe.hdr = h /\ SameSections(h, dumped.image)
  BY <1>1 DEF ReloadInv
<1>11. Shared(dumped.image, pe.image, size)
  <2>1. \A a \in last.va .. last.va + last.raw - 1 :
           a \in DOMAIN pe.image /\ pe.image[a] = dumped.image[a]
    BY <1>3, <1>10 DEF SameSections
  <2>2. last.va \in Int /\ last.raw \in Int
    <3>1. last \in SectionHeader
      BY <1>2, <1>3 DEF Header
    <3> QED BY <3>1, ImageAssumption DEF SectionHeader, DWord
  <2>3. ASSUME NEW a \in size .. room - 1 PROVE a \in last.va .. last.va + last.raw - 1
    <3> HIDE DEF last, size, room, h
    <3> QED BY <1>2, <1>5, <1>6, <2>2
  <2> QED BY <2>1, <2>3 DEF Shared
<1> QED BY <1>2, <1>4, <1>5, <1>7, <1>8, <1>9, <1>10, <1>11

\* Those are what the loader takes from a reloaded image.
LEMMA TableIsReadBack ==
  ASSUME ImageInv, FileInv, ReloadInv, TableInv PROVE TableReads
<1> DEFINE before == OldLibraries(dumped.read, Size(dumped.read), dumped.desc)
           now == OldLibraries(pe.image, Size(pe.image), pe.hdr.imp)
<1> SUFFICES ASSUME Reloaded, options.ImportRec, TableInLast
             PROVE  /\ Len(before) <= Len(now) /\ \A i \in 1 .. Len(before) : now[i] = before[i]
                    /\ {Imported(now[i].descriptor) : i \in Len(before) + 1 .. Len(now)} = Wanted
  BY DEF TableReads
<1> DEFINE size == Size(dumped.read)
           bits == dumped.hdr.bits
<1>1. /\ size \in Nat /\ pe.hdr.imp = size
      /\ Size(dumped.image) \in Nat /\ Shared(dumped.image, pe.image, size)
      /\ HasTable(dumped.image, size, dumped.read, dumped.desc, bits, module)
  BY TableIsThere, Zenon
<1>2. PICK libs : /\ Lists(libs, dumped.read, dumped.desc, bits, module)
                  /\ Built(dumped.image, size, size, libs)
  BY <1>1, Zenon DEF HasTable
<1>3. Buffer(pe.image)
  BY DEF ImageInv, BuffersOK
<1>4. now = OldLibraries(pe.image, Size(pe.image), size)
  BY <1>1
<1>5. /\ Len(before) <= Len(now) /\ \A i \in 1 .. Len(before) : now[i] = before[i]
      /\ {ImportedFrom(pe.image, now[i].descriptor) : i \in Len(before) + 1 .. Len(now)}
         = WantedOf(dumped.read, bits, module)
  <2> HIDE DEF size, bits
  <2> QED BY <1>1, <1>2, <1>3, <1>4, ImportsRead DEF size
<1>6. \A i : Imported(now[i].descriptor) = ImportedFrom(pe.image, now[i].descriptor)
  BY Zenon DEF Imported, ImportedFrom
<1>7. {Imported(now[i].descriptor) : i \in Len(before) + 1 .. Len(now)}
      = {ImportedFrom(pe.image, now[i].descriptor) : i \in Len(before) + 1 .. Len(now)}
  BY <1>6, Zenon
<1>8. Wanted = WantedOf(dumped.read, bits, module)
  <2>1. \A a : AddressAt(a) = AddressOf(dumped.read, bits, a)
    BY Zenon DEF AddressAt, AddressOf
  <2>2. Found = FoundIn(dumped.read, bits, module)
    BY <2>1, Zenon DEF Found, FoundIn
  <2>3. Wanted = {Import(module.exports[AddressAt(a)], a) : a \in Found}
    BY Zenon DEF Wanted, Import
  <2>4. {Import(module.exports[AddressAt(a)], a) : a \in Found}
        = {Import(module.exports[AddressOf(dumped.read, bits, a)], a) : a \in Found}
    BY <2>1, Zenon
  <2> QED BY <2>2, <2>3, <2>4, Zenon DEF WantedOf
<1> QED BY <1>5, <1>7, <1>8

\* The import directory that is rebuilt for an image with import reconstruction is the one
\* a loader finds in the dumped file: the descriptors the image had, and one for each
\* address of an export that was found in it, under the right names (TableReads).
THEOREM TableIsRead == Spec => []TableReads
<1> DEFINE Inv == /\ ImageInv /\ LayoutInv /\ ChainInv /\ FileInv /\ ReloadInv
                  /\ BitsInv /\ TableInv
<1>1. Init => Inv
  <2> SUFFICES ASSUME Init PROVE Inv
    OBVIOUS
  <2>1. pc = "ready" /\ dumped = NoDump /\ job.from = "none"
    BY DEF Init
  <2>2. LayoutInv /\ ChainInv /\ BitsInv
    BY <2>1 DEF LayoutInv, ChainInv, BitsInv, WithHeader
  <2>3. FileInv
    BY <2>1 DEF FileInv, NoDump
  <2>4. ReloadInv
    BY <2>1 DEF ReloadInv, Again
  <2>5. TableInv
    <3>1. TableGrows /\ TableThere /\ TableStays
      BY <2>1 DEF TableGrows, TableThere, TableStays
    <3>2. TableWritten
      BY <2>1 DEF TableWritten, NoDump
    <3> QED BY <3>1, <3>2 DEF TableInv
  <2> QED BY <2>2, <2>3, <2>4, <2>5, ImageBegins
<1>2. Inv /\ [Next]_vars => Inv'
  BY ImageStep, LayoutStep, ChainStep, FileStep, ReloadStep, BitsStep, TableKept
<1>3. Inv => TableReads
  BY TableIsReadBack
<1> HIDE DEF Inv
<1> QED BY <1>1, <1>2, <1>3, PTL DEF Spec

=============================================================================
