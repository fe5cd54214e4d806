-------------------------- MODULE MemoryScanProofs --------------------------
(***************************************************************************)
(* Theorems about MemoryScan, for every size of a page and of the memory,  *)
(* every content of it and every change the process makes to it: what a    *)
(* read returns, what the filters of the export list let through, and that *)
(* nothing is dumped twice; and, as long as the process does not change    *)
(* it, that a dump is complete and that what was collected as clean is not *)
(* dumped.                                                                 *)
(***************************************************************************)
EXTENDS MemoryScan, FiniteSetTheorems, WellFoundedInduction, TLAPS

(* Pages.                                                                  *)

\* Multiples of a page.
LEMMA Multiple == ASSUME NEW k \in Int PROVE k * PageSize \in Int /\ Aligned(k * PageSize)
  BY StreamAssumption DEF Aligned

\* The start of the page of an aligned address is the address.
LEMMA PageStart == ASSUME NEW a \in Int, Aligned(a) PROVE PageOf(a) * PageSize = a
  BY StreamAssumption DEF Aligned, PageOf

\* An address lies in its page.
LEMMA InPage ==
  ASSUME NEW a \in Int
  PROVE  /\ PageOf(a) \in Int
         /\ PageOf(a) * PageSize <= a
         /\ a < PageOf(a) * PageSize + PageSize
  BY StreamAssumption DEF PageOf

\* Sums of multiples of a page are multiples of it.
LEMMA AlignedSum ==
  ASSUME NEW a \in Int, NEW b \in Int, Aligned(a), Aligned(b)
  PROVE  Aligned(a + b)
<1>1. /\ PageOf(a) \in Int /\ PageOf(a) * PageSize = a
      /\ PageOf(b) \in Int /\ PageOf(b) * PageSize = b
  BY InPage, PageStart
<1>2. a + b = (PageOf(a) + PageOf(b)) * PageSize
  BY <1>1, StreamAssumption
<1> QED
  BY <1>1, <1>2, Multiple

\* A region begins with the page of the address and holds that page at least.
LEMMA RegionFacts ==
  ASSUME NEW a \in Int, InSpace(a)
  PROVE  LET r == Region(a)
         IN  /\ r.base \in Int /\ r.size \in Nat
             /\ r.base <= a /\ a < r.base + PageSize /\ PageSize <= r.size
             /\ Aligned(r.base) /\ Aligned(r.size)
             /\ Aligned(a) => r.base = a
<1> DEFINE p == PageOf(a)
           Rest == {q \in Pages : q > p /\ \A k \in p .. q : SamePages(p, k)}
<1>1. p \in Int
  BY InPage
<1>2. IsFiniteSet(Pages)
  BY FS_Interval, StreamAssumption DEF Pages
<1>3. Cardinality(Rest) \in Nat
  BY <1>2, FS_Subset, FS_CardinalityType
<1> DEFINE n == LastPage(p) - p + 1
<1>4. n \in Nat /\ n >= 1
  BY <1>1, <1>3 DEF LastPage
<1>5. n * PageSize \in Nat /\ n * PageSize >= PageSize
  BY <1>4, StreamAssumption
<1>6. Region(a).base = p * PageSize /\ Region(a).size = n * PageSize
  BY DEF Region
<1>7. /\ p * PageSize \in Int /\ p * PageSize <= a /\ a < p * PageSize + PageSize
      /\ Aligned(a) => p * PageSize = a
  BY <1>1, InPage, PageStart, StreamAssumption
<1>8. Aligned(p * PageSize) /\ Aligned(n * PageSize)
  BY <1>1, <1>4, Multiple
<1> HIDE DEF n, p
<1> QED
  BY <1>5, <1>6, <1>7, <1>8

\* A copy is never longer than what was asked for.
LEMMA CopiedRange == ASSUME NEW a, NEW n \in Nat PROVE Copied(a, n) \in 0 .. n
<1> DEFINE S == {k \in 0 .. n - 1 : \A i \in 0 .. k : Accessible(a + i)}
<1>1. IsFiniteSet(0 .. n - 1) /\ Cardinality(0 .. n - 1) = n
  BY FS_Interval
<1>2. IsFiniteSet(S) /\ Cardinality(S) <= Cardinality(0 .. n - 1)
  BY <1>1, FS_Subset
<1> QED
  BY <1>1, <1>2, FS_CardinalityType DEF Copied
-----------------------------------------------------------------------------
(* Reads.                                                                  *)

\* The locals of read.
StreamOK ==
  /\ DOMAIN rd = {"loc", "start", "size", "already", "outRead", "out", "spill", "region"}
  /\ rd.start \in Int /\ rd.size \in Nat /\ rd.already \in Nat
  /\ rd.outRead \in Nat /\ rd.spill \in Nat
  /\ DOMAIN rd.out = 0 .. rd.size - 1
  /\ rd.loc = "copy" =>
       /\ rd.already < rd.size
       /\ rd.region.base \in Int /\ rd.region.size \in Nat
       /\ rd.region.base <= Position /\ Position < rd.region.base + PageSize
       /\ PageSize <= rd.region.size
       /\ Aligned(rd.region.base) /\ Aligned(rd.region.size)
       /\ Aligned(Position) => rd.region.base = Position

\* What was read is in its place, and nothing is missing as long as as much was
\* read as was gone over.
InPlace ==
  /\ \A i \in DOMAIN rd.out : rd.out[i] # Untouched => rd.out[i][1] = rd.start + i
  /\ rd.outRead <= rd.already
  /\ rd.outRead = rd.already =>
       \A i \in DOMAIN rd.out : i < rd.already => rd.out[i] # Untouched

\* A read from a page boundary goes on at page boundaries.
OnBoundaries ==
  Aligned(rd.start) => rd.spill = 0 /\ (rd.already < rd.size => Aligned(Position))

StreamInv == StreamOK /\ InPlace /\ OnBoundaries

CellsAreNoMark == \A a, b : <<a, b>> # Untouched

\* A read begins in good order.
LEMMA ReadBegins ==
  ASSUME NEW start \in Int, NEW size \in Nat, rd' = NewRead(start, size)
  PROVE  StreamInv'
  BY DEF NewRead, NoRead, StreamInv, StreamOK, InPlace, OnBoundaries, Position, Aligned

\* So does none.
LEMMA NoReadBegins == rd' = NoRead => StreamInv'
  BY DEF NoRead, StreamInv, StreamOK, InPlace, OnBoundaries, Position

\* One copy.
LEMMA CopyStep ==
  ASSUME CellsAreNoMark, StreamInv, rd.loc = "copy", NEW n \in Nat, n > 0, Copy(n),
         Aligned(rd.start) => rd.already + n <= rd.size /\ (rd.already + n < rd.size => Aligned(Position + n))
  PROVE  StreamInv'
<1> DEFINE k == Copied(Position, n)
<1>1. k \in 0 .. n
  BY CopiedRange
<1>2. /\ rd'.loc = "query" /\ rd'.start = rd.start /\ rd'.size = rd.size
      /\ rd'.already = rd.already + n /\ rd'.outRead = rd.outRead + k
      /\ DOMAIN rd' = DOMAIN rd
      /\ rd'.out = [i \in DOMAIN rd.out |->
                      IF i >= rd.already /\ i < rd.already + k THEN Cell(rd.start + i) ELSE rd.out[i]]
      /\ rd'.spill = IF rd.already + k > rd.size THEN rd.spill + rd.already + k - rd.size ELSE rd.spill
  BY DEF Copy, StreamInv, StreamOK
<1>3. StreamOK'
  <2> HIDE DEF k
  <2>1. rd'.outRead \in Nat /\ rd'.already \in Nat /\ rd'.spill \in Nat
    <3>1. /\ rd.size \in Nat /\ rd.already \in Nat /\ rd.outRead \in Nat
          /\ rd.spill \in Nat
      BY DEF StreamInv, StreamOK
    <3>2. \/ rd'.spill = rd.spill + rd.already + k - rd.size /\ rd.already + k > rd.size
          \/ rd'.spill = rd.spill
      BY <1>2
    <3> QED
      BY <1>1, <1>2, <3>1, <3>2
  <2>2. DOMAIN rd'.out = DOMAIN rd.out
    BY <1>2
  <2> QED
    BY <1>2, <2>1, <2>2 DEF StreamInv, StreamOK
<1>4. InPlace'
  <2>1. ASSUME NEW i \in DOMAIN rd'.out, rd'.out[i] # Untouched
        PROVE  rd'.out[i][1] = rd'.start + i
    BY <1>2, <2>1 DEF StreamInv, InPlace, Cell
  <2>2. rd'.outRead <= rd'.already
    BY <1>1, <1>2 DEF StreamInv, StreamOK, InPlace
  <2>3. ASSUME rd'.outRead = rd'.already, NEW i \in DOMAIN rd'.out, i < rd'.already
        PROVE  rd'.out[i] # Untouched
    <3>1. k = n /\ rd.outRead = rd.already
      BY <1>1, <1>2, <2>3 DEF StreamInv, StreamOK, InPlace
    <3>2. i \in Int
      BY <1>2 DEF StreamInv, StreamOK
    <3> QED
      BY <1>2, <2>3, <3>1, <3>2 DEF StreamInv, StreamOK, InPlace, Cell, CellsAreNoMark
  <2> QED
    BY <2>1, <2>2, <2>3 DEF InPlace
<1>5. OnBoundaries'
  BY <1>1, <1>2 DEF StreamInv, StreamOK, OnBoundaries, Position, Aligned
<1> QED
  BY <1>3, <1>4, <1>5 DEF StreamInv

\* A step of a read.
LEMMA ReadStepKeeps == ASSUME CellsAreNoMark, StreamInv, ReadStep PROVE StreamInv'
<1> USE StreamAssumption
<1>0. Position \in Int
  BY DEF StreamInv, StreamOK, Position
<1>1. CASE QueryRegion
  <2>1. /\ rd'.loc = "copy" /\ rd'.start = rd.start /\ rd'.size = rd.size
        /\ rd'.already = rd.already /\ rd'.outRead = rd.outRead /\ rd'.out = rd.out
        /\ DOMAIN rd' = DOMAIN rd /\ rd'.spill = rd.spill /\ rd'.region = Region(Position)
    BY <1>1 DEF QueryRegion, StreamInv, StreamOK
  <2>2. InSpace(Position) /\ rd.already < rd.size
    BY <1>1 DEF QueryRegion, Reading
  <2>3. Position' = Position
    BY <2>1 DEF Position
  <2>4. StreamOK'
    BY <1>0, <2>1, <2>2, <2>3, RegionFacts DEF StreamInv, StreamOK, Aligned
  <2> QED
    BY <2>1, <2>3, <2>4 DEF StreamInv, InPlace, OnBoundaries, Aligned
<1>2. CASE QueryFails
  <2>1. /\ rd'.loc = "query" /\ rd'.start = rd.start /\ rd'.size = rd.size
        /\ rd'.already = rd.already + PageSize /\ rd'.outRead = rd.outRead /\ rd'.out = rd.out
        /\ DOMAIN rd' = DOMAIN rd /\ rd'.spill = rd.spill
    BY <1>2 DEF QueryFails, StreamInv, StreamOK
  <2>2. rd.already < rd.size
    BY <1>2 DEF QueryFails, Reading
  <2>3. Aligned(PageSize)
    BY DEF Aligned
  <2>4. Position' = Position + PageSize
    BY <2>1 DEF Position, StreamInv, StreamOK
  <2>5. Aligned(Position) => Aligned(Position + PageSize)
    BY <1>0, <2>3, AlignedSum
  <2>6. OnBoundaries'
    BY <2>1, <2>2, <2>4, <2>5 DEF StreamInv, OnBoundaries, Aligned
  <2> QED
    BY <2>1, <2>6 DEF StreamInv, StreamOK, InPlace
<1>3. CASE rd.loc = "copy" /\ ReadWhole
  <2> DEFINE n == rd.region.size
  <2>1. n \in Nat /\ n > 0 /\ Copy(n)
    BY <1>3 DEF ReadWhole, StreamInv, StreamOK
  <2>2. ASSUME Aligned(rd.start)
        PROVE  rd.already + n <= rd.size /\ Aligned(Position + n)
    <3>1. Aligned(Position) /\ rd.region.base = Position
      BY <1>3, <2>2 DEF StreamInv, StreamOK, OnBoundaries
    <3>2. Aligned(n) /\ n \in Int
      BY <1>3, <2>1 DEF StreamInv, StreamOK
    <3>3. Aligned(Position + n)
      <4> HIDE DEF n
      <4> QED
        BY <1>0, <3>1, <3>2, AlignedSum
    <3> QED
      BY <1>3, <3>1, <3>3, SMTT(30) DEF ReadWhole, WholeRegion, Position, StreamInv, StreamOK
  <2> QED
    BY <1>3, <2>1, <2>2, CopyStep
<1>4. CASE rd.loc = "copy" /\ ReadPart
  <2> DEFINE n == rd.size - rd.already
  <2>1. n \in Nat /\ n > 0 /\ Copy(n) /\ rd.already + n = rd.size
    BY <1>4, SMTT(30) DEF ReadPart, StreamInv, StreamOK
  <2> QED
    BY <1>4, <2>1, CopyStep DEF StreamInv, StreamOK
<1>5. CASE rd.loc = "copy" /\ SkipRegion
  <2> DEFINE step == rd.region.size - (Position - rd.region.base)
  <2>1. /\ rd'.loc = "query" /\ rd'.start = rd.start /\ rd'.size = rd.size
        /\ rd'.already = rd.already + step /\ rd'.outRead = rd.outRead /\ rd'.out = rd.out
        /\ DOMAIN rd' = DOMAIN rd /\ rd'.spill = rd.spill
    BY <1>0, <1>5 DEF SkipRegion, StreamInv, StreamOK
  <2>2. step \in Nat /\ step > 0
    BY <1>0, <1>5, SMTT(30) DEF StreamInv, StreamOK
  <2>3. Position' = rd.region.base + rd.region.size
    BY <1>0, <1>5, <2>1, SMTT(30) DEF Position, StreamInv, StreamOK
  <2>4. Aligned(rd.region.base + rd.region.size)
    <3>1. /\ rd.region.base \in Int /\ Aligned(rd.region.base)
          /\ rd.region.size \in Int /\ Aligned(rd.region.size)
      BY <1>5 DEF StreamInv, StreamOK
    <3> QED
      BY <3>1, AlignedSum
  <2>5. OnBoundaries'
    BY <2>1, <2>3, <2>4, <1>5 DEF StreamInv, StreamOK, OnBoundaries, Aligned
  <2>6. StreamOK'
    <3> HIDE DEF step
    <3> QED
      BY <2>1, <2>2 DEF StreamInv, StreamOK
  <2>7. InPlace'
    <3> HIDE DEF step
    <3> QED
      BY <2>1, <2>2 DEF StreamInv, StreamOK, InPlace
  <2> QED
    BY <2>5, <2>6, <2>7 DEF StreamInv
<1> QED
  BY <1>1, <1>2, <1>3, <1>4, <1>5 DEF ReadStep, ReadRegion64, ReadRegion32
-----------------------------------------------------------------------------
(* Where the walks read.                                                   *)

Jobs == [kind : {"collect", "dump", "region"}, base : Nat]

\* The addresses the walks keep are numbers.
WalkOK ==
  /\ jobs \in Seq(Jobs) /\ job.base \in Nat
  /\ address \in Int /\ base \in Int /\ mbi.base \in Int /\ mbi.end \in Int
  /\ heaps \subseteq Int /\ heap \in Int
  /\ DOMAIN gens = {"at", "minSize", "name", "wides", "back"} /\ gens.at \in Int

\* Regions have numbers for bounds.
LEMMA InfoFacts == ASSUME NEW a \in Int PROVE MbiInfo(a).base \in Int /\ MbiInfo(a).end \in Int
<1>1. CASE InSpace(a)
  <2>1. Region(a).base \in Int /\ Region(a).size \in Nat
    BY <1>1, RegionFacts
  <2> QED
    BY <1>1, <2>1 DEF MbiInfo
<1>2. CASE ~InSpace(a)
  BY <1>2 DEF MbiInfo, NoRegion
<1> QED
  BY <1>1, <1>2

\* A generated image is no smaller than its headers.
LEMMA ImageEndFacts ==
  ASSUME NEW a \in Int, NEW minSize, NEW limit
  PROVE  ImageEnd(a, minSize, limit) \in Int /\ ImageEnd(a, minSize, limit) >= a
<1>1. EstimateSectionSize(a) \in Nat
  BY RegionFacts DEF EstimateSectionSize
<1>2. FirstGap(a) \in Int /\ FirstGap(a) >= a
  <2> DEFINE n == NumPages * PageSize - a
  <2>1. n \in Int
    BY StreamAssumption
  <2>2. CASE n >= 0
    <3> HIDE DEF n
    <3>1. Copied(a, n) \in 0 .. n
      BY <2>1, <2>2, CopiedRange
    <3> QED
      BY <2>1, <3>1 DEF FirstGap, n
  <2>3. CASE n < 0
    <3> HIDE DEF n
    <3>1. {k \in 0 .. n - 1 : \A i \in 0 .. k : Accessible(a + i)} = {}
      BY <2>1, <2>3
    <3>2. Copied(a, n) = 0
      BY <3>1, FS_EmptySet DEF Copied
    <3> QED
      BY <3>2 DEF FirstGap, n
  <2> QED
    BY <2>1, <2>2, <2>3
<1> QED
  BY <1>1, <1>2 DEF ImageEnd

\* A read begins with numbers for its arguments, goes on, or ends.
ReadMoves ==
  \/ UNCHANGED rd
  \/ rd' = NoRead
  \/ \E start \in Int, size \in Nat : rd' = NewRead(start, size)
  \/ ReadStep

\* The read of a generated image begins so.
LEMMA GeneratedBegins ==
  ASSUME NEW a \in Int, NEW minSize, NEW limit, ReadGenerated(a, minSize, limit)
  PROVE  ReadMoves
<1> DEFINE size == GenHeader + ImageEnd(a, minSize, limit) - a
<1>1. a - GenHeader \in Int /\ size \in Nat
  BY ImageEndFacts, StreamAssumption DEF GenHeader
<1>2. rd' = NewRead(a - GenHeader, size)
  BY DEF ReadGenerated
<1> HIDE DEF size
<1> QED
  BY <1>1, <1>2 DEF ReadMoves

\* Every step keeps the walks' addresses in order, and with them the reads.
LEMMA WalkStep ==
  ASSUME WalkOK, [Next]_vars
  PROVE  WalkOK' /\ ReadMoves
<1> USE DEF streamVars, envVars, listVars, walkVars, chunkVars, hashVars
<1>0. UNCHANGED rd => ReadMoves
  BY DEF ReadMoves
<1>1. ASSUME UNCHANGED <<jobs, job, address, base, mbi, heaps, heap, gens>> PROVE WalkOK'
  BY <1>1 DEF WalkOK
<1>2. CASE UNCHANGED vars \/ Terminated \/ Flip
  BY <1>0, <1>1, <1>2 DEF vars, Terminated, Flip
<1>3. CASE StartJob
  <2>1. job' \in Jobs /\ jobs' \in Seq(Jobs)
    BY <1>3 DEF StartJob, WalkOK
  <2> QED
    BY <1>0, <1>3, <2>1 DEF StartJob, WalkOK, Jobs
<1>4. CASE \/ BeginList \/ (\E b \in todo : LoadExports(b)) \/ LoadName
           \/ (\E a \in found.list.addresses : MergeExport(a)) \/ MergeDone \/ ListDone
           \/ HeapsDone \/ EndJob
  <2>1. UNCHANGED <<rd, jobs, job, address, base, mbi, heaps, heap, gens>>
    BY <1>4 DEF BeginList, LoadExports, LoadName, MergeExport, MergeDone, ListDone, HeapsDone, EndJob
  <2> QED
    BY <1>0, <1>1, <2>1
<1>5. CASE BeginWalk
  BY <1>0, <1>5 DEF BeginWalk, WalkOK
<1>6. CASE FindHeaps
  <2>1. MbiInfo(address).base \in Int /\ MbiInfo(address).end \in Int
    BY InfoFacts DEF WalkOK
  <2>2. UNCHANGED <<rd, jobs, job, base, mbi, heap, gens>>
    BY <1>6 DEF FindHeaps
  <2>3. heaps' \subseteq Int
    BY <1>6, <2>1 DEF FindHeaps, WalkOK
  <2>4. address' \in Int
    BY <1>6, <2>1 DEF FindHeaps, WalkOK
  <2> QED
    BY <1>0, <2>2, <2>3, <2>4 DEF WalkOK
<1>7. CASE QueryNext
  <2>1. mbi'.base \in Int /\ mbi'.end \in Int
    BY <1>7, InfoFacts DEF QueryNext, WalkOK
  <2>2. base' \in Int
    BY <1>7, <2>1, StreamAssumption DEF QueryNext
  <2> QED
    BY <1>0, <1>7, <2>1, <2>2 DEF QueryNext, WalkOK
<1>8. CASE NextRegion \/ Skip
  <2>1. UNCHANGED <<rd, jobs, job, mbi, heaps, heap, gens>>
    BY <1>8 DEF NextRegion, Skip
  <2>2. address' \in Int /\ base' \in Int
    BY <1>8, StreamAssumption DEF NextRegion, Skip, NextPage, WalkOK
  <2> QED
    BY <1>0, <2>1, <2>2 DEF WalkOK
<1>9. CASE FoundHeader
  <2> DEFINE h == HeaderOf[BodyAt(base)]
  <2>1. h.pages * PageSize \in Nat
    BY <1>9, ScanAssumption, StreamAssumption DEF FoundHeader, IsHeader
  <2>2. rd' = NewRead(base, h.pages * PageSize) \/ UNCHANGED rd
    BY <1>9 DEF FoundHeader
  <2>3. ReadMoves
    BY <1>0, <2>1, <2>2 DEF ReadMoves, WalkOK
  <2>4. WalkOK'
    <3>1. UNCHANGED <<jobs, job, address, mbi, heap, gens>>
      BY <1>9 DEF FoundHeader
    <3>2. ExcludeHeaps(base, 0) \/ UNCHANGED heaps
      BY <1>9 DEF FoundHeader
    <3>3. base' \in Int
      BY <1>9, StreamAssumption DEF FoundHeader, NextPage, WalkOK
    <3> QED
      BY <3>1, <3>2, <3>3 DEF ExcludeHeaps, WalkOK
  <2> QED
    BY <2>3, <2>4
<1>10. CASE CollectModule \/ DumpModule \/ CollectChunk \/ DumpChunk \/ DumpRegion \/ DumpGenerated
  <2>1. ReadMoves
    BY <1>10
       DEF ReadMoves, CollectModule, DumpModule, CollectChunk, DumpChunk, DumpRegion, DumpGenerated
  <2>2. CASE CollectModule
    <3>1. UNCHANGED <<jobs, job, address, mbi, heap, gens>>
      BY <2>2 DEF CollectModule
    <3>2. heaps' \subseteq Int /\ base' \in Int
      <4>1. ExcludeHeaps(base, rd.size) /\ (NextPage \/ UNCHANGED base)
        BY <2>2 DEF CollectModule
      <4>2. heaps' \subseteq heaps
        BY <4>1 DEF ExcludeHeaps
      <4>3. base' \in Int
        BY <4>1, StreamAssumption DEF NextPage, WalkOK
      <4> QED
        BY <4>2, <4>3 DEF WalkOK
    <3> QED
      BY <2>1, <3>1, <3>2 DEF WalkOK
  <2>3. CASE DumpModule
    <3>1. UNCHANGED <<jobs, job, address, mbi, heap>>
      BY <2>3 DEF DumpModule
    <3>2. heaps' \subseteq Int /\ base' \in Int
      <4>1. ExcludeHeaps(base, rd.size) /\ (NextPage \/ UNCHANGED base)
        BY <2>3 DEF DumpModule
      <4>2. heaps' \subseteq heaps
        BY <4>1 DEF ExcludeHeaps
      <4>3. base' \in Int
        BY <4>1, StreamAssumption DEF NextPage, WalkOK
      <4> QED
        BY <4>2, <4>3 DEF WalkOK
    <3>3. UNCHANGED gens \/ gens' = Generated(base, GenHeader, NameIn(modules, base), "pages")
      BY <2>3 DEF DumpModule
    <3> QED
      BY <2>1, <3>1, <3>2, <3>3 DEF Generated, WalkOK
  <2>4. CASE CollectChunk \/ DumpRegion
    <3>1. UNCHANGED <<jobs, job, address, base, mbi, heaps, heap, gens>>
      BY <2>4 DEF CollectChunk, DumpRegion
    <3> QED
      BY <2>1, <1>1, <3>1
  <2>5. CASE DumpChunk
    <3>1. UNCHANGED <<jobs, job, address, base, mbi, heaps, heap>>
      BY <2>5 DEF DumpChunk
    <3>2. UNCHANGED gens \/ gens' = Generated(heap, GenHeader, "codechunk", "chunks")
      BY <2>5 DEF DumpChunk
    <3> QED
      BY <2>1, <3>1, <3>2 DEF Generated, WalkOK
  <2>6. CASE DumpGenerated
    <3>1. UNCHANGED <<jobs, job, address, mbi, heaps, heap>>
      BY <2>6 DEF DumpGenerated
    <3>2. base' \in Int
      BY <2>6, StreamAssumption DEF DumpGenerated, NextPage, WalkOK
    <3>3. gens' = [gens EXCEPT !.wides = Tail(@)]
      BY <2>6 DEF DumpGenerated
    <3> QED
      BY <2>1, <3>1, <3>2, <3>3 DEF WalkOK
  <2> QED
    BY <1>10, <2>1, <2>2, <2>3, <2>4, <2>5, <2>6
<1>11. CASE \E h \in heaps : LookAtHeap(h)
  <2> PICK h \in heaps : LookAtHeap(h)
    BY <1>11
  <2>1. h \in Int /\ WalkOK'
    BY DEF LookAtHeap, WalkOK
  <2>2. UNCHANGED rd \/ ReadGenerated(h, GenHeader, 1)
    BY DEF LookAtHeap
  <2> QED
    BY <1>0, <2>1, <2>2, GeneratedBegins
<1>12. CASE BuildHeader
  <2>1. gens.at \in Int /\ ReadGenerated(gens.at, gens.minSize, 99)
    BY <1>12 DEF BuildHeader, WalkOK
  <2> QED
    BY <1>1, <1>12, <2>1, GeneratedBegins DEF BuildHeader
<1>13. CASE BeginRegion
  <2> DEFINE h == HeaderOf[BodyAt(job.base)]
  <2>1. UNCHANGED rd \/ (rd' = NewRead(job.base, h.pages * PageSize) /\ IsHeader(job.base))
    BY <1>13 DEF BeginRegion
  <2>2. IsHeader(job.base) => h.pages * PageSize \in Nat
    BY ScanAssumption, StreamAssumption DEF IsHeader
  <2>3. ReadMoves
    BY <1>0, <2>1, <2>2 DEF ReadMoves, WalkOK
  <2>4. WalkOK'
    BY <1>13 DEF BeginRegion, Generated, WalkOK
  <2> QED
    BY <2>3, <2>4
<1>14. CASE Read
  BY <1>1, <1>14 DEF Read, ReadMoves
<1> QED
  BY <1>2, <1>3, <1>4, <1>5, <1>6, <1>7, <1>8, <1>9, <1>10, <1>11, <1>12, <1>13, <1>14
     DEF Next, Tool

\* A step of a read or none keeps the size that was asked for.
SizeOK == "size" \in DOMAIN rd /\ rd.size \in Nat

\* Addresses and sizes are numbers at any time.
THEOREM WalkHolds == Spec => [](WalkOK /\ SizeOK)
<1>1. Init => WalkOK /\ SizeOK
  BY ScanAssumption DEF Init, WalkOK, SizeOK, Jobs, NoRegion, NoGens, NoRead
<1>2. SizeOK /\ ReadMoves => SizeOK'
  <2>1. ASSUME SizeOK, ReadStep PROVE SizeOK'
    BY <2>1 DEF SizeOK, ReadStep, QueryRegion, QueryFails, ReadRegion64, ReadRegion32,
                ReadWhole, ReadPart, SkipRegion, Copy
  <2>2. ASSUME NEW start \in Int, NEW size \in Nat, rd' = NewRead(start, size) PROVE SizeOK'
    BY <2>2 DEF SizeOK, NoRead, NewRead
  <2>3. ASSUME rd' = NoRead PROVE SizeOK'
    BY <2>3 DEF SizeOK, NoRead
  <2>4. ASSUME SizeOK, UNCHANGED rd PROVE SizeOK'
    BY <2>4 DEF SizeOK
  <2> QED
    BY <2>1, <2>2, <2>3, <2>4 DEF ReadMoves
<1>3. WalkOK /\ SizeOK /\ [Next]_vars => (WalkOK /\ SizeOK)'
  BY <1>2, WalkStep
<1> QED
  BY <1>1, <1>3, PTL DEF Spec

\* Every read of the tool is in order, whatever the process does to its memory.
THEOREM ReadsInOrder == ASSUME CellsAreNoMark PROVE Spec => []StreamInv
<1>1. Init => StreamInv
  BY DEF Init, NoRead, StreamInv, StreamOK, InPlace, OnBoundaries
<1>2. StreamInv /\ ReadMoves => StreamInv'
  <2>1. ASSUME StreamInv, UNCHANGED rd PROVE StreamInv'
    BY <2>1 DEF StreamInv, StreamOK, InPlace, OnBoundaries, Position, Aligned
  <2> QED
    BY <2>1, ReadBegins, NoReadBegins, ReadStepKeeps DEF ReadMoves
<1>3. WalkOK /\ StreamInv /\ [Next]_vars => StreamInv'
  BY <1>2, WalkStep
<1> QED
  BY <1>1, <1>3, WalkHolds, PTL DEF Spec

\* A read from a page boundary stays in its buffer, although the size of a region
\* is asked for before the copy and the region may be another one by then.
THEOREM BufferHolds == ASSUME CellsAreNoMark PROVE Spec => []StaysInside
<1>1. StreamInv => StaysInside
  BY DEF StreamInv, OnBoundaries, StaysInside
<1> QED
  BY <1>1, ReadsInOrder, PTL

\* A read that reports success has read everything, every cell to its place.
THEOREM ReadsAreTrue == ASSUME CellsAreNoMark PROVE Spec => []TellsTheTruth
<1>1. StreamInv => TellsTheTruth
  BY DEF StreamInv, StreamOK, InPlace, TellsTheTruth, ReadDone, ReadResult
<1> QED
  BY <1>1, ReadsInOrder, PTL
-----------------------------------------------------------------------------
(* The export list.                                                        *)

\* The filters of a list let its addresses through.
ListOK(l) ==
  /\ DOMAIN l = {"entries", "addresses", "min32", "max32", "bits32", "min64", "max64", "bits64"}
  /\ l.addresses = DOMAIN l.entries /\ l.addresses \subseteq Int
  /\ l.min32 \in Int /\ l.max32 \in Int /\ l.min64 \in Int /\ l.max64 \in Int
  /\ \A a \in l.addresses :
       IF a <= UintMax THEN l.min32 <= a /\ a <= l.max32 /\ Bits(a) \subseteq l.bits32
                       ELSE l.min64 <= a /\ a <= l.max64 /\ Bits(a) \subseteq l.bits64

\* An empty list has nothing to let through.
LEMMA EmptyListOK == ListOK(NewList)
  BY ListAssumption DEF ListOK, NewList

\* An entry more changes nothing of that.
LEMMA AddKeeps ==
  ASSUME NEW l, ListOK(l), NEW a \in Int, NEW e
  PROVE  ListOK(AddExport(l, a, e))
<1> USE ListAssumption
<1>1. CASE a \in DOMAIN l.entries
  BY <1>1 DEF AddExport
<1>2. CASE a \notin DOMAIN l.entries
  <2> DEFINE f == [x \in DOMAIN l.entries \cup {a} |-> IF x = a THEN e ELSE l.entries[x]]
             m == [l EXCEPT !.entries = f, !.addresses = @ \cup {a}]
  <2>1. AddExport(l, a, e) = IF a > UintMax THEN Filter64(m, a) ELSE Filter32(m, a)
    BY <1>2 DEF AddExport, ListOK
  <2>2. /\ DOMAIN m = DOMAIN l
        /\ m.entries = f /\ m.addresses = l.addresses \cup {a} /\ DOMAIN f = m.addresses
        /\ m.min32 = l.min32 /\ m.max32 = l.max32 /\ m.bits32 = l.bits32
        /\ m.min64 = l.min64 /\ m.max64 = l.max64 /\ m.bits64 = l.bits64
    BY DEF ListOK
  <2> HIDE DEF m
  <2>3. ASSUME a > UintMax PROVE ListOK(Filter64(m, a))
    <3> DEFINE g == Filter64(m, a)
    <3>1. /\ DOMAIN g = DOMAIN l
          /\ g.entries = m.entries /\ g.addresses = m.addresses
          /\ g.min32 = m.min32 /\ g.max32 = m.max32 /\ g.bits32 = m.bits32
          /\ g.min64 = Smaller(a, m.min64) /\ g.max64 = Larger(a, m.max64)
          /\ g.bits64 = m.bits64 \cup Bits(a)
      BY <2>2 DEF Filter64, ListOK
    <3> HIDE DEF g
    <3>2. /\ g.min64 \in Int /\ g.min64 <= a /\ g.min64 <= l.min64
          /\ g.max64 \in Int /\ a <= g.max64 /\ l.max64 <= g.max64
      BY <2>2, <3>1 DEF ListOK, Smaller, Larger
    <3> QED
      BY <2>2, <2>3, <3>1, <3>2 DEF ListOK, g
  <2>4. ASSUME ~(a > UintMax) PROVE ListOK(Filter32(m, a))
    <3> DEFINE g == Filter32(m, a)
    <3>1. /\ DOMAIN g = DOMAIN l
          /\ g.entries = m.entries /\ g.addresses = m.addresses
          /\ g.min64 = m.min64 /\ g.max64 = m.max64 /\ g.bits64 = m.bits64
          /\ g.min32 = Smaller(a, m.min32) /\ g.max32 = Larger(a, m.max32)
          /\ g.bits32 = m.bits32 \cup Bits(a)
      BY <2>2 DEF Filter32, ListOK
    <3> HIDE DEF g
    <3>2. /\ g.min32 \in Int /\ g.min32 <= a /\ g.min32 <= l.min32
          /\ g.max32 \in Int /\ a <= g.max32 /\ l.max32 <= g.max32
      BY <2>2, <3>1 DEF ListOK, Smaller, Larger
    <3> QED
      BY <2>2, <2>4, <3>1, <3>2 DEF ListOK, g
  <2> QED
    BY <2>1, <2>3, <2>4
<1> QED
  BY <1>1, <1>2

\* The filters then agree with the list.
LEMMA FiltersAgree == ASSUME NEW l, ListOK(l) PROVE ExactFilters(l)
  BY ListAssumption DEF ListOK, ExactFilters, Contains, Contains32, Contains64

\* Both lists and where their addresses come from.
ListsOK ==
  /\ ListOK(exports)
  /\ DOMAIN found = {"list", "dir"} /\ ListOK(found.list)
  /\ pc = "names" => /\ found.dir.base \in Nat
                     /\ Len(found.dir.names) \in Nat /\ index \in Nat \ {0}
                     /\ \A i \in 1 .. Len(found.dir.names) : found.dir.names[i].rva \in Nat
  /\ DOMAIN loaded \subseteq Nat /\ DOMAIN modules \subseteq Nat /\ todo \subseteq Nat
  /\ "back" \in DOMAIN gens /\ gens.back \in {"end", "pages", "chunks"}

\* Every step keeps them.
LEMMA ListStep == ASSUME ListsOK, [Next]_vars PROVE ListsOK'
<1> USE DEF streamVars, envVars, listVars, walkVars, chunkVars, hashVars
<1>0. ASSUME UNCHANGED <<listVars, loaded, modules, gens>>, UNCHANGED pc \/ pc' # "names"
      PROVE  ListsOK'
  BY <1>0 DEF ListsOK, ListOK
<1>1. CASE \/ UNCHANGED vars \/ Terminated \/ Flip \/ StartJob
           \/ FindHeaps \/ QueryNext \/ NextRegion \/ Skip \/ FoundHeader
           \/ CollectModule \/ (\E h \in heaps : LookAtHeap(h)) \/ HeapsDone
           \/ CollectChunk \/ BuildHeader
           \/ DumpRegion \/ EndJob \/ Read
  BY <1>0, <1>1 DEF vars, Terminated, Flip, StartJob, FindHeaps, QueryNext, NextRegion, Skip,
     FoundHeader, CollectModule, LookAtHeap, HeapsDone, CollectChunk, BuildHeader, DumpRegion, EndJob, Read, NextPage
<1>2. CASE DumpModule \/ DumpChunk \/ DumpGenerated
  <2>1. UNCHANGED <<listVars, loaded, modules>>
    BY <1>2 DEF DumpModule, DumpChunk, DumpGenerated
  <2>2. pc' # "names"
    BY <1>2 DEF DumpModule, DumpChunk, DumpGenerated, NextPage, ListsOK
  <2>3. "back" \in DOMAIN gens' /\ gens'.back \in {"end", "pages", "chunks"}
    BY <1>2 DEF DumpModule, DumpChunk, DumpGenerated, Generated, ListsOK
  <2> QED
    BY <2>1, <2>2, <2>3 DEF ListsOK, ListOK
<1>3. ASSUME ListModules PROVE DOMAIN modules' \subseteq Nat
  BY <1>3 DEF ListModules, ListModules64, ListModules32, Snapshot, ListsOK
<1>4. CASE BeginList \/ BeginWalk \/ BeginRegion
  <2>1. DOMAIN modules' \subseteq Nat /\ UNCHANGED <<exports, found, index, loaded>>
    BY <1>3, <1>4 DEF BeginList, BeginWalk, BeginRegion
  <2>2. pc' # "names"
    BY <1>4 DEF BeginList, BeginWalk, BeginRegion
  <2>3. todo' \subseteq Nat
    BY <1>4, <2>1 DEF BeginList, BeginWalk, BeginRegion, ListsOK
  <2>4. "back" \in DOMAIN gens' /\ gens'.back \in {"end", "pages", "chunks"}
    BY <1>4 DEF BeginList, BeginWalk, BeginRegion, Generated, ListsOK
  <2> QED
    BY <2>1, <2>2, <2>3, <2>4 DEF ListsOK
<1>5. CASE \E b \in todo : LoadExports(b)
  <2> PICK b \in todo : LoadExports(b)
    BY <1>5
  <2>1. CASE HasExports(b)
    <3> DEFINE d == HeaderOf[BodyAt(b)].dir
    <3>1. BodyAt(b) \in Headers
      BY <2>1 DEF HasExports, IsHeader
    <3>2. found'.list = NewList /\ DOMAIN found' = {"list", "dir"} /\ found'.dir = [d EXCEPT !.base = b]
      BY <2>1 DEF LoadExports
    <3>3. found'.dir.base = b /\ found'.dir.names = d.names
      BY <3>1, <3>2, ScanAssumption
    <3>4. index' = 1 /\ UNCHANGED <<exports, todo, loaded, modules, gens>>
      BY <2>1 DEF LoadExports
    <3>5. b \in Nat
      BY DEF ListsOK
    <3>6. ListOK(found'.list)
      BY <3>2, EmptyListOK
    <3>7. /\ Len(d.names) \in Nat
          /\ \A i \in 1 .. Len(d.names) : d.names[i].rva \in Nat
      BY <3>1, ScanAssumption
    <3> HIDE DEF d
    <3> QED
      BY <3>2, <3>3, <3>4, <3>5, <3>6, <3>7 DEF ListsOK
  <2>2. CASE ~HasExports(b)
    BY <2>2 DEF LoadExports, ListsOK, ListOK
  <2> QED
    BY <2>1, <2>2
<1>6. CASE LoadName
  <2>1. CASE index > Len(found.dir.names)
    BY <1>6, <2>1 DEF LoadName, ListsOK, ListOK
  <2>2. CASE ~(index > Len(found.dir.names))
    <3> DEFINE n == found.dir.names[index]
               a == found.dir.base + n.rva
    <3>1. a \in Int /\ index' \in Nat \ {0}
      BY <1>6, <2>2 DEF LoadName, ListsOK
    <3>2. ListOK(AddName(found.list, found.dir, n))
      BY <3>1, AddKeeps DEF AddName, ListsOK
    <3>3. /\ found'.list = AddName(found.list, found.dir, n) /\ found'.dir = found.dir
          /\ DOMAIN found' = DOMAIN found /\ UNCHANGED <<pc, exports, todo, loaded, modules, gens>>
      BY <1>6, <2>2 DEF LoadName, ListsOK
    <3> HIDE DEF n, a
    <3> QED
      BY <1>6, <3>1, <3>2, <3>3 DEF ListsOK, ListOK
  <2> QED
    BY <2>1, <2>2
<1>7. CASE \E a \in found.list.addresses : MergeExport(a)
  <2> PICK a \in found.list.addresses : MergeExport(a)
    BY <1>7
  <2>1. exports' = AddExport(exports, a, Find(found.list, a))
    BY DEF MergeExport
  <2>2. ListOK(exports')
    BY <2>1, AddKeeps, SMTT(30) DEF ListsOK, ListOK
  <2> QED
    BY <2>2 DEF MergeExport, ListsOK, ListOK
<1>8. CASE MergeDone
  <2>1. found'.list = NewList /\ DOMAIN found' = {"list", "dir"}
    BY <1>8 DEF MergeDone, NoFound
  <2>2. pc' # "names" /\ todo' \subseteq todo /\ UNCHANGED <<exports, loaded, modules, gens>>
    BY <1>8 DEF MergeDone
  <2> QED
    BY <2>1, <2>2, EmptyListOK DEF ListsOK
<1>9. CASE ListDone
  BY <1>9 DEF ListDone, ListsOK, ListOK
<1> QED
  BY <1>1, <1>2, <1>4, <1>5, <1>6, <1>7, <1>8, <1>9 DEF Next, Tool

\* Both lists are in order at any time.
THEOREM ListsHold == Spec => []ListsOK
<1>1. Init => ListsOK
  <2> SUFFICES ASSUME Init PROVE ListsOK
    OBVIOUS
  <2>1. DOMAIN loaded \subseteq Nat
    BY ScanAssumption DEF Init
  <2> QED
    BY <2>1, EmptyListOK DEF Init, NoFound, NoGens, ListsOK
<1>2. ListsOK /\ [Next]_vars => ListsOK'
  BY ListStep
<1> QED
  BY <1>1, <1>2, PTL DEF Spec

\* The filters asked before every lookup are exact, whatever names and modules come in
\* whatever order: an address they let through has an entry, and they hide none.
THEOREM FiltersHold == Spec => []FiltersExact
<1>1. ListsOK => FiltersExact
  BY FiltersAgree DEF ListsOK, FiltersExact
<1> QED
  BY <1>1, ListsHold, PTL
-----------------------------------------------------------------------------
(* What is dumped.                                                         *)

\* Every file of this job lies before address a.
Before(a) == \A i \in DOMAIN written : written[i].base < a

Generating(back) == pc \in {"generate", "generated"} /\ gens.back = back

\* Where the jobs are.
JobsOK ==
  /\ written \in Seq({written[i] : i \in DOMAIN written})
  /\ \A i \in DOMAIN written : written[i].base \in Int
  /\ pc \in {"heaps", "walk", "pages", "image", "chunks", "chunk"} => job.kind \in {"collect", "dump"}
  /\ pc \in {"generate", "generated"} =>
       /\ gens.wides \in {<<64, 32>>, <<32>>}
       /\ \/ job.kind = "dump" /\ gens.back \in {"pages", "chunks"}
          \/ job.kind = "region" /\ gens.back = "end"
  /\ pc = "region" => job.kind = "region"
  /\ \/ pc \in {"list", "exports", "names", "merge", "begin", "heaps", "region"}
     \/ job.kind = "collect" /\ pc # "ready"
     => written = << >>
  /\ address >= 0

\* What is still to come in the walk lies behind what was written ...
WalkAhead ==
  job.kind = "dump" =>
    /\ pc = "walk" => \/ address = 0 /\ written = << >>
                      \/ address > 0 /\ Aligned(address - 1) /\ Before(address - 1)
    /\ pc \in {"pages", "image"} =>
         \/ pc = "pages" /\ ~Usable(mbi) /\ mbi.end + 1 <= address
         \/ Aligned(mbi.end) /\ mbi.end > 0 /\ Before(mbi.end) /\ Before(base)
    /\ pc = "image" => base < mbi.end
    /\ Generating("pages") => /\ gens.at = base /\ base < mbi.end
                              /\ Aligned(mbi.end) /\ mbi.end > 0
                              /\ Before(base + 1) /\ base \notin MoreHeaps

\* ... and so do the chunks: those of a module were taken out when it was written.
ChunksAhead ==
  job.kind = "dump" =>
    /\ pc # "ready" => \A i \in DOMAIN written : written[i].base \notin MoreHeaps
    /\ pc = "chunk" => \A i \in DOMAIN written : written[i].base # heap
    /\ Generating("chunks") => gens.at = heap

\* Of the two generated images the 64-bit one comes first.
WidthAhead ==
  pc \in {"generate", "generated"} =>
    \A i \in DOMAIN written : written[i].base = gens.at =>
      written[i].wide = 64 /\ gens.wides = <<32>>

FreshInv == JobsOK /\ WalkAhead /\ ChunksAhead /\ WidthAhead /\ NothingTwice

\* A file more.
LEMMA FileMore ==
  ASSUME NEW f, written' = Append(written, f), written \in Seq({written[i] : i \in DOMAIN written})
  PROVE  /\ written' \in Seq({written'[i] : i \in DOMAIN written'})
         /\ DOMAIN written' = DOMAIN written \cup {Len(written) + 1}
         /\ Len(written) + 1 \notin DOMAIN written
         /\ \A i \in DOMAIN written : written'[i] = written[i]
         /\ written'[Len(written) + 1] = f
<1> DEFINE S == {written[i] : i \in DOMAIN written} \cup {f}
<1>1. written \in Seq(S)
  OBVIOUS
<1>2. /\ Len(written) \in Nat /\ DOMAIN written = 1 .. Len(written)
      /\ written' \in Seq(S) /\ Len(written') = Len(written) + 1
      /\ DOMAIN written' = 1 .. Len(written')
      /\ \A i \in 1 .. Len(written) : written'[i] = written[i]
      /\ written'[Len(written) + 1] = f
  BY <1>1
<1>3. written' \in Seq({written'[i] : i \in DOMAIN written'})
  BY <1>2
<1> QED
  BY <1>2, <1>3

\* It is no second one unless its address was dumped with its width.
LEMMA FileNew ==
  ASSUME NEW f, written' = Append(written, f), written \in Seq({written[i] : i \in DOMAIN written}),
         \A i \in DOMAIN written : ~(written[i].base = f.base /\ written[i].wide = f.wide),
         NothingTwice
  PROVE  NothingTwice'
<1>1. SUFFICES ASSUME NEW i \in DOMAIN written', NEW j \in DOMAIN written',
                      written'[i].base = written'[j].base, written'[i].wide = written'[j].wide
               PROVE  i = j
  BY DEF NothingTwice
<1> QED
  BY <1>1, FileMore, SMTT(30) DEF NothingTwice

\* The page of an address behind the end of a region begins behind it, too.
LEMMA PageBehind ==
  ASSUME NEW a \in Int, Aligned(a - 1)
  PROVE  a - 1 <= PageOf(a) * PageSize
<1>1. PageOf(a - 1) * PageSize = a - 1 /\ PageOf(a - 1) \in Int
  BY PageStart, InPage
<1>2. PageOf(a) \in Int /\ a < PageOf(a) * PageSize + PageSize
  BY InPage
<1> DEFINE k == PageOf(a - 1)  n == PageOf(a)
<1>3. k * PageSize < (n + 1) * PageSize
  BY <1>1, <1>2, StreamAssumption
<1>4. k < n + 1
  BY <1>1, <1>2, <1>3, StreamAssumption
<1>5. k * PageSize <= n * PageSize
  BY <1>1, <1>2, <1>4, StreamAssumption
<1> QED
  BY <1>1, <1>5

\* Every step keeps the order of the files.
LEMMA FreshStep == ASSUME WalkOK, SizeOK, FreshInv, [Next]_vars PROVE FreshInv'
<1> USE DEF streamVars, envVars, listVars, walkVars, chunkVars, hashVars, FreshInv
<1>1. CASE UNCHANGED vars \/ Terminated \/ Flip \/ Read
  <2>1. UNCHANGED <<written, address, mbi, base, heaps, heap, gens, job, pc>>
    BY <1>1 DEF vars, Terminated, Flip, Read
  <2> QED
    BY <2>1 DEF JobsOK, WalkAhead, ChunksAhead, WidthAhead, NothingTwice, Generating, MoreHeaps,
                Before, Usable, Aligned
\* Before the walk nothing has been written.
<1>2. ASSUME written' = << >>, pc' \in {"list", "exports", "names", "merge", "begin"}, address' >= 0
      PROVE  FreshInv'
  BY <1>2 DEF JobsOK, WalkAhead, ChunksAhead, WidthAhead, NothingTwice, Generating
<1>3. CASE StartJob
  BY <1>2, <1>3 DEF StartJob, JobsOK
<1>4. CASE \/ BeginList \/ (\E b \in todo : LoadExports(b)) \/ LoadName
           \/ (\E a \in found.list.addresses : MergeExport(a)) \/ MergeDone \/ ListDone
  <2>1. pc \in {"list", "exports", "names", "merge"} /\ UNCHANGED <<written, address>>
    BY <1>4 DEF BeginList, LoadExports, LoadName, MergeExport, MergeDone, ListDone
  <2>2. pc' \in {"list", "exports", "names", "merge", "begin"}
    BY <1>4, <2>1 DEF BeginList, LoadExports, LoadName, MergeExport, MergeDone, ListDone
  <2> QED
    BY <1>2, <2>1, <2>2 DEF JobsOK
<1>5. CASE BeginWalk
  <2>1. /\ written' = << >> /\ pc' \in {"heaps", "walk"} /\ address' = 0
        /\ job' = job /\ job.kind \in {"collect", "dump"}
    BY <1>5 DEF BeginWalk, JobsOK
  <2> QED
    BY <2>1 DEF JobsOK, WalkAhead, ChunksAhead, WidthAhead, NothingTwice, Generating
<1>6. CASE FindHeaps
  <2>1. /\ written' = << >> /\ job' = job /\ job.kind \in {"collect", "dump"}
    BY <1>6 DEF FindHeaps, JobsOK
  <2>2. (pc' = "walk" /\ address' = 0) \/ (pc' = "heaps" /\ address' >= 0)
    BY <1>6, InfoFacts DEF FindHeaps, LastRegion, JobsOK, WalkOK
  <2> QED
    BY <2>1, <2>2 DEF JobsOK, WalkAhead, ChunksAhead, WidthAhead, NothingTwice, Generating
<1>7. CASE QueryNext
  <2>1. /\ UNCHANGED <<written, address, heaps, heap, gens, job>> /\ pc = "walk" /\ pc' = "pages"
        /\ mbi' = MbiInfo(address) /\ base' = mbi'.base - (mbi'.base % PageSize)
    BY <1>7 DEF QueryNext
  <2>2. ASSUME job.kind = "dump", ~InSpace(address)
        PROVE  ~Usable(mbi') /\ mbi'.end + 1 <= address'
    <3>1. InSpace(0)
      BY StreamAssumption DEF InSpace, PageOf, Pages
    <3>2. address >= 1
      BY <2>2, <3>1 DEF JobsOK, WalkOK
    <3> QED
      BY <2>1, <2>2, <3>2 DEF MbiInfo, NoRegion, Usable
  <2>3. ASSUME job.kind = "dump", InSpace(address)
        PROVE  /\ Aligned(mbi'.end) /\ mbi'.end > 0
               /\ \A i \in DOMAIN written : written[i].base < mbi'.end /\ written[i].base < base'
    <3> DEFINE r == Region(address)
    <3>1. /\ r.base \in Int /\ r.size \in Nat /\ PageSize <= r.size /\ address < r.base + PageSize
          /\ Aligned(r.base) /\ Aligned(r.size)
      BY <2>3, RegionFacts DEF WalkOK
    <3>2. mbi'.base = r.base /\ mbi'.end = r.base + r.size
      BY <2>1, <2>3 DEF MbiInfo
    <3>3. base' = r.base
      BY <2>1, <3>1, <3>2 DEF Aligned
    <3>4. Aligned(mbi'.end)
      BY <3>1, <3>2, AlignedSum, SMTT(30)
    <3>5. address >= 0 /\ mbi'.end > 0
      BY <3>1, <3>2, StreamAssumption DEF JobsOK, WalkOK
    <3>6. CASE address = 0 /\ written = << >>
      BY <3>4, <3>5, <3>6
    <3>7. CASE Aligned(address - 1) /\ Before(address - 1)
      <4>1. address - 1 <= r.base
        BY <3>7, PageBehind DEF Region, WalkOK
      <4>2. ASSUME NEW i \in DOMAIN written
            PROVE  written[i].base < mbi'.end /\ written[i].base < base'
        <5>1. written[i].base < address - 1
          BY <3>7 DEF Before
        <5>2. written[i].base \in Int
          BY DEF JobsOK
        <5> QED
          BY <3>1, <3>2, <3>3, <4>1, <5>1, <5>2, StreamAssumption DEF WalkOK
      <4> QED
        BY <3>4, <3>5, <4>2
    <3> QED
      BY <2>1, <2>3, <3>6, <3>7 DEF WalkAhead
  <2> QED
    BY <2>1, <2>2, <2>3 DEF JobsOK, WalkAhead, ChunksAhead, WidthAhead, NothingTwice, Generating,
       MoreHeaps, Before, Usable
\* A job that collects hashes writes nothing.
<1>8. ASSUME job.kind = "collect", pc # "ready", UNCHANGED <<written, job>>, address' >= 0,
             pc' \in {"walk", "pages", "image", "chunks", "chunk", "end"}
      PROVE  FreshInv'
  BY <1>8 DEF JobsOK, WalkAhead, ChunksAhead, WidthAhead, NothingTwice, Generating
<1>9. CASE NextRegion
  <2>1. /\ UNCHANGED <<written, heaps, heap, gens, job>> /\ pc = "pages" /\ pc' \in {"chunks", "walk"}
        /\ job.kind \in {"collect", "dump"}
    BY <1>9 DEF NextRegion, JobsOK
  <2>2. IF LastRegion(mbi) THEN pc' = "chunks" /\ address' = address
        ELSE pc' = "walk" /\ address' = mbi.end + 1
    BY <1>9 DEF NextRegion
  <2>3. address' >= 0
    BY <2>2 DEF LastRegion, JobsOK, WalkOK
  <2>4. CASE job.kind = "dump"
    <3>1. pc' = "walk" => address' > 0 /\ Aligned(address' - 1) /\ Before(address' - 1)
      BY <2>1, <2>2, <2>4 DEF WalkAhead, LastRegion, WalkOK
    <3>2. JobsOK'
      BY <2>1, <2>3, <2>4 DEF JobsOK
    <3>3. WalkAhead'
      BY <2>1, <3>1 DEF WalkAhead, Generating, Before, Aligned
    <3>4. ChunksAhead' /\ WidthAhead' /\ NothingTwice'
      BY <2>1 DEF ChunksAhead, WidthAhead, NothingTwice, Generating, MoreHeaps
    <3> QED
      BY <3>2, <3>3, <3>4
  <2> QED
    BY <1>8, <2>1, <2>3, <2>4
\* A page on.
<1>10. ASSUME job.kind = "dump", (pc = "pages" /\ Usable(mbi)) \/ pc = "image", base < mbi.end, NextPage,
              UNCHANGED <<written, job, address, mbi, heap>>, heaps' \subseteq heaps
       PROVE  FreshInv'
  <2>1. Aligned(mbi.end) /\ mbi.end > 0 /\ Before(mbi.end) /\ Before(base)
    BY <1>10 DEF WalkAhead
  <2>2. base' = base + PageSize /\ pc' = "pages"
    BY <1>10 DEF NextPage
  <2>3. ASSUME NEW i \in DOMAIN written PROVE written[i].base < mbi.end /\ written[i].base < base'
    BY <2>1, <2>2, StreamAssumption DEF Before, JobsOK, WalkOK
  <2>4. JobsOK'
    BY <1>10, <2>2 DEF JobsOK
  <2>5. WalkAhead'
    BY <1>10, <2>1, <2>2, <2>3 DEF WalkAhead, Before, Aligned, Generating
  <2>6. ChunksAhead' /\ WidthAhead' /\ NothingTwice'
    BY <1>10, <2>2 DEF ChunksAhead, WidthAhead, NothingTwice, Generating, MoreHeaps
  <2> QED
    BY <2>4, <2>5, <2>6
<1>11. CASE Skip
  <2>1. /\ UNCHANGED <<written, job, address, mbi, heap, heaps>> /\ pc = "pages" /\ NextPage /\ MorePages
    BY <1>11 DEF Skip
  <2>2. job.kind = "dump" => Usable(mbi) /\ base < mbi.end
    BY <2>1, ScanAssumption DEF MorePages, WalkOK
  <2> QED
    BY <1>8, <1>10, <2>1, <2>2 DEF NextPage, JobsOK
<1>12. CASE FoundHeader
  <2>1. UNCHANGED <<written, job, address, mbi, heap, gens>> /\ pc = "pages" /\ MorePages
    BY <1>12 DEF FoundHeader
  <2>2. \/ pc' = "image" /\ UNCHANGED <<base, heaps>>
        \/ NextPage /\ (UNCHANGED heaps \/ job.kind = "collect")
    BY <1>12 DEF FoundHeader
  <2>3. job.kind = "dump" => Usable(mbi) /\ base < mbi.end
    BY <2>1, ScanAssumption DEF MorePages, WalkOK
  <2>4. CASE job.kind = "collect"
    BY <1>8, <2>1, <2>2, <2>4 DEF NextPage, JobsOK
  <2>5. CASE job.kind = "dump" /\ NextPage /\ UNCHANGED heaps
    BY <1>10, <2>1, <2>3, <2>5
  <2>6. CASE job.kind = "dump" /\ pc' = "image" /\ UNCHANGED <<base, heaps>>
    <3>1. JobsOK'
      BY <2>1, <2>6 DEF JobsOK
    <3>2. WalkAhead'
      BY <2>1, <2>3, <2>6 DEF WalkAhead, Before, Aligned, Generating
    <3> QED
      BY <2>1, <2>6, <3>1, <3>2 DEF ChunksAhead, WidthAhead, NothingTwice, Generating, MoreHeaps
  <2> QED
    BY <2>1, <2>2, <2>4, <2>5, <2>6 DEF JobsOK
<1>13. CASE CollectModule
  BY <1>8, <1>13 DEF CollectModule, NextPage, JobsOK
<1>14. CASE DumpModule
  <2>1. /\ UNCHANGED <<job, address, mbi, heap>> /\ pc = "image" /\ job.kind = "dump"
        /\ ExcludeHeaps(base, rd.size)
    BY <1>14 DEF DumpModule
  <2>2. heaps' \subseteq heaps /\ base \notin heaps'
    BY <2>1 DEF ExcludeHeaps, SizeOK, WalkOK
  <2>3. base < mbi.end /\ Aligned(mbi.end) /\ mbi.end > 0 /\ Before(mbi.end) /\ Before(base)
    BY <2>1 DEF WalkAhead
  <2>4. CASE NextPage /\ UNCHANGED written
    BY <1>10, <2>1, <2>2, <2>3, <2>4
  <2>5. CASE /\ gens' = Generated(base, GenHeader, NameIn(modules, base), "pages")
             /\ pc' = "generate" /\ UNCHANGED <<base, written>>
    <3>1. gens'.at = base /\ gens'.back = "pages" /\ gens'.wides = <<64, 32>>
      BY <2>5 DEF Generated
    <3>2. JobsOK'
      BY <2>1, <2>5, <3>1 DEF JobsOK
    <3>3. ASSUME NEW i \in DOMAIN written PROVE written[i].base < base + 1 /\ written[i].base # base
      BY <2>3 DEF Before, JobsOK, WalkOK
    <3>4. WalkAhead'
      BY <2>1, <2>2, <2>3, <2>5, <3>1, <3>3 DEF WalkAhead, Generating, Before, Aligned, MoreHeaps
    <3>5. ChunksAhead'
      BY <2>1, <2>2, <2>5, <3>1 DEF ChunksAhead, Generating, MoreHeaps
    <3>6. WidthAhead' /\ NothingTwice'
      BY <2>5, <3>1, <3>3 DEF WidthAhead, NothingTwice
    <3> QED
      BY <3>2, <3>4, <3>5, <3>6
  <2>6. CASE /\ written' = Append(written, File(base, header.wide, NameIn(modules, base)))
             /\ NextPage /\ UNCHANGED gens
    <3> DEFINE f == File(base, header.wide, NameIn(modules, base))
    <3>1. f.base = base /\ base' = base + PageSize /\ pc' = "pages"
      BY <2>6 DEF File, NextPage
    <3> HIDE DEF f
    <3>2. /\ written' \in Seq({written'[i] : i \in DOMAIN written'})
          /\ \A i \in DOMAIN written' : written'[i] = f \/ \E j \in DOMAIN written : written'[i] = written[j]
      BY <2>6, FileMore DEF JobsOK, f
    <3>3. ASSUME NEW i \in DOMAIN written'
          PROVE  /\ written'[i].base \in Int /\ written'[i].base < mbi.end /\ written'[i].base < base'
                 /\ written'[i].base \notin MoreHeaps'
      <4>1. CASE written'[i] = f
        BY <2>1, <2>2, <2>3, <3>1, <4>1, StreamAssumption DEF WalkOK, MoreHeaps
      <4>2. CASE \E j \in DOMAIN written : written'[i] = written[j]
        <5> PICK j \in DOMAIN written : written'[i] = written[j]
          BY <4>2
        <5>1. written[j].base \in Int /\ written[j].base < mbi.end /\ written[j].base < base
          BY <2>3 DEF Before, JobsOK
        <5>2. written[j].base \notin MoreHeaps
          BY <2>1 DEF ChunksAhead
        <5> QED
          BY <2>1, <2>2, <3>1, <5>1, <5>2, StreamAssumption DEF WalkOK, MoreHeaps
      <4> QED
        BY <3>2, <4>1, <4>2
    <3>4. NothingTwice'
      <4>1. ASSUME NEW i \in DOMAIN written PROVE written[i].base # f.base
        BY <2>3, <3>1 DEF Before, JobsOK, WalkOK
      <4> QED
        BY <2>6, <4>1, FileNew DEF JobsOK, f
    <3>5. JobsOK'
      BY <2>1, <3>1, <3>2, <3>3 DEF JobsOK
    <3>6. WalkAhead'
      BY <2>1, <2>3, <3>1, <3>3 DEF WalkAhead, Generating, Before, Aligned
    <3> QED
      BY <2>1, <3>1, <3>3, <3>4, <3>5, <3>6 DEF ChunksAhead, WidthAhead, Generating
  <2> QED
    BY <1>14, <2>4, <2>5, <2>6 DEF DumpModule
<1>15. CASE \E h \in heaps : LookAtHeap(h)
  <2> PICK h \in heaps : LookAtHeap(h)
    BY <1>15
  <2>1. /\ UNCHANGED <<written, job, address, mbi, base, heaps, gens>> /\ pc = "chunks"
        /\ pc' \in {"chunks", "chunk", "end"} /\ heap' = h /\ h \in MoreHeaps
    BY DEF LookAtHeap
  <2>2. ASSUME NEW x \in MoreHeaps' PROVE x \in MoreHeaps
    <3>1. x \in heaps /\ x > h /\ h > heap /\ x \in Int /\ h \in Int /\ heap \in Int
      BY <2>1 DEF MoreHeaps, WalkOK
    <3>2. x > heap
      BY <3>1
    <3> QED
      BY <3>1, <3>2 DEF MoreHeaps
  <2>3. CASE job.kind = "dump"
    <3>1. JobsOK'
      BY <2>1, <2>3 DEF JobsOK
    <3>2. WalkAhead' /\ WidthAhead' /\ NothingTwice'
      BY <2>1 DEF WalkAhead, WidthAhead, NothingTwice, Generating
    <3>3. ChunksAhead'
      BY <2>1, <2>2, <2>3 DEF ChunksAhead, Generating
    <3> QED
      BY <3>1, <3>2, <3>3
  <2> QED
    BY <1>8, <2>1, <2>3 DEF JobsOK
<1>16. CASE HeapsDone \/ EndJob \/ CollectChunk \/ (DumpRegion /\ UNCHANGED written)
  <2>1. UNCHANGED <<written, job, address, mbi, base, heaps, heap, gens>>
    BY <1>16 DEF HeapsDone, EndJob, CollectChunk, DumpRegion
  <2>2. \/ pc = "chunks" /\ pc' = "end"
        \/ pc' = "ready"
        \/ pc = "chunk" /\ pc' = "chunks" /\ job.kind = "collect"
        \/ pc = "region" /\ pc' = "end"
    BY <1>16 DEF HeapsDone, EndJob, CollectChunk, DumpRegion
  <2> QED
    BY <2>1, <2>2 DEF JobsOK, WalkAhead, ChunksAhead, WidthAhead, NothingTwice, Generating, MoreHeaps
<1>17. CASE DumpChunk
  <2>1. UNCHANGED <<written, job, address, mbi, base, heaps, heap>> /\ pc = "chunk" /\ job.kind = "dump"
    BY <1>17 DEF DumpChunk
  <2>2. \/ pc' = "chunks" /\ UNCHANGED gens
        \/ pc' = "generate" /\ gens' = Generated(heap, GenHeader, "codechunk", "chunks")
    BY <1>17 DEF DumpChunk
  <2>3. pc' = "generate" => gens'.at = heap /\ gens'.back = "chunks" /\ gens'.wides = <<64, 32>>
    BY <2>2 DEF Generated
  <2>4. JobsOK' /\ WalkAhead' /\ NothingTwice'
    BY <2>1, <2>2, <2>3 DEF JobsOK, WalkAhead, NothingTwice, Generating
  <2>5. ChunksAhead' /\ WidthAhead'
    BY <2>1, <2>2, <2>3 DEF ChunksAhead, WidthAhead, Generating, MoreHeaps
  <2> QED
    BY <2>4, <2>5
<1>18. CASE BuildHeader
  <2>1. /\ UNCHANGED <<written, job, address, mbi, base, heaps, heap, gens>>
        /\ pc = "generate" /\ pc' = "generated"
    BY <1>18 DEF BuildHeader
  <2> QED
    BY <2>1 DEF JobsOK, WalkAhead, ChunksAhead, WidthAhead, NothingTwice, Generating, MoreHeaps, Before,
                Aligned
<1>19. CASE BeginRegion
  <2>1. /\ written' = << >> /\ job' = job /\ job.kind = "region" /\ UNCHANGED address
        /\ pc' \in {"generate", "region", "end"}
    BY <1>19 DEF BeginRegion, JobsOK
  <2>2. pc' = "generate" => gens'.back = "end" /\ gens'.wides = <<64, 32>>
    BY <1>19 DEF BeginRegion, Generated
  <2>3. JobsOK'
    <3>1. /\ written' \in Seq({written'[i] : i \in DOMAIN written'})
          /\ \A i \in DOMAIN written' : written'[i].base \in Int
      BY <2>1
    <3>2. address' >= 0
      BY <2>1 DEF JobsOK
    <3> QED
      BY <2>1, <2>2, <3>1, <3>2 DEF JobsOK
  <2> QED
    BY <2>1, <2>3 DEF WalkAhead, ChunksAhead, WidthAhead, NothingTwice, Generating
<1>20. CASE DumpRegion
  <2>1. /\ UNCHANGED <<job, address>> /\ pc = "region" /\ pc' = "end" /\ written = << >>
        /\ job.kind = "region"
    BY <1>20 DEF DumpRegion, JobsOK
  <2>2. ASSUME UNCHANGED written PROVE FreshInv'
    BY <1>16, <1>20, <2>2
  <2> DEFINE f == File(job.base, header.wide, NameIn(modules, job.base))
  <2>3. ASSUME written' = Append(written, f) PROVE FreshInv'
    <3>1. f.base \in Int
      BY DEF File, WalkOK
    <3> HIDE DEF f
    <3>2. NothingTwice'
      BY <2>1, <2>3, FileNew DEF JobsOK
    <3>3. /\ written' \in Seq({written'[i] : i \in DOMAIN written'})
          /\ \A i \in DOMAIN written' : written'[i] = f
      BY <2>1, <2>3, FileMore DEF JobsOK
    <3> QED
      BY <2>1, <3>1, <3>2, <3>3 DEF JobsOK, WalkAhead, ChunksAhead, WidthAhead, Generating
  <2> QED
    BY <1>20, <2>2, <2>3 DEF DumpRegion
<1>21. CASE DumpGenerated
  <2> DEFINE f == File(gens.at, Head(gens.wides), gens.name)
  <2>1. /\ UNCHANGED <<job, address, mbi, heaps, heap>> /\ pc = "generated"
        /\ written' = Append(written, f) /\ gens' = [gens EXCEPT !.wides = Tail(@)]
    BY <1>21 DEF DumpGenerated
  <2>2. /\ gens'.at = gens.at /\ gens'.back = gens.back /\ gens'.wides = Tail(gens.wides)
        /\ gens.at \in Int
    BY <2>1 DEF WalkOK
  <2>3. f.base = gens.at /\ f.wide = Head(gens.wides)
    BY DEF File
  <2> HIDE DEF f
  <2>4. /\ written' \in Seq({written'[i] : i \in DOMAIN written'})
        /\ \A i \in DOMAIN written' : written'[i] = f \/ \E j \in DOMAIN written : written'[i] = written[j]
    BY <2>1, FileMore DEF JobsOK
  <2>5. gens.wides = <<64, 32>> \/ gens.wides = <<32>>
    BY <2>1 DEF JobsOK
  <2>6. NothingTwice'
    <3>1. ASSUME NEW i \in DOMAIN written, written[i].base = f.base, written[i].wide = f.wide PROVE FALSE
      <4>1. written[i].wide = 64 /\ gens.wides = <<32>>
        BY <2>1, <2>3, <3>1 DEF WidthAhead
      <4> QED
        BY <2>3, <3>1, <4>1
    <3> QED
      BY <2>1, <3>1, FileNew DEF JobsOK
  <2>7. \A i \in DOMAIN written' : written'[i].base \in Int
    BY <2>2, <2>3, <2>4 DEF JobsOK
  <2>8. CASE gens.wides = <<64, 32>>
    <3>1. gens'.wides = <<32>> /\ f.wide = 64 /\ pc' = "generate" /\ UNCHANGED base
      BY <1>21, <2>2, <2>3, <2>8 DEF DumpGenerated
    <3>2. JobsOK'
      BY <2>1, <2>2, <2>4, <2>7, <3>1 DEF JobsOK
    <3>3. WalkAhead'
      <4>1. ASSUME gens.back = "pages", job.kind = "dump", NEW i \in DOMAIN written'
            PROVE  written'[i].base < base + 1
        BY <2>1, <2>2, <2>3, <2>4, <4>1, SMTT(30) DEF WalkAhead, Generating, Before, WalkOK
      <4> QED
        BY <2>1, <2>2, <3>1, <4>1 DEF WalkAhead, Generating, Before, Aligned, MoreHeaps
    <3>4. ChunksAhead'
      <4>1. ASSUME job.kind = "dump" PROVE gens.at \notin MoreHeaps
        BY <2>1, <4>1 DEF JobsOK, WalkAhead, ChunksAhead, Generating, MoreHeaps, WalkOK
      <4> QED
        BY <2>1, <2>2, <2>3, <2>4, <3>1, <4>1 DEF ChunksAhead, Generating, MoreHeaps
    <3>5. WidthAhead'
      <4>1. ASSUME NEW i \in DOMAIN written', written'[i].base = gens.at PROVE written'[i].wide = 64
        BY <2>1, <2>4, <3>1, <4>1, <2>8 DEF WidthAhead
      <4> QED
        BY <2>2, <3>1, <4>1 DEF WidthAhead
    <3> QED
      BY <2>6, <3>2, <3>3, <3>4, <3>5
  <2>9. CASE gens.wides = <<32>>
    <3>1. IF gens.back = "pages" THEN NextPage ELSE pc' = gens.back /\ UNCHANGED base
      BY <1>21, <2>9 DEF DumpGenerated
    <3>2. CASE job.kind = "dump" /\ gens.back = "pages"
      <4>1. /\ gens.at = base /\ base < mbi.end /\ Aligned(mbi.end) /\ mbi.end > 0
            /\ Before(base + 1) /\ base \notin MoreHeaps
        BY <2>1, <3>2 DEF WalkAhead, Generating
      <4>2. base' = base + PageSize /\ pc' = "pages"
        BY <3>1, <3>2 DEF NextPage
      <4>3. ASSUME NEW i \in DOMAIN written'
            PROVE  written'[i].base < mbi.end /\ written'[i].base < base'
        <5>1. written'[i].base \in Int /\ written'[i].base < base + 1
          BY <2>2, <2>3, <2>4, <2>7, <4>1 DEF Before
        <5> QED
          BY <4>1, <4>2, <5>1, StreamAssumption DEF WalkOK
      <4>4. JobsOK'
        BY <2>1, <2>4, <2>7, <3>2, <4>2 DEF JobsOK
      <4>5. WalkAhead'
        BY <2>1, <4>1, <4>2, <4>3 DEF WalkAhead, Generating, Before, Aligned
      <4>6. ChunksAhead' /\ WidthAhead'
        BY <2>1, <2>3, <2>4, <3>2, <4>1, <4>2 DEF ChunksAhead, WidthAhead, Generating, MoreHeaps
      <4> QED
        BY <2>6, <4>4, <4>5, <4>6
    <3>3. CASE job.kind = "dump" /\ gens.back = "chunks"
      <4>1. gens.at = heap /\ pc' = "chunks"
        BY <2>1, <3>1, <3>3 DEF ChunksAhead, Generating
      <4>2. JobsOK'
        BY <2>1, <2>4, <2>7, <3>3, <4>1 DEF JobsOK
      <4>3. gens.at \notin MoreHeaps
        BY <4>1 DEF MoreHeaps, WalkOK
      <4>4. ChunksAhead'
        BY <2>1, <2>3, <2>4, <3>3, <4>1, <4>3 DEF ChunksAhead, Generating, MoreHeaps
      <4> QED
        BY <2>6, <4>1, <4>2, <4>4 DEF WalkAhead, WidthAhead, Generating
    <3>4. CASE job.kind = "region" /\ gens.back = "end"
      <4>1. pc' = "end"
        BY <3>1, <3>4
      <4> QED
        BY <2>1, <2>4, <2>6, <2>7, <3>4, <4>1 DEF JobsOK, WalkAhead, ChunksAhead, WidthAhead, Generating
    <3> QED
      BY <2>1, <3>2, <3>3, <3>4 DEF JobsOK
  <2> QED
    BY <2>5, <2>8, <2>9
<1>22. CASE HeapsDone \/ EndJob \/ CollectChunk
  BY <1>16, <1>22
<1> HIDE DEF FreshInv, streamVars, envVars, listVars, walkVars, chunkVars, hashVars
<1>23. CASE Tool
  BY <1>1, <1>3, <1>4, <1>5, <1>6, <1>7, <1>9, <1>11, <1>12, <1>13, <1>14, <1>15, <1>17, <1>18,
     <1>19, <1>20, <1>21, <1>22, <1>23 DEF Tool
<1> QED
  BY <1>1, <1>23 DEF Next

\* What is still to come lies behind what was written, at any time.
THEOREM FilesInOrder == Spec => []FreshInv
<1>1. Init => FreshInv
  BY DEF Init, FreshInv, JobsOK, WalkAhead, ChunksAhead, WidthAhead, NothingTwice, Generating
<1>2. WalkOK /\ SizeOK /\ FreshInv /\ [Next]_vars => FreshInv'
  BY FreshStep
<1> QED
  BY <1>1, <1>2, WalkHolds, PTL DEF Spec

\* No address is dumped twice with the same width, although the process cuts and joins
\* its regions under the walk and an image may be dumped out of a region that is loose.
THEOREM DumpedOnce == Spec => []NothingTwice
<1>1. FreshInv => NothingTwice
  BY DEF FreshInv
<1> QED
  BY <1>1, FilesInOrder, PTL
-----------------------------------------------------------------------------
(* A process that stands still: pages and regions.                        *)

\* The page of an address in page p.
LEMMA PageIs ==
  ASSUME NEW p \in Int, NEW r \in 0 .. PageSize - 1
  PROVE  p * PageSize + r \in Int /\ PageOf(p * PageSize + r) = p
<1> DEFINE a == p * PageSize + r  q == PageOf(a)
<1>1. a \in Int /\ p * PageSize \in Int
  BY StreamAssumption
<1> HIDE DEF a
<1>2. q \in Int /\ q * PageSize <= a /\ a < q * PageSize + PageSize
  BY <1>1, InPage
<1> HIDE DEF q
<1>3. p * PageSize <= a /\ a < p * PageSize + PageSize
  BY <1>1, StreamAssumption DEF a
<1>4. (q - p) * PageSize < PageSize /\ (p - q) * PageSize < PageSize
  <2>1. q * PageSize \in Int /\ PageSize \in Int
    BY <1>2, StreamAssumption
  <2>2. q * PageSize < p * PageSize + PageSize /\ p * PageSize < q * PageSize + PageSize
    BY <1>1, <1>2, <1>3, <2>1
  <2>3. (q - p) * PageSize = q * PageSize - p * PageSize /\ (p - q) * PageSize = p * PageSize - q * PageSize
    BY <1>2, StreamAssumption
  <2> QED BY <1>1, <2>1, <2>2, <2>3
<1>5. \A k \in Int : k * PageSize < PageSize => k < 1
  BY StreamAssumption
<1>6. q - p < 1 /\ p - q < 1
  BY <1>2, <1>4, <1>5
<1>7. q = p
  BY <1>2, <1>6
<1> QED BY <1>1, <1>7 DEF a, q

\* The page of its first address.
LEMMA PageOfStart ==
  ASSUME NEW p \in Int
  PROVE  PageOf(p * PageSize) = p /\ PageSize * p = p * PageSize /\ p * PageSize \in Int
<1>1. 0 \in 0 .. PageSize - 1
  BY StreamAssumption
<1>2. p * PageSize + 0 = p * PageSize /\ p * PageSize \in Int /\ PageSize * p = p * PageSize
  BY StreamAssumption
<1> QED BY <1>1, <1>2, PageIs

\* The order of pages is that of their addresses.
LEMMA PageOrder ==
  ASSUME NEW p \in Int, NEW q \in Int
  PROVE  /\ p < q <=> p * PageSize < q * PageSize
         /\ p < q <=> p * PageSize + PageSize <= q * PageSize
         /\ p <= q <=> p * PageSize <= q * PageSize
<1>1. p * PageSize \in Int /\ q * PageSize \in Int /\ PageSize \in Int /\ PageSize > 0
  BY StreamAssumption
<1>2. p < q => p * PageSize + PageSize <= q * PageSize
  <2>1. q - p >= 1 => (q - p) * PageSize >= PageSize
    BY StreamAssumption
  <2>2. (q - p) * PageSize = q * PageSize - p * PageSize
    BY StreamAssumption
  <2> QED BY <1>1, <2>1, <2>2
<1>3. q <= p => q * PageSize <= p * PageSize
  <2>1. p - q >= 0 => (p - q) * PageSize >= 0
    BY StreamAssumption
  <2>2. (p - q) * PageSize = p * PageSize - q * PageSize
    BY StreamAssumption
  <2> QED BY <1>1, <2>1, <2>2
<1>4. p <= q => p * PageSize <= q * PageSize
  BY <1>1, <1>2
<1>5. q < p => q * PageSize < p * PageSize
  <2>1. p - q >= 1 => (p - q) * PageSize >= PageSize
    BY StreamAssumption
  <2>2. (p - q) * PageSize = p * PageSize - q * PageSize
    BY StreamAssumption
  <2> QED BY <1>1, <2>1, <2>2
<1> QED BY <1>1, <1>2, <1>3, <1>4, <1>5

\* The order of the numbers ...
Less == {p \in Nat \X Nat : p[1] < p[2]}
\* ... is well-founded: every set of them has a least one.
LEMMA LessWellFounded == IsWellFoundedOn(Less, Nat)
  BY NatLessThanWellFounded, Zenon DEF OpToRel, Less

\* The last page of a region is the last of those that go on without a break.
LEMMA LastPageIs ==
  ASSUME NEW p \in Pages
  PROVE  LET L == LastPage(p)
         IN  /\ L \in Pages /\ p <= L
             /\ \A k \in p .. L : k \in Pages /\ SamePages(p, k)
             /\ L + 1 \in Pages => ~SamePages(p, L + 1)
<1> DEFINE S == {q \in Pages : q > p /\ \A k \in p .. q : SamePages(p, k)}
           B == {m \in Nat : m > p /\ m \notin S}
<1>0. p \in Nat /\ NumPages \in Nat /\ p < NumPages /\ Pages = 0 .. NumPages - 1
  BY StreamAssumption DEF Pages
<1>1. NumPages \in B
  BY <1>0
<1>2. B \subseteq Nat /\ B # {}
  BY <1>1
<1>3. PICK m \in B : \A c \in B : ~(<<c, m>> \in Less)
  <2> HIDE DEF B
  <2> QED BY <1>2, WFMin, LessWellFounded
<1>4. m \in Nat /\ m > p /\ m \notin S
  OBVIOUS
<1>5. \A c \in p + 1 .. m - 1 : c \in S
  <2> TAKE c \in p + 1 .. m - 1
  <2>1. c \in Nat /\ c > p /\ c < m
    BY <1>0, <1>4
  <2>2. c \notin B
    BY <1>3, <1>4, <2>1 DEF Less
  <2> QED BY <2>1, <2>2
<1>6. S \subseteq p + 1 .. m - 1
  <2> SUFFICES ASSUME NEW q \in S, q >= m PROVE FALSE
    BY <1>0, <1>4
  <2>1. q \in Nat /\ q < NumPages /\ \A k \in p .. q : SamePages(p, k)
    BY <1>0
  <2>2. m \in Pages /\ \A k \in p .. m : SamePages(p, k)
    BY <1>0, <1>4, <2>1
  <2> QED BY <1>4, <2>2
<1>7. S = p + 1 .. m - 1
  BY <1>5, <1>6
<1>8. Cardinality(S) = m - 1 - p
  <2> HIDE DEF S
  <2>1. p + 1 \in Int /\ m - 1 \in Int
    BY <1>0, <1>4
  <2>2. Cardinality(p + 1 .. m - 1) = IF p + 1 > m - 1 THEN 0 ELSE m - 1 - (p + 1) + 1
    BY <2>1, FS_Interval
  <2> QED BY <1>0, <1>4, <1>7, <2>2
<1>9. LastPage(p) = m - 1
  BY <1>0, <1>4, <1>8 DEF LastPage
<1>10. p <= m - 1 /\ m - 1 \in Pages /\ \A k \in p .. m - 1 : k \in Pages /\ SamePages(p, k)
  <2>1. SamePages(p, p)
    BY DEF SamePages
  <2>2. CASE m - 1 = p
    BY <1>0, <1>4, <2>1, <2>2
  <2>3. CASE m - 1 # p
    <3>1. m - 1 \in S
      <4>1. m - 1 \in p + 1 .. m - 1
        BY <1>0, <1>4, <2>3
      <4> QED BY <1>7, <4>1, Zenon
    <3>2. m - 1 \in Pages /\ \A k \in p .. m - 1 : SamePages(p, k)
      BY <3>1
    <3> QED BY <1>0, <1>4, <3>2
  <2> QED BY <2>2, <2>3
<1>11. m - 1 + 1 \in Pages => ~SamePages(p, m - 1 + 1)
  <2> SUFFICES ASSUME m \in Pages, SamePages(p, m) PROVE FALSE
    BY <1>4
  <2>1. \A k \in p .. m : SamePages(p, k)
    BY <1>0, <1>4, <1>10
  <2> QED BY <1>4, <2>1
<1> HIDE DEF S, B
<1> QED BY <1>9, <1>10, <1>11
-----------------------------------------------------------------------------
(* What the walks have found in it.                                        *)

\* A page at which a region begins, or the end of the address space.
Cut(e) == e \in 0 .. NumPages /\ (e \in Pages => e \in RegionStarts)
\* The walk looks at page e next: the address behind the end of a region is in the next one.
At(a, e) == a = IF e = 0 THEN 0 ELSE e * PageSize + 1

\* The pages files were written of.
WrittenPages == {PageOf(written[i].base) : i \in DOMAIN written}
Seen(n) == {m \in ModulePages : m < n}
UnknownSeen(n) == {m \in Seen(n) : UnknownModule(m)}
ModuleHashAt(m) ==
  LET h == HeaderOf[mem[m].body]
      iat == (m + h.iat) * PageSize
  IN  <<"module", h.id, IF Accessible(iat) THEN BodyAt(iat) ELSE Untouched>>
Collecting == hashes \cup db

\* Executable regions, those among them that no module seen so far covers, and what is
\* left of them behind the walk.
ExecStarts == {p \in RegionStarts \ {0} : options.chunks /\ mem[p].prot = "rx"}
Uncovered(n) == {p \in ExecStarts :
                   \A m \in Seen(n) : p < m \/ p > m + HeaderOf[mem[m].body].pages}
Addresses(S) == {PageSize * p : p \in S}
LooseAll == IF options.chunks THEN LoosePages ELSE {}
LooseUpTo(a) == {p \in LooseAll : PageSize * p <= a}
DumpedUpTo(a) == {p \in ModulePages : UnknownModule(p)} \cup {p \in LooseUpTo(a) : UnknownChunk(p)}

\* Every condition under which the two walks agree.
Alike == BareHeaders = {} /\ Cardinality(LoosePages) <= ChunkLimit + 1

BodiesOK == \A p \in Pages : mem[p].body # Untouched

\* A read of memory that does not change has in its buffer what can be read.
ExactRead ==
  /\ rd.loc = "copy" => InSpace(Position) /\ rd.region = Region(Position)
  /\ \A i \in DOMAIN rd.out :
       rd.out[i] = IF i < rd.already /\ Accessible(rd.start + i) THEN Cell(rd.start + i)
                   ELSE Untouched

\* The regions at which executable memory begins have been found as far as the walk has come.
HeapsFound ==
  pc = "heaps" => \E e \in 0 .. NumPages :
     /\ At(address, e) /\ Cut(e)
     /\ heaps = Addresses({p \in ExecStarts : p < e}) /\ options.chunks

\* Whatever the loose regions are in the end is among those found, and of the others all that
\* a module seen so far covers is gone.
HeapsLeft(n) ==
  /\ heaps \subseteq Addresses(Uncovered(n))
  /\ (job.kind = "dump" \/ BareHeaders = {}) => Addresses(LooseAll) \subseteq heaps

\* What has become of the modules below page n.
ModulesSeen(n) ==
  /\ HeapsLeft(n)
  /\ job.kind = "dump" => WrittenPages = UnknownSeen(n)
  /\ job.kind = "collect" => \A m \in Seen(n) : ModuleHashAt(m) \in Collecting

\* The walk is in the region that begins with page e, and looks at page e + count.
InRegion(e) ==
  /\ At(address, e) /\ Cut(e) /\ mbi = MbiInfo(address)
  /\ IF mbi.base > 0 THEN base = (e + count) * PageSize ELSE count = 0
  /\ job.kind = "dump" /\ mbi.base > 0 => base <= mbi.end
\* It has found a module there.
AtModule(e) ==
  LET m == e + count
  IN  /\ InRegion(e) /\ MorePages /\ m \in ModulePages

\* Where the walk has come.
SeenWalk == pc = "walk" => \E e \in 0 .. NumPages : At(address, e) /\ Cut(e) /\ ModulesSeen(e)
SeenPages == pc = "pages" => \E e \in 0 .. NumPages : InRegion(e) /\ ModulesSeen(e + count)
SeenImage ==
  pc = "image" =>
    /\ \E e \in 0 .. NumPages : AtModule(e) /\ ModulesSeen(e + count)
    /\ header = HeaderOf[BodyAt(base)]
    /\ rd.start = base /\ rd.size = header.pages * PageSize
SeenGenerated ==
  job.kind = "dump" /\ Generating("pages") =>
    \E e \in 0 .. NumPages :
      LET m == e + count
      IN  /\ AtModule(e) /\ gens.at = base /\ UnknownModule(m) /\ HeapsLeft(m + 1)
          /\ WrittenPages \cup {m} = UnknownSeen(m + 1)
WalkSeen == SeenWalk /\ SeenPages /\ SeenImage /\ SeenGenerated

\* The chunks up to the one in hand: none during the walk, ...
NoChunks ==
  pc \in {"heaps", "walk", "pages", "image"} \/ Generating("pages") => newChunks = 0 /\ heap = 0
\* ... then the loose regions one after the other, each counted once, ...
ChunksFound ==
  /\ heaps \subseteq Addresses(LooseAll)
  /\ job.kind = "dump" \/ BareHeaders = {} =>
        /\ heaps = Addresses(LooseAll)
        /\ newChunks <= Cardinality(LooseUpTo(heap)) /\ newChunks <= ChunkLimit + 1
  /\ job.kind = "collect" =>
        /\ \A m \in ModulePages : ModuleHashAt(m) \in Collecting
        /\ BareHeaders = {} => \A p \in LooseUpTo(heap) : <<"crc", mem[p].body>> \in Collecting
ChunkList == pc \in {"chunks", "chunk"} \/ Generating("chunks") => ChunksFound
\* ... all that had to be written of them written, but for the one in hand, ...
ChunkNext == pc = "chunks" /\ job.kind = "dump" => WrittenPages = DumpedUpTo(heap)
ChunkInHand ==
  pc = "chunk" =>
    /\ heap \in heaps /\ rd.start = heap - GenHeader
    /\ rd.size = GenHeader + EstimateSectionSize(heap)
    /\ <<"crc", BodyAt(heap)>> \notin db
    /\ job.kind = "dump" => WrittenPages = DumpedUpTo(heap - 1)
ChunkDumped ==
  job.kind = "dump" /\ Generating("chunks") =>
    /\ gens.at = heap /\ WrittenPages \cup {PageOf(heap)} = DumpedUpTo(heap)
\* ... and in the end all of it, unless there were too many.
ChunksOver ==
  pc \in {"end", "ready"} /\ job.kind = "dump" =>
    \/ newChunks <= Cardinality(LooseAll) /\ WrittenPages = Expected
    \/ newChunks > ChunkLimit + 1 /\ newChunks <= Cardinality(LooseAll)
ChunksSeen == NoChunks /\ ChunkList /\ ChunkNext /\ ChunkInHand /\ ChunkDumped /\ ChunksOver

\* What a collection that is over has taken for clean, once and for all.
AllClean == /\ \A m \in ModulePages : ~UnknownModule(m)
            /\ \A p \in LooseAll : <<"crc", mem[p].body>> \in db
CleanOnce ==
  /\ pc = "end" /\ job.kind = "collect" /\ Alike =>
        /\ \A m \in ModulePages : ModuleHashAt(m) \in Collecting
        /\ \A p \in LooseAll : <<"crc", mem[p].body>> \in Collecting
  /\ Alike /\ (last = "collect" \/ (job.kind = "collect" /\ pc = "ready")) => AllClean

StillInv ==
  /\ changes \in Nat /\ count \in Nat /\ newChunks \in Nat
  /\ changes = 0 =>
       /\ BodiesOK /\ (Aligned(rd.start) => ExactRead)
       /\ HeapsFound /\ WalkSeen /\ ChunksSeen /\ CleanOnce

\* A page and its first cell.
LEMMA CellsOf ==
  ASSUME NEW p \in Pages
  PROVE  /\ p \in Nat /\ p < NumPages /\ p * PageSize \in Nat /\ InSpace(p * PageSize)
         /\ PageOf(p * PageSize) = p
         /\ Accessible(p * PageSize) <=> mem[p].prot \in {"rw", "rx"}
         /\ BodyAt(p * PageSize) = mem[p].body
<1>1. p \in Nat /\ p < NumPages /\ p * PageSize \in Nat
  BY StreamAssumption DEF Pages
<1>2. PageOf(p * PageSize) = p
  BY <1>1, PageOfStart
<1> QED BY <1>1, <1>2 DEF InSpace, Accessible, BodyAt

\* A region ends where another begins, and has one beginning.
LEMMA RegionEnds ==
  ASSUME NEW e \in Pages, Cut(e)
  PROVE  /\ LastPage(e) + 1 \in 1 .. NumPages /\ Cut(LastPage(e) + 1)
         /\ \A p \in Pages : e < p /\ p <= LastPage(e) => p \notin RegionStarts
         /\ \A p \in Pages : e <= p /\ p <= LastPage(e) =>
              SamePages(e, p) /\ mem[p].prot = mem[e].prot /\ StartOf(p) = e
<1> DEFINE L == LastPage(e)
<1>1. /\ L \in Pages /\ e <= L /\ \A k \in e .. L : k \in Pages /\ SamePages(e, k)
      /\ L + 1 \in Pages => ~SamePages(e, L + 1)
  BY LastPageIs
<1> HIDE DEF L
<1>2. e \in Nat /\ L \in Nat /\ L < NumPages /\ NumPages \in Nat /\ Pages = 0 .. NumPages - 1
  BY <1>1, StreamAssumption DEF Pages
<1>3. L + 1 \in 1 .. NumPages
  BY <1>2
<1>4. L + 1 \in Pages => L + 1 \in RegionStarts
  <2> SUFFICES ASSUME L + 1 \in Pages, L \in Pages, SamePages(L, L + 1) PROVE FALSE
    <3>1. (L + 1) - 1 = L
      BY <1>2
    <3> QED BY <3>1 DEF RegionStarts
  <2>1. SamePages(e, L)
    BY <1>1, <1>2
  <2> QED BY <1>1, <2>1 DEF SamePages
<1>5. Cut(L + 1)
  BY <1>3, <1>4 DEF Cut
<1>6. ASSUME NEW p \in Pages, e < p, p <= L PROVE p \notin RegionStarts
  <2>1. p - 1 \in e .. L /\ p \in e .. L
    BY <1>2, <1>6
  <2>2. SamePages(e, p - 1) /\ SamePages(e, p) /\ p - 1 \in Pages
    BY <1>1, <2>1
  <2>3. SamePages(p - 1, p)
    BY <2>2 DEF SamePages
  <2> QED BY <2>2, <2>3 DEF RegionStarts
<1>7. ASSUME NEW p \in Pages, e <= p, p <= L
      PROVE  SamePages(e, p) /\ mem[p].prot = mem[e].prot /\ StartOf(p) = e
  <2>1. SamePages(e, p) /\ mem[p].prot = mem[e].prot
    BY <1>1, <1>2, <1>7 DEF SamePages
  <2>2. e \in RegionStarts /\ \A k \in e .. p : SamePages(e, k)
    BY <1>1, <1>2, <1>7 DEF Cut
  <2>3. ASSUME NEW q \in RegionStarts, q <= p, \A k \in q .. p : SamePages(q, k) PROVE q = e
    <3>1. q \in Pages /\ q \in Nat
      BY <1>2 DEF RegionStarts
    <3>2. ~(e < q)
      BY <1>2, <1>6, <1>7, <2>3, <3>1
    <3>3. ~(q < e)
      <4> SUFFICES ASSUME q < e PROVE FALSE
        OBVIOUS
      <4>1. e - 1 \in q .. p /\ e \in q .. p /\ e - 1 \in Pages
        BY <1>2, <1>7, <3>1
      <4>2. SamePages(q, e - 1) /\ SamePages(q, e)
        BY <2>3, <4>1
      <4>3. SamePages(e - 1, e)
        BY <4>2 DEF SamePages
      <4> QED BY <2>2, <4>1, <4>3 DEF RegionStarts
    <3> QED BY <1>2, <3>1, <3>2, <3>3
  <2>4. StartOf(p) = e
    BY <1>7, <2>2, <2>3 DEF StartOf
  <2> QED BY <2>1, <2>4
<1> QED BY <1>3, <1>5, <1>6, <1>7 DEF L

\* What a query on the way of the walk returns.
LEMMA InfoIs ==
  ASSUME NEW e \in 0 .. NumPages, NEW a, At(a, e)
  PROVE  /\ a \in Nat
         /\ e \in Pages =>
              /\ MbiInfo(a).base = e * PageSize /\ MbiInfo(a).end = (LastPage(e) + 1) * PageSize
              /\ MbiInfo(a).valid <=> mem[e].prot \notin {"free", "none"}
              /\ MbiInfo(a).executable <=> mem[e].prot = "rx"
         /\ e \notin Pages => e = NumPages /\ MbiInfo(a) = NoRegion
<1>1. e \in Int /\ NumPages \in Nat \ {0} /\ PageSize \in Nat /\ 1 \in 0 .. PageSize - 1 /\ 0 \in 0 .. PageSize - 1
  BY StreamAssumption, ScanAssumption
<1>2. a \in Nat /\ PageOf(a) = e
  <2>1. CASE e = 0
    <3>1. a = e * PageSize /\ a \in Nat
      BY <1>1, <2>1 DEF At
    <3> QED BY <1>1, <3>1, PageOfStart
  <2>2. CASE e # 0
    <3>1. a = e * PageSize + 1
      BY <2>2 DEF At
    <3>2. e * PageSize \in Nat
      BY <1>1
    <3> QED BY <1>1, <3>1, <3>2, PageIs
  <2> QED BY <2>1, <2>2
<1>3. ASSUME e \in Pages
      PROVE  /\ MbiInfo(a).base = e * PageSize /\ MbiInfo(a).end = (LastPage(e) + 1) * PageSize
             /\ MbiInfo(a).valid <=> mem[e].prot \notin {"free", "none"}
             /\ MbiInfo(a).executable <=> mem[e].prot = "rx"
  <2>1. LastPage(e) \in Int
    BY <1>3, LastPageIs, StreamAssumption DEF Pages
  <2>2. e * PageSize + (LastPage(e) - e + 1) * PageSize = (LastPage(e) + 1) * PageSize
    BY <1>1, <2>1
  <2>3. /\ Region(a).base = e * PageSize /\ Region(a).size = (LastPage(e) - e + 1) * PageSize
        /\ Region(a).prot = mem[e].prot
    BY <1>2 DEF Region
  <2>4. InSpace(a)
    BY <1>2, <1>3 DEF InSpace
  <2>5. MbiInfo(a).valid <=> mem[e].prot \notin {"free", "none"}
    BY <2>3, <2>4, Zenon DEF MbiInfo
  <2>6. MbiInfo(a).executable <=> mem[e].prot = "rx"
    BY <2>3, <2>4, Zenon DEF MbiInfo
  <2>7. MbiInfo(a).base = e * PageSize /\ MbiInfo(a).end = (LastPage(e) + 1) * PageSize
    BY <2>2, <2>3, <2>4, Zenon DEF MbiInfo
  <2> QED BY <2>5, <2>6, <2>7
<1>4. ASSUME e \notin Pages PROVE e = NumPages /\ MbiInfo(a) = NoRegion
  <2>1. e = NumPages
    BY <1>1, <1>4 DEF Pages
  <2> QED BY <1>2, <1>4, <2>1 DEF MbiInfo, InSpace
<1> QED BY <1>2, <1>3, <1>4

\* Modules begin with pages, and pages are numbers.
LEMMA ModulesArePages == ModulePages \subseteq Pages /\ Pages \subseteq Nat
  BY StreamAssumption DEF ModulePages, Pages

\* A module lies where the walk looks.
LEMMA ModuleInRegion ==
  ASSUME NEW e \in Pages, Cut(e), NEW m \in ModulePages, e <= m, m <= LastPage(e)
  PROVE  e > 0 /\ m - e < PageLimit /\ mem[e].prot \in {"rw", "rx"}
<1>1. m \in Pages /\ IsHeader(m * PageSize) /\ StartOf(m) > 0 /\ m - StartOf(m) < PageLimit
  BY DEF ModulePages
<1>2. StartOf(m) = e /\ mem[m].prot = mem[e].prot
  BY <1>1, RegionEnds
<1>3. mem[m].prot \in {"rw", "rx"}
  BY <1>1, CellsOf DEF IsHeader
<1> QED BY <1>1, <1>2, <1>3

\* The cells of a region can be read or not, all of them.
LEMMA RegionCells ==
  ASSUME NEW x \in Int, InSpace(x), NEW c \in Int,
         Region(x).base <= c, c < Region(x).base + Region(x).size
  PROVE  InSpace(c) /\ mem[PageOf(c)].prot = Region(x).prot
<1> DEFINE p == PageOf(x)  q == PageOf(c)  L == LastPage(p)
<1>1. p \in Pages /\ p \in Int /\ q \in Int /\ q * PageSize <= c /\ c < q * PageSize + PageSize
  BY InPage DEF InSpace
<1>2. /\ Region(x).base = p * PageSize /\ Region(x).size = (L - p + 1) * PageSize
      /\ Region(x).prot = mem[p].prot
  BY DEF Region
<1>3. L \in Pages /\ p <= L /\ \A k \in p .. L : k \in Pages /\ SamePages(p, k)
  BY <1>1, LastPageIs
<1> HIDE DEF p, q, L
<1>4. L \in Int
  BY <1>3, StreamAssumption DEF Pages
<1>5. p * PageSize + (L - p + 1) * PageSize = (L + 1) * PageSize
  BY <1>1, <1>4, StreamAssumption
<1>6. p * PageSize < (q + 1) * PageSize /\ q * PageSize < (L + 1) * PageSize
  <2>1. (q + 1) * PageSize = q * PageSize + PageSize /\ q * PageSize \in Int /\ p * PageSize \in Int
        /\ (L + 1) * PageSize \in Int
    BY <1>1, <1>4, StreamAssumption
  <2> QED BY <1>1, <1>2, <1>5, <2>1, StreamAssumption
<1>7. p < q + 1 /\ q < L + 1
  BY <1>1, <1>4, <1>6, PageOrder
<1>8. q \in p .. L
  BY <1>1, <1>4, <1>7
<1> QED BY <1>2, <1>3, <1>8 DEF SamePages, InSpace, q

\* A copy of cells that can all be read is complete.
LEMMA CopiedAll ==
  ASSUME NEW a \in Int, NEW n \in Nat, \A i \in 0 .. n - 1 : Accessible(a + i)
  PROVE  Copied(a, n) = n
<1>1. {k \in 0 .. n - 1 : \A i \in 0 .. k : Accessible(a + i)} = 0 .. n - 1
  OBVIOUS
<1>2. Cardinality(0 .. n - 1) = n
  BY FS_Interval
<1> QED BY <1>1, <1>2 DEF Copied

\* A complete copy keeps the buffer exact.
LEMMA ExactCopy ==
  ASSUME StreamInv, ExactRead, rd.loc = "copy", mem' = mem, NEW n \in Nat, n > 0, Copy(n),
         \A i \in DOMAIN rd.out : i >= rd.already /\ i < rd.already + n => Accessible(rd.start + i),
         Copied(Position, n) = n
  PROVE  ExactRead'
<1>1. /\ rd'.loc = "query" /\ rd'.start = rd.start /\ rd'.already = rd.already + n
      /\ rd'.out = [i \in DOMAIN rd.out |-> IF i >= rd.already /\ i < rd.already + n
                                            THEN Cell(rd.start + i) ELSE rd.out[i]]
  BY DEF Copy, StreamInv, StreamOK
<1>2. rd.already \in Nat /\ DOMAIN rd.out \subseteq Int /\ rd.start \in Int
  BY DEF StreamInv, StreamOK
<1>3. \A a : Accessible(a)' = Accessible(a) /\ Cell(a)' = Cell(a)
  BY DEF Accessible, Cell
<1>4. ASSUME NEW i \in DOMAIN rd.out
      PROVE  rd'.out[i] = IF i < rd.already + n /\ Accessible(rd.start + i) THEN Cell(rd.start + i)
                          ELSE Untouched
  <2>1. rd.out[i] = IF i < rd.already /\ Accessible(rd.start + i) THEN Cell(rd.start + i) ELSE Untouched
    BY DEF ExactRead
  <2>2. rd'.out[i] = IF i >= rd.already /\ i < rd.already + n THEN Cell(rd.start + i) ELSE rd.out[i]
    BY <1>1
  <2>3. i >= rd.already /\ i < rd.already + n => Accessible(rd.start + i)
    OBVIOUS
  <2>4. i \in Int
    BY <1>2
  <2> QED BY <1>2, <2>1, <2>2, <2>3, <2>4
<1>5. DOMAIN rd'.out = DOMAIN rd.out
  BY <1>1
<1> QED BY <1>1, <1>3, <1>4, <1>5 DEF ExactRead

\* What was asked for stays the same.
LEMMA ReadKeeps == ASSUME StreamInv, ReadStep PROVE rd'.start = rd.start /\ rd'.size = rd.size
<1>1. DOMAIN rd = {"loc", "start", "size", "already", "outRead", "out", "spill", "region"}
  BY DEF StreamInv, StreamOK
<1>2. QueryRegion \/ QueryFails => rd'.start = rd.start /\ rd'.size = rd.size
  BY <1>1 DEF QueryRegion, QueryFails
<1>3. SkipRegion => rd'.start = rd.start /\ rd'.size = rd.size
  BY <1>1 DEF SkipRegion
<1>4. ASSUME NEW n, Copy(n) PROVE rd'.start = rd.start /\ rd'.size = rd.size
  BY <1>1, <1>4 DEF Copy
<1>5. ReadWhole \/ ReadPart => rd'.start = rd.start /\ rd'.size = rd.size
  BY <1>4 DEF ReadWhole, ReadPart
<1> QED BY <1>2, <1>3, <1>5 DEF ReadStep, ReadRegion64, ReadRegion32

\* As long as the memory stays the same, a read from a page boundary is exact.
LEMMA ExactStep ==
  ASSUME StreamInv, ReadMoves, mem' = mem, Aligned(rd.start) => ExactRead
  PROVE  (Aligned(rd.start) => ExactRead)'
<1>0. \A a : Accessible(a)' = Accessible(a) /\ Cell(a)' = Cell(a) /\ Region(a)' = Region(a)
  BY DEF Accessible, Cell, Region, LastPage, SamePages
<1>1. ASSUME UNCHANGED rd PROVE (Aligned(rd.start) => ExactRead)'
  <2>1. Position' = Position
    BY <1>1 DEF Position
  <2> QED BY <1>0, <1>1, <2>1 DEF ExactRead, Aligned
<1>2. ASSUME rd' = NoRead PROVE ExactRead'
  BY <1>2 DEF NoRead, ExactRead
<1>3. ASSUME NEW start \in Int, NEW size \in Nat, rd' = NewRead(start, size) PROVE ExactRead'
  BY <1>3 DEF NewRead, NoRead, ExactRead
<1>4. ASSUME ReadStep PROVE (Aligned(rd.start) => ExactRead)'
  <2>0. /\ rd'.start = rd.start /\ Position \in Int
        /\ rd.start \in Int /\ rd.already \in Nat /\ rd.size \in Nat /\ DOMAIN rd.out = 0 .. rd.size - 1
    BY <1>4, ReadKeeps DEF StreamInv, StreamOK, Position
  <2> SUFFICES ASSUME Aligned(rd.start), ExactRead PROVE ExactRead'
    BY <2>0 DEF Aligned
  <2>1. CASE QueryRegion
    <3>1. /\ rd'.loc = "copy" /\ rd'.out = rd.out /\ rd'.already = rd.already
          /\ rd'.region = Region(Position) /\ InSpace(Position)
      BY <2>1 DEF QueryRegion, StreamInv, StreamOK
    <3>2. Position' = Position
      BY <2>0, <3>1 DEF Position
    <3>3. InSpace(Position)' /\ rd'.region = Region(Position)'
      BY <1>0, <3>1, <3>2 DEF InSpace, PageOf
    <3>4. \A i \in DOMAIN rd'.out :
             rd'.out[i] = IF i < rd'.already /\ Accessible(rd'.start + i) THEN Cell(rd'.start + i)
                          ELSE Untouched
      BY <2>0, <3>1 DEF ExactRead
    <3> QED BY <1>0, <3>3, <3>4 DEF ExactRead
  <2>2. CASE QueryFails
    <3>1. /\ rd'.loc = "query" /\ rd'.out = rd.out /\ rd'.already = rd.already + PageSize
          /\ ~InSpace(Position) /\ rd.already < rd.size
      BY <2>2 DEF QueryFails, Reading, StreamInv, StreamOK
    <3>2. Aligned(Position)
      BY <3>1 DEF StreamInv, OnBoundaries
    <3>3. ASSUME NEW i \in DOMAIN rd.out, i >= rd.already, i < rd.already + PageSize
          PROVE  ~Accessible(rd.start + i)
      <4>1. i - rd.already \in 0 .. PageSize - 1
        BY <2>0, <3>3, StreamAssumption
      <4>2. PageOf(Position) \in Int /\ PageOf(Position) * PageSize = Position
        BY <2>0, <3>2, InPage, PageStart
      <4>3. rd.start + i = Position + (i - rd.already)
        BY <2>0, <3>3 DEF Position
      <4>4. PageOf(rd.start + i) = PageOf(Position)
        BY <4>1, <4>2, <4>3, PageIs
      <4> QED BY <3>1, <4>4 DEF Accessible, InSpace
    <3>4. ASSUME NEW i \in DOMAIN rd'.out
          PROVE  rd'.out[i] = IF i < rd'.already /\ Accessible(rd'.start + i) THEN Cell(rd'.start + i)
                              ELSE Untouched
      <4>1. i \in DOMAIN rd.out /\ i \in Int
        BY <2>0, <3>1
      <4>2. rd.out[i] = IF i < rd.already /\ Accessible(rd.start + i) THEN Cell(rd.start + i) ELSE Untouched
        BY <4>1 DEF ExactRead
      <4>3. i >= rd.already /\ i < rd.already + PageSize => ~Accessible(rd.start + i)
        BY <3>3, <4>1
      <4> QED BY <2>0, <3>1, <4>1, <4>2, <4>3, StreamAssumption
    <3> QED BY <1>0, <3>1, <3>4 DEF ExactRead
  <2>3. ASSUME rd.loc = "copy"
        PROVE  /\ rd.already < rd.size /\ Aligned(Position) /\ rd.region.base = Position
               /\ rd.region.size \in Nat /\ PageSize <= rd.region.size
               /\ rd.region.prot = Region(Position).prot
               /\ \A i \in DOMAIN rd.out : i >= rd.already /\ i < rd.already + rd.region.size =>
                    (Accessible(rd.start + i) <=> Committed)
    <3>1. rd.already < rd.size /\ Aligned(Position) /\ rd.region.base = Position /\ rd.region.size \in Nat
          /\ PageSize <= rd.region.size
      BY <2>3 DEF StreamInv, StreamOK, OnBoundaries
    <3>2. InSpace(Position) /\ rd.region = Region(Position)
      BY <2>3 DEF ExactRead
    <3>3. ASSUME NEW i \in DOMAIN rd.out, i >= rd.already, i < rd.already + rd.region.size
          PROVE  Accessible(rd.start + i) <=> Committed
      <4>1. i \in Int /\ rd.start + i \in Int
        BY <2>0
      <4>2. rd.region.base <= rd.start + i /\ rd.start + i < rd.region.base + rd.region.size
        BY <2>0, <3>1, <3>3, <4>1 DEF Position
      <4>3. InSpace(rd.start + i) /\ mem[PageOf(rd.start + i)].prot = Region(Position).prot
        BY <2>0, <3>2, <4>1, <4>2, RegionCells
      <4> QED BY <3>2, <4>3 DEF Accessible, Committed
    <3> QED BY <3>1, <3>2, <3>3
  <2>4. ASSUME rd.loc = "copy", Committed, NEW n \in Nat, n > 0, n <= rd.region.size, Copy(n),
               rd.already + n <= rd.size
        PROVE  ExactRead'
    <3>1. \A i \in DOMAIN rd.out : i >= rd.already /\ i < rd.already + n => Accessible(rd.start + i)
      BY <2>0, <2>3, <2>4
    <3>2. ASSUME NEW j \in 0 .. n - 1 PROVE Accessible(Position + j)
      <4>1. rd.already + j \in DOMAIN rd.out /\ rd.start + (rd.already + j) = Position + j
        <5>1. j \in Nat /\ j < n /\ n \in Nat /\ rd.already + n <= rd.size
          BY <2>4
        <5>2. rd.already \in Nat /\ rd.start \in Int /\ rd.size \in Nat /\ DOMAIN rd.out = 0 .. rd.size - 1
          BY <2>0
        <5>3. rd.already + j \in 0 .. rd.size - 1
          BY <5>1, <5>2
        <5> QED BY <5>1, <5>2, <5>3 DEF Position
      <4>2. rd.already + j >= rd.already /\ rd.already + j < rd.already + n
        BY <2>0, <2>4
      <4> QED BY <3>1, <4>1, <4>2
    <3>3. Copied(Position, n) = n
      BY <2>0, <2>4, <3>2, CopiedAll
    <3> QED BY <2>4, <3>1, <3>3, ExactCopy
  <2>5. CASE rd.loc = "copy" /\ ReadWhole
    <3>1. rd.region.size > 0 /\ rd.already + rd.region.size <= rd.size
      <4>1. rd.start + rd.size >= rd.region.base + rd.region.size
        BY <2>5 DEF ReadWhole, WholeRegion
      <4>2. /\ rd.region.base = rd.start + rd.already /\ rd.region.size \in Nat
            /\ PageSize <= rd.region.size /\ PageSize \in Nat \ {0}
        BY <2>3, <2>5, StreamAssumption DEF Position
      <4>3. rd.start \in Int /\ rd.already \in Nat /\ rd.size \in Nat
        BY <2>0
      <4> QED BY <4>1, <4>2, <4>3
    <3> QED BY <2>3, <2>4, <2>5, <3>1 DEF ReadWhole
  <2>6. CASE rd.loc = "copy" /\ ReadPart
    <3> DEFINE n == rd.size - rd.already
    <3>1. n \in Nat /\ n > 0 /\ rd.already + n <= rd.size
      BY <2>0, <2>3, <2>6
    <3>2. n <= rd.region.size
      <4>1. rd.start + rd.size < rd.region.base + rd.region.size
        BY <2>0, <2>3, <2>6 DEF ReadPart, WholeRegion
      <4> QED BY <2>0, <2>3, <2>6, <4>1 DEF Position
    <3>3. Copy(n) /\ Committed
      BY <2>6 DEF ReadPart
    <3> HIDE DEF n
    <3> QED BY <2>4, <2>6, <3>1, <3>2, <3>3
  <2>7. CASE rd.loc = "copy" /\ SkipRegion
    <3>1. /\ rd'.loc = "query" /\ rd'.out = rd.out /\ rd'.already = rd.already + rd.region.size /\ ~Committed
      <4>1. rd.region.size - (Position - rd.region.base) = rd.region.size
        BY <2>0, <2>3, <2>7
      <4>2. /\ rd'.loc = "query" /\ rd'.out = rd.out /\ ~Committed
            /\ rd'.already = rd.already + rd.region.size - (Position - rd.region.base)
        BY <2>7 DEF SkipRegion, StreamInv, StreamOK
      <4> QED BY <2>0, <2>3, <2>7, <4>1, <4>2
    <3>2. ASSUME NEW i \in DOMAIN rd'.out
          PROVE  rd'.out[i] = IF i < rd'.already /\ Accessible(rd'.start + i) THEN Cell(rd'.start + i)
                              ELSE Untouched
      <4>1. i \in DOMAIN rd.out /\ i \in Int
        BY <2>0, <3>1
      <4>2. rd.out[i] = IF i < rd.already /\ Accessible(rd.start + i) THEN Cell(rd.start + i) ELSE Untouched
        BY <4>1 DEF ExactRead
      <4>3. i >= rd.already /\ i < rd.already + rd.region.size => ~Accessible(rd.start + i)
        BY <2>3, <2>7, <3>1, <4>1
      <4> QED BY <2>0, <2>3, <2>7, <3>1, <4>1, <4>2, <4>3
    <3> QED BY <1>0, <3>1, <3>2 DEF ExactRead
  <2> QED BY <1>4, <2>1, <2>2, <2>5, <2>6, <2>7 DEF ReadStep, ReadRegion64, ReadRegion32
<1> QED BY <1>1, <1>2, <1>3, <1>4 DEF ReadMoves

\* What an image hashes to, once it has been read.
LEMMA ImageRead ==
  ASSUME CellsAreNoMark, StreamInv, ExactRead, ReadDone, NEW m \in ModulePages,
         header = HeaderOf[mem[m].body], rd.start = m * PageSize, rd.size = header.pages * PageSize
  PROVE  ModuleHash(header) = ModuleHashAt(m)
<1> DEFINE i == header.iat * PageSize
           a == (m + header.iat) * PageSize
<1>1. m \in Pages /\ m \in Int /\ mem[m].body \in Headers
  <2>1. m \in Pages /\ IsHeader(m * PageSize)
    BY DEF ModulePages
  <2> QED BY <2>1, CellsOf DEF IsHeader
<1>2. header.iat \in 0 .. header.pages - 1 /\ header.pages \in Nat
  BY <1>1, ScanAssumption
<1>3. header.iat \in Nat /\ header.iat < header.pages
  BY <1>2
<1>4. i \in Nat /\ i < rd.size
  BY <1>2, <1>3, PageOrder, StreamAssumption
<1>5. rd.start + i = a
  BY <1>1, <1>3, StreamAssumption
<1> HIDE DEF i, a
<1>6. i \in DOMAIN rd.out /\ i < rd.already
  BY <1>4 DEF StreamInv, StreamOK, ReadDone
<1>7. rd.out[i] = IF Accessible(a) THEN Cell(a) ELSE Untouched
  BY <1>5, <1>6 DEF ExactRead
<1>8. Cell(a) # Untouched /\ Cell(a)[2] = BodyAt(a)
  BY DEF Cell, BodyAt, CellsAreNoMark
<1>9. BodyRead(i) = IF Accessible(a) THEN BodyAt(a) ELSE Untouched
  BY <1>7, <1>8 DEF BodyRead
<1> QED BY <1>9 DEF ModuleHash, ModuleHashAt, i, a

\* What a loose region calls, once it and the two pages in front of it have been read.
LEMMA ChunkRead ==
  ASSUME CellsAreNoMark, StreamInv, ExactRead, ReadDone, BodiesOK, ListOK(exports),
         NEW q \in Pages, mem[q].prot = "rx", rd.start = q * PageSize - GenHeader,
         rd.size = GenHeader + EstimateSectionSize(q * PageSize)
  PROVE  Imports = ImportsOf(q)
<1> DEFINE L == LastPage(q)
<1>1. /\ L \in Pages /\ q <= L /\ q \in Nat /\ L \in Nat
      /\ InSpace(q * PageSize) /\ PageOf(q * PageSize) = q
  BY LastPageIs, CellsOf
<1> HIDE DEF L
<1>2. /\ rd.start = (q - 2) * PageSize /\ rd.start \in Int
      /\ rd.size = (L - q + 3) * PageSize /\ rd.size \in Nat /\ rd.start + rd.size = (L + 1) * PageSize
  <2>1. EstimateSectionSize(q * PageSize) = (L - q + 1) * PageSize
    BY <1>1 DEF EstimateSectionSize, Region, L
  <2>2. GenHeader = 2 * PageSize
    BY DEF GenHeader
  <2>3. q * PageSize - 2 * PageSize = (q - 2) * PageSize /\ (q - 2) * PageSize \in Int
    BY <1>1, StreamAssumption
  <2>4. 2 * PageSize + (L - q + 1) * PageSize = (L - q + 3) * PageSize
    BY <1>1, StreamAssumption
  <2>5. (q - 2) * PageSize + (L - q + 3) * PageSize = (L + 1) * PageSize
    BY <1>1, StreamAssumption
  <2>6. (L - q + 3) * PageSize \in Nat
    BY <1>1, StreamAssumption
  <2> QED BY <2>1, <2>2, <2>3, <2>4, <2>5, <2>6
<1>3. DOMAIN rd.out = 0 .. rd.size - 1 /\ rd.already >= rd.size /\ rd.already \in Nat
  BY DEF StreamInv, StreamOK, ReadDone
<1>4. ASSUME NEW i \in DOMAIN rd.out
      PROVE  rd.out[i] = IF Accessible(rd.start + i) THEN Cell(rd.start + i) ELSE Untouched
  <2>1. i < rd.already
    BY <1>2, <1>3
  <2> QED BY <2>1 DEF ExactRead
<1>5. ASSUME NEW i \in DOMAIN rd.out
      PROVE  BodyRead(i) = IF Accessible(rd.start + i) THEN BodyAt(rd.start + i) ELSE Untouched
  <2>1. Cell(rd.start + i) # Untouched /\ Cell(rd.start + i)[2] = BodyAt(rd.start + i)
    BY DEF Cell, BodyAt, CellsAreNoMark
  <2> QED BY <1>4, <2>1 DEF BodyRead
<1> DEFINE K == {k \in (q - 2) .. L : k \in Pages /\ Accessible(k * PageSize)}
<1>6. ASSUME NEW b \in BodiesRead PROVE \E k \in K : b = mem[k].body
  <2>1. PICK i \in DOMAIN rd.out : b = BodyRead(i) /\ b # Untouched
    BY <1>6 DEF BodiesRead
  <2> DEFINE a == rd.start + i  k == PageOf(a)
  <2>2. Accessible(a) /\ b = BodyAt(a)
    BY <1>5, <2>1
  <2>3. a \in Int /\ (q - 2) * PageSize <= a /\ a < (L + 1) * PageSize
    BY <1>1, <1>2, <1>3
  <2> HIDE DEF a
  <2>4. k \in Int /\ k * PageSize <= a /\ a < k * PageSize + PageSize
    BY <2>3, InPage
  <2>5. k \in Pages /\ mem[k].prot \in {"rw", "rx"} /\ b = mem[k].body
    BY <2>2 DEF Accessible, InSpace, BodyAt
  <2> HIDE DEF k
  <2>6. (q - 2) * PageSize < (k + 1) * PageSize /\ k * PageSize < (L + 1) * PageSize
    <3>1. (k + 1) * PageSize = k * PageSize + PageSize /\ k * PageSize \in Int
          /\ (q - 2) * PageSize \in Int /\ (L + 1) * PageSize \in Int
      BY <1>1, <2>4, StreamAssumption
    <3> QED BY <2>3, <2>4, <3>1, StreamAssumption
  <2>7. q - 2 < k + 1 /\ k < L + 1
    BY <1>1, <2>4, <2>6, PageOrder
  <2>8. k \in K
    BY <1>1, <2>4, <2>5, <2>7, CellsOf
  <2> QED BY <2>5, <2>8
<1>7. ASSUME NEW k \in K PROVE mem[k].body \in BodiesRead
  <2>1. k \in Pages /\ Accessible(k * PageSize) /\ k \in Int /\ q - 2 <= k /\ k <= L
    BY <1>1
  <2> DEFINE i == (k - (q - 2)) * PageSize
  <2>2. rd.start + i = k * PageSize
    BY <1>1, <1>2, <2>1, StreamAssumption
  <2>3. i \in Nat
    BY <1>1, <2>1, StreamAssumption
  <2>4. i < rd.size
    BY <1>1, <1>2, <2>1, PageOrder
  <2> HIDE DEF i
  <2>5. i \in DOMAIN rd.out
    BY <1>2, <1>3, <2>3, <2>4
  <2>6. BodyRead(i) = mem[k].body
    BY <1>5, <2>1, <2>2, <2>5, CellsOf
  <2> QED BY <2>1, <2>5, <2>6 DEF BodiesRead, BodiesOK
<1>8. UNION {Refs[b] : b \in BodiesRead} = CalledFrom(q)
  <2>1. CalledFrom(q) = UNION {Refs[mem[k].body] : k \in K}
    BY DEF CalledFrom, L
  <2> HIDE DEF K
  <2> QED BY <1>6, <1>7, <2>1
<1>9. \A a : Contains(exports, a) <=> a \in exports.addresses
  BY DEF ListOK, Contains, Contains32, Contains64
<1> QED BY <1>8, <1>9 DEF Imports, ImportsOf

\* Where a region begins is found from each of its pages.
LEMMA StartIs ==
  ASSUME NEW p \in Pages
  PROVE  /\ StartOf(p) \in RegionStarts /\ StartOf(p) \in Nat /\ StartOf(p) <= p
         /\ \A k \in StartOf(p) .. p : SamePages(StartOf(p), k)
<1> DEFINE A == {q \in Nat : q <= p /\ \A k \in q .. p : SamePages(q, k)}
<1>0. p \in Nat /\ p < NumPages /\ NumPages \in Nat /\ Pages = 0 .. NumPages - 1
  BY StreamAssumption DEF Pages
<1>1. p \in A
  <2>1. SamePages(p, p)
    BY DEF SamePages
  <2> QED BY <1>0, <2>1
<1>2. PICK q \in A : \A c \in A : ~(<<c, q>> \in Less)
  <2>1. A \subseteq Nat /\ A # {}
    BY <1>1
  <2> HIDE DEF A
  <2> QED BY <2>1, WFMin, LessWellFounded
<1>3. q \in Nat /\ q <= p /\ \A k \in q .. p : SamePages(q, k)
  OBVIOUS
<1>4. q \in RegionStarts
  <2> SUFFICES ASSUME q - 1 \in Pages, SamePages(q - 1, q) PROVE FALSE
    BY <1>0, <1>3 DEF RegionStarts
  <2>1. q - 1 \in Nat /\ q - 1 < q
    BY <1>0, <1>3
  <2>2. \A k \in q - 1 .. p : SamePages(q - 1, k)
    <3> TAKE k \in q - 1 .. p
    <3>1. k = q - 1 \/ k \in q .. p
      BY <1>0, <1>3
    <3>2. k \in q .. p => SamePages(q, k)
      BY <1>3
    <3> QED BY <3>1, <3>2 DEF SamePages
  <2>3. q - 1 \in A
    BY <1>0, <1>3, <2>1, <2>2
  <2> QED BY <1>2, <1>3, <2>1, <2>3 DEF Less
<1>5. \E s \in RegionStarts : s <= p /\ \A k \in s .. p : SamePages(s, k)
  BY <1>3, <1>4
<1>6. StartOf(p) \in RegionStarts /\ StartOf(p) <= p /\ \A k \in StartOf(p) .. p : SamePages(StartOf(p), k)
  <2> HIDE DEF A
  <2> QED BY <1>5, Zenon DEF StartOf
<1> QED BY <1>0, <1>6 DEF RegionStarts

\* What depends on the memory and on the options only.
LEMMA SameMemory ==
  ASSUME mem' = mem, options' = options
  PROVE  /\ RegionStarts' = RegionStarts /\ ModulePages' = ModulePages
         /\ \A a : /\ Accessible(a)' = Accessible(a) /\ BodyAt(a)' = BodyAt(a)
                   /\ MbiInfo(a)' = MbiInfo(a) /\ IsHeader(a)' = IsHeader(a)
                   /\ EstimateSectionSize(a)' = EstimateSectionSize(a)
         /\ \A e : Cut(e)' = Cut(e) /\ Seen(e)' = Seen(e) /\ Uncovered(e)' = Uncovered(e)
         /\ ExecStarts' = ExecStarts /\ LooseAll' = LooseAll /\ LoosePages' = LoosePages
         /\ BareHeaders' = BareHeaders /\ Alike' = Alike
         /\ \A a : LooseUpTo(a)' = LooseUpTo(a)
         /\ \A m : ModuleHashAt(m)' = ModuleHashAt(m) /\ LastPage(m)' = LastPage(m)
         /\ \A p : CalledFrom(p)' = CalledFrom(p)
<1>1. /\ RegionStarts' = RegionStarts
      /\ \A a : Accessible(a)' = Accessible(a) /\ BodyAt(a)' = BodyAt(a)
  BY DEF RegionStarts, SamePages, Accessible, BodyAt
<1>2. \A p : StartOf(p)' = StartOf(p) /\ LastPage(p)' = LastPage(p)
  BY DEF StartOf, RegionStarts, SamePages, LastPage
<1>3. \A a : IsHeader(a)' = IsHeader(a)
  BY <1>1 DEF IsHeader
<1>4. \A a : MbiInfo(a)' = MbiInfo(a) /\ EstimateSectionSize(a)' = EstimateSectionSize(a)
  BY <1>2 DEF MbiInfo, Region, EstimateSectionSize
<1>5. ModulePages' = ModulePages
  BY <1>2, <1>3 DEF ModulePages
<1>6. \A e : Cut(e)' = Cut(e) /\ Seen(e)' = Seen(e)
  BY <1>1, <1>5 DEF Cut, Seen
<1>7. ExecStarts' = ExecStarts
  BY <1>1 DEF ExecStarts
<1>8. \A e : Uncovered(e)' = Uncovered(e)
  BY <1>6, <1>7 DEF Uncovered
<1>9. LoosePages' = LoosePages
  BY <1>1, <1>5 DEF LoosePages
<1>10. BareHeaders' = BareHeaders
  BY <1>1, <1>3 DEF BareHeaders
<1>11. LooseAll' = LooseAll /\ Alike' = Alike
  BY <1>9, <1>10 DEF LooseAll, Alike
<1>12. \A a : LooseUpTo(a)' = LooseUpTo(a)
  BY <1>11 DEF LooseUpTo
<1>13. \A m : ModuleHashAt(m)' = ModuleHashAt(m)
  BY <1>1 DEF ModuleHashAt
<1>14. \A p : CalledFrom(p)' = CalledFrom(p)
  BY <1>1, <1>2 DEF CalledFrom
<1> QED BY <1>1, <1>2, <1>3, <1>4, <1>5, <1>6, <1>7, <1>8, <1>9, <1>10, <1>11, <1>12, <1>13, <1>14

\* In a process that stands still nothing has changed.
LEMMA StandsStill ==
  ASSUME [Next]_vars, changes \in Nat, changes' = 0
  PROVE  changes = 0 /\ mem' = mem /\ options' = options
<1> USE DEF streamVars, envVars, listVars, walkVars, chunkVars, hashVars
<1>1. CASE UNCHANGED vars \/ Terminated \/ Flip
  BY <1>1 DEF vars, Terminated, Flip
<1>2. CASE \/ StartJob \/ BeginList \/ (\E b \in todo : LoadExports(b)) \/ LoadName
           \/ (\E a \in found.list.addresses : MergeExport(a)) \/ MergeDone \/ ListDone
           \/ BeginWalk \/ FindHeaps \/ QueryNext \/ NextRegion \/ Skip \/ FoundHeader
  BY <1>2 DEF StartJob, BeginList, LoadExports, LoadName, MergeExport, MergeDone, ListDone,
              BeginWalk, FindHeaps, QueryNext, NextRegion, Skip, FoundHeader
<1>3. CASE \/ CollectModule \/ DumpModule \/ (\E h \in heaps : LookAtHeap(h)) \/ HeapsDone
           \/ CollectChunk \/ DumpChunk \/ BuildHeader \/ DumpGenerated
           \/ BeginRegion \/ DumpRegion \/ EndJob \/ Read
  BY <1>3 DEF CollectModule, DumpModule, LookAtHeap, HeapsDone, CollectChunk, DumpChunk,
              BuildHeader, DumpGenerated, BeginRegion, DumpRegion, EndJob, Read
<1> HIDE DEF streamVars, envVars, listVars, walkVars, chunkVars, hashVars
<1> QED BY <1>1, <1>2, <1>3 DEF Next, Tool
-----------------------------------------------------------------------------
(* The loose regions found and left.                                       *)

\* A page is known by its address.
LEMMA AddressesIn ==
  ASSUME NEW S, S \subseteq Pages, NEW p \in Pages
  PROVE  PageSize * p \in Addresses(S) <=> p \in S
<1> SUFFICES ASSUME NEW q \in S, PageSize * p = PageSize * q PROVE p = q
  BY DEF Addresses
<1>1. p \in Int /\ q \in Int
  BY StreamAssumption DEF Pages
<1>2. PageOf(p * PageSize) = p /\ PageOf(q * PageSize) = q /\ PageSize * p = p * PageSize
      /\ PageSize * q = q * PageSize
  BY <1>1, PageOfStart
<1> QED BY <1>2

\* The loose regions are those that no module covers, when all modules have been seen.
LEMMA LooseIsUncovered ==
  /\ ExecStarts \subseteq Pages /\ LooseAll \subseteq ExecStarts /\ LooseAll \subseteq Pages
  /\ Uncovered(0) = ExecStarts
  /\ \A n : LooseAll \subseteq Uncovered(n) /\ Uncovered(n) \subseteq Pages
  /\ Uncovered(NumPages) = LooseAll
<1>1. ExecStarts \subseteq Pages
  BY DEF ExecStarts, RegionStarts
<1>2. \A n : Seen(n) \subseteq ModulePages
  BY DEF Seen
<1>3. Seen(0) = {} /\ Seen(NumPages) = ModulePages
  <2>1. \A m \in ModulePages : m \in Nat /\ m < NumPages
    BY ModulesArePages, CellsOf
  <2> QED BY <2>1 DEF Seen
<1>4. LooseAll = {p \in ExecStarts : \A m \in ModulePages : p < m \/ p > m + HeaderOf[mem[m].body].pages}
  BY DEF LooseAll, LoosePages, ExecStarts
<1> QED BY <1>1, <1>2, <1>3, <1>4 DEF Uncovered

\* The more modules have been seen, the fewer regions are left.
LEMMA LeftBefore ==
  ASSUME NEW n, NEW k, HeapsLeft(n), Seen(k) \subseteq Seen(n)
  PROVE  HeapsLeft(k)
  BY DEF HeapsLeft, Uncovered, Addresses

\* A module takes away the regions it covers and no loose one.
LEMMA LeftBehind ==
  ASSUME NEW m \in ModulePages, HeapsLeft(m), mem' = mem, options' = options, job' = job,
         ExcludeHeaps(m * PageSize, HeaderOf[mem[m].body].pages * PageSize)
  PROVE  HeapsLeft(m + 1)'
<1> DEFINE n == HeaderOf[mem[m].body].pages
<1>1. m \in Pages /\ m \in Nat /\ n \in Nat
  <2>1. m \in Pages /\ IsHeader(m * PageSize) /\ m \in Nat
    BY ModulesArePages DEF ModulePages
  <2> QED BY <2>1, CellsOf, ScanAssumption DEF IsHeader
<1>2. Seen(m + 1) = Seen(m) \cup {m}
  <2>1. \A k \in ModulePages : k \in Nat
    BY ModulesArePages
  <2>2. \A k \in ModulePages : k < m + 1 <=> (k < m \/ k = m)
    BY <1>1, <2>1
  <2> QED BY <2>2, Zenon DEF Seen
<1>3. heaps' = {h \in heaps : ~(h <= m * PageSize + n * PageSize /\ h >= m * PageSize)}
  BY DEF ExcludeHeaps
<1>4. ASSUME NEW p \in Pages
      PROVE  /\ PageSize * p = p * PageSize
             /\ (p * PageSize <= m * PageSize + n * PageSize /\ p * PageSize >= m * PageSize)
                   <=> ~(p < m \/ p > m + n)
  <2>1. p \in Nat
    BY ModulesArePages
  <2>2. PageSize * p = p * PageSize
    BY <2>1, PageOfStart
  <2>3. m * PageSize + n * PageSize = (m + n) * PageSize /\ m + n \in Int
    BY <1>1, StreamAssumption
  <2> HIDE DEF n
  <2>4. (p * PageSize <= (m + n) * PageSize <=> p <= m + n) /\ (m * PageSize <= p * PageSize <=> m <= p)
    BY <1>1, <2>1, <2>3, PageOrder
  <2>5. p * PageSize \in Int /\ m * PageSize \in Int
    BY <1>1, <2>1, PageOfStart
  <2> QED BY <1>1, <2>1, <2>2, <2>3, <2>4, <2>5
<1> HIDE DEF n
<1>5. heaps' \subseteq Addresses(Uncovered(m + 1))
  <2> SUFFICES ASSUME NEW h \in heaps' PROVE h \in Addresses(Uncovered(m + 1))
    OBVIOUS
  <2>1. h \in heaps /\ ~(h <= m * PageSize + n * PageSize /\ h >= m * PageSize)
    BY <1>3
  <2>2. PICK p \in Uncovered(m) : h = PageSize * p
    BY <2>1 DEF HeapsLeft, Addresses
  <2>3. p \in Pages
    BY LooseIsUncovered
  <2>4. p < m \/ p > m + n
    BY <1>4, <2>1, <2>2, <2>3
  <2>5. p \in Uncovered(m + 1)
    BY <1>2, <2>2, <2>4 DEF Uncovered, n
  <2> QED BY <2>2, <2>5 DEF Addresses
<1>6. ASSUME job.kind = "dump" \/ BareHeaders = {} PROVE Addresses(LooseAll) \subseteq heaps'
  <2> SUFFICES ASSUME NEW p \in LooseAll PROVE PageSize * p \in heaps'
    BY DEF Addresses
  <2>1. PageSize * p \in heaps
    BY <1>6 DEF HeapsLeft, Addresses
  <2>2. p \in Pages
    BY LooseIsUncovered
  <2>3. p < m \/ p > m + n
    BY DEF LooseAll, LoosePages, n
  <2> QED BY <1>3, <1>4, <2>1, <2>2, <2>3
<1> QED BY <1>5, <1>6, SameMemory DEF HeapsLeft, Addresses

\* A page that is no module hides none, unless a region begins with a bare header.
LEMMA LeftBare ==
  ASSUME NEW m \in Nat, m \notin ModulePages, HeapsLeft(m), mem' = mem, options' = options,
         job' = job, job.kind \in {"collect", "dump"},
         \/ UNCHANGED heaps
         \/ /\ job.kind = "collect" /\ ExcludeHeaps(m * PageSize, 0)
            /\ IsHeader(m * PageSize) /\ HeaderOf[BodyAt(m * PageSize)].parses
            /\ ~HeaderOf[BodyAt(m * PageSize)].sections
  PROVE  HeapsLeft(m + 1)'
<1>1. Seen(m + 1) = Seen(m)
  <2>1. \A k \in ModulePages : k \in Nat
    BY ModulesArePages
  <2> QED BY <2>1 DEF Seen
<1>2. heaps' \subseteq heaps
  BY DEF ExcludeHeaps
<1>3. ASSUME job.kind = "dump" \/ BareHeaders = {} PROVE Addresses(LooseAll) \subseteq heaps'
  <2>1. Addresses(LooseAll) \subseteq heaps
    BY <1>3 DEF HeapsLeft
  <2>2. CASE UNCHANGED heaps
    BY <2>1, <2>2
  <2>3. CASE /\ job.kind = "collect" /\ ExcludeHeaps(m * PageSize, 0)
             /\ IsHeader(m * PageSize) /\ HeaderOf[BodyAt(m * PageSize)].parses
             /\ ~HeaderOf[BodyAt(m * PageSize)].sections
    <3> SUFFICES ASSUME NEW p \in LooseAll PROVE PageSize * p \in heaps'
      BY DEF Addresses
    <3>1. PageSize * p \in heaps /\ p \in Pages /\ p \in Nat
      BY <2>1, LooseIsUncovered, ModulesArePages DEF Addresses
    <3>2. p # m
      <4> SUFFICES ASSUME p = m PROVE FALSE
        OBVIOUS
      <4>1. p \in RegionStarts /\ mem[p].prot = "rx"
        BY DEF LooseAll, LoosePages
      <4>2. HeaderOf[mem[p].body].parses /\ ~HeaderOf[mem[p].body].sections
        <5>1. BodyAt(p * PageSize) = mem[p].body
          BY <3>1, CellsOf
        <5> QED BY <2>3, <5>1
      <4>3. p \in BareHeaders
        BY <2>3, <4>1, <4>2 DEF BareHeaders
      <4> QED BY <1>3, <2>3, <4>3
    <3>3. PageSize * p # m * PageSize
      BY <3>1, <3>2, PageOfStart
    <3>4. PageSize * p \in Int /\ m * PageSize \in Int
      BY <3>1, PageOfStart
    <3> QED BY <2>3, <3>1, <3>3, <3>4 DEF ExcludeHeaps
  <2> QED BY <2>2, <2>3
<1> QED BY <1>1, <1>2, <1>3, SameMemory DEF HeapsLeft, Uncovered, Addresses
-----------------------------------------------------------------------------
(* The walk over the regions.                                              *)

\* The region the walk is in.
LEMMA RegionHere ==
  ASSUME NEW e \in 0 .. NumPages, InRegion(e)
  PROVE  /\ e \in Nat /\ address \in Nat /\ At(address, e) /\ Cut(e)
         /\ e \in Pages =>
              /\ mbi.base = e * PageSize /\ mbi.end = (LastPage(e) + 1) * PageSize
              /\ mbi.valid <=> mem[e].prot \notin {"free", "none"}
              /\ e <= LastPage(e) /\ LastPage(e) \in Nat /\ e * PageSize \in Nat
         /\ e \notin Pages => e = NumPages /\ mbi = NoRegion
         /\ Usable(mbi) => e \in Pages /\ e > 0 /\ base = (e + count) * PageSize
<1>1. e \in Nat /\ NumPages \in Nat
  BY StreamAssumption
<1>2. At(address, e) /\ Cut(e) /\ mbi = MbiInfo(address)
  BY DEF InRegion
<1>3. ASSUME e \in Pages
      PROVE  /\ mbi.base = e * PageSize /\ mbi.end = (LastPage(e) + 1) * PageSize
             /\ mbi.valid <=> mem[e].prot \notin {"free", "none"}
             /\ e <= LastPage(e) /\ LastPage(e) \in Nat /\ e * PageSize \in Nat
  <2>1. e <= LastPage(e) /\ LastPage(e) \in Nat /\ e * PageSize \in Nat
    BY <1>3, LastPageIs, CellsOf
  <2>2. /\ MbiInfo(address).base = e * PageSize /\ MbiInfo(address).end = (LastPage(e) + 1) * PageSize
        /\ MbiInfo(address).valid <=> mem[e].prot \notin {"free", "none"}
    BY <1>2, <1>3, InfoIs
  <2>3. mbi.valid <=> mem[e].prot \notin {"free", "none"}
    BY <1>2, <2>2, Zenon
  <2> QED BY <1>2, <2>1, <2>2, <2>3
<1>4. e \notin Pages => e = NumPages /\ mbi = NoRegion
  BY <1>2, InfoIs
<1>5. ASSUME Usable(mbi) PROVE e \in Pages /\ e > 0 /\ base = (e + count) * PageSize
  <2>1. mbi.base > 0 /\ mbi # NoRegion
    BY <1>5 DEF Usable, NoRegion
  <2>2. e \in Pages
    BY <1>4, <2>1
  <2>3. e # 0
    BY <1>3, <2>1, <2>2, StreamAssumption
  <2> QED BY <1>1, <2>1, <2>2, <2>3 DEF InRegion
<1> QED BY <1>1, <1>2, <1>3, <1>4, <1>5, InfoIs

\* One page on.
LEMMA NextInRegion ==
  ASSUME NEW e \in 0 .. NumPages, InRegion(e), MorePages, NextPage, count \in Nat,
         UNCHANGED <<address, mbi, job>>, mem' = mem, options' = options
  PROVE  InRegion(e)' /\ count' = count + 1 /\ e + count' = e + count + 1
<1>1. Usable(mbi) /\ count' = count + 1 /\ base' = base + PageSize
  BY DEF MorePages, NextPage
<1>2. e \in Nat /\ e \in Pages /\ base = (e + count) * PageSize /\ mbi.base > 0
      /\ mbi.end = (LastPage(e) + 1) * PageSize /\ LastPage(e) \in Nat
  BY <1>1, RegionHere DEF Usable
<1>3. base' = (e + count') * PageSize /\ e + count' = e + count + 1
  BY <1>1, <1>2, StreamAssumption
<1>4. ASSUME job.kind = "dump" PROVE base' <= mbi.end
  <2>1. base + HeaderCells < mbi.end
    BY <1>4 DEF MorePages
  <2>2. base \in Int /\ mbi.end \in Int /\ e + count \in Int /\ LastPage(e) + 1 \in Int
    BY <1>2, StreamAssumption
  <2>3. (e + count) * PageSize < (LastPage(e) + 1) * PageSize
    BY <1>2, <2>1, <2>2, ScanAssumption, StreamAssumption
  <2>4. (e + count) * PageSize + PageSize <= (LastPage(e) + 1) * PageSize
    BY <2>2, <2>3, PageOrder
  <2> QED BY <1>1, <1>2, <2>4
<1>5. At(address, e)' /\ Cut(e)' /\ mbi' = MbiInfo(address)'
  <2>1. At(address, e) /\ Cut(e) /\ mbi = MbiInfo(address)
    BY DEF InRegion
  <2>2. MbiInfo(address)' = MbiInfo(address)
    BY DEF MbiInfo, Region, LastPage, SamePages, InSpace
  <2> QED BY <2>1, <2>2, SameMemory DEF At
<1> QED BY <1>1, <1>2, <1>3, <1>4, <1>5 DEF InRegion

\* The header of a module is one that has sections, and only that.
LEMMA ModuleHere ==
  ASSUME NEW e \in 0 .. NumPages, InRegion(e), MorePages, count \in Nat
  PROVE  LET m == e + count
         IN  /\ m \in Nat /\ base = m * PageSize
             /\ m \in ModulePages <=> /\ IsHeader(base)
                                      /\ HeaderOf[BodyAt(base)].parses
                                      /\ HeaderOf[BodyAt(base)].sections
             /\ IsHeader(base) => m \in Pages /\ BodyAt(base) = mem[m].body
<1> DEFINE m == e + count
<1>1. Usable(mbi) /\ count < PageLimit
  BY DEF MorePages
<1>2. e \in Nat /\ e \in Pages /\ e > 0 /\ base = m * PageSize /\ m \in Nat /\ Cut(e)
  BY <1>1, RegionHere
<1>3. PageOf(base) = m
  BY <1>2, PageOfStart
<1>4. m >= e /\ m - e = count
  BY <1>2
<1> HIDE DEF m
<1>5. IsHeader(base) => m \in Pages /\ BodyAt(base) = mem[m].body
  BY <1>3 DEF IsHeader, Accessible, InSpace, BodyAt
<1>6. ASSUME m \in Pages PROVE StartOf(m) > 0 /\ m - StartOf(m) < PageLimit
  <2> DEFINE s == StartOf(m)
  <2>1. s \in RegionStarts /\ s \in Nat /\ s <= m /\ \A k \in s .. m : SamePages(s, k)
    BY <1>6, StartIs
  <2> HIDE DEF s
  <2>2. e <= s
    <3> SUFFICES ASSUME s < e PROVE FALSE
      BY <1>2, <2>1
    <3>1. e - 1 \in s .. m /\ e \in s .. m /\ e - 1 \in Pages
      BY <1>2, <1>4, <2>1, StreamAssumption DEF Pages
    <3>2. SamePages(e - 1, e)
      BY <2>1, <3>1 DEF SamePages
    <3> QED BY <1>2, <3>1, <3>2 DEF Cut, RegionStarts
  <2>3. s > 0 /\ m - s < PageLimit
    BY <1>1, <1>2, <1>4, <2>1, <2>2, ScanAssumption
  <2> QED BY <2>3 DEF s
<1>7. m \in ModulePages => IsHeader(base) /\ HeaderOf[BodyAt(base)].parses /\ HeaderOf[BodyAt(base)].sections
  BY <1>2, <1>5 DEF ModulePages
<1>8. IsHeader(base) /\ HeaderOf[BodyAt(base)].parses /\ HeaderOf[BodyAt(base)].sections => m \in ModulePages
  BY <1>2, <1>5, <1>6 DEF ModulePages
<1> QED BY <1>2, <1>5, <1>7, <1>8 DEF m

\* When the walk leaves a region, it has seen what there is in it.
LEMMA RegionSeen ==
  ASSUME NEW e \in Pages, e \in 0 .. NumPages, InRegion(e), ~MorePages, count \in Nat,
         job.kind \in {"collect", "dump"}
  PROVE  LET n == LastPage(e) + 1
         IN  /\ Seen(n) \subseteq Seen(e + count)
             /\ job.kind = "dump" => Seen(n) = Seen(e + count)
<1> DEFINE L == LastPage(e)
<1>1. /\ e \in Nat /\ mbi.base = e * PageSize /\ mbi.end = (L + 1) * PageSize
      /\ mbi.valid <=> mem[e].prot \notin {"free", "none"}
      /\ e <= L /\ L \in Nat /\ Cut(e)
      /\ Usable(mbi) => base = (e + count) * PageSize
  BY RegionHere
<1>2. \A m \in ModulePages : m \in Nat
  BY ModulesArePages
<1> HIDE DEF L
<1>3. e * PageSize \in Int /\ (L + 1) * PageSize \in Int /\ e * PageSize + PageSize <= (L + 1) * PageSize
      /\ (e + count) * PageSize \in Int /\ e + count \in Int /\ L + 1 \in Int
  <2>1. e \in Int /\ L + 1 \in Int /\ e + count \in Int /\ e < L + 1
    BY <1>1
  <2> QED BY <2>1, PageOrder, StreamAssumption
<1>4. ASSUME NEW m \in ModulePages, m < L + 1, e + count <= m PROVE FALSE
  <2>1. m \in Nat /\ e <= m /\ m <= L
    BY <1>1, <1>2, <1>4
  <2>2. e > 0 /\ m - e < PageLimit /\ mem[e].prot \in {"rw", "rx"}
    BY <1>1, <1>4, <2>1, ModuleInRegion DEF L
  <2>3. e * PageSize > 0
    BY <1>1, <2>2, StreamAssumption
  <2>4. Usable(mbi)
    BY <1>1, <1>3, <2>2, <2>3, StreamAssumption DEF Usable
  <2>5. count < PageLimit
    BY <1>1, <1>4, <2>1, <2>2, ScanAssumption
  <2>6. CASE job.kind = "collect"
    <3>1. mbi.base + HeaderCells < mbi.end
      BY <1>1, <1>3, ScanAssumption, StreamAssumption
    <3> QED BY <2>4, <2>5, <2>6, <3>1 DEF MorePages
  <2>7. CASE job.kind = "dump"
    <3>1. ~(base + HeaderCells < mbi.end)
      BY <2>4, <2>5, <2>7 DEF MorePages
    <3>2. e + count < L + 1
      BY <1>1, <1>4, <2>1
    <3>3. (e + count) * PageSize + PageSize <= (L + 1) * PageSize
      BY <1>3, <3>2, PageOrder
    <3> QED BY <1>1, <1>3, <2>4, <3>1, <3>3, ScanAssumption, StreamAssumption
  <2> QED BY <2>6, <2>7
<1>5. Seen(L + 1) \subseteq Seen(e + count)
  BY <1>2, <1>3, <1>4 DEF Seen
<1>6. ASSUME job.kind = "dump" PROVE e + count <= L + 1
  <2>1. CASE mbi.base > 0
    <3>1. (e + count) * PageSize <= (L + 1) * PageSize
      BY <1>1, <1>6, <2>1 DEF InRegion
    <3> QED BY <1>3, <3>1, PageOrder
  <2>2. CASE ~(mbi.base > 0)
    <3>1. count = 0
      BY <2>2 DEF InRegion
    <3> QED BY <1>1, <3>1
  <2> QED BY <2>1, <2>2
<1>7. job.kind = "dump" => Seen(e + count) \subseteq Seen(L + 1)
  BY <1>2, <1>3, <1>6 DEF Seen
<1> QED BY <1>5, <1>7 DEF L

\* A file more, of the page it begins with.
LEMMA WrittenMore ==
  ASSUME NEW f, written' = Append(written, f), written \in Seq({written[i] : i \in DOMAIN written})
  PROVE  WrittenPages' = WrittenPages \cup {PageOf(f.base)}
<1>1. /\ DOMAIN written' = DOMAIN written \cup {Len(written) + 1}
      /\ \A i \in DOMAIN written : written'[i] = written[i]
      /\ written'[Len(written) + 1] = f
  BY FileMore
<1>2. WrittenPages' = {PageOf(written'[i].base) : i \in DOMAIN written'}
  BY DEF WrittenPages, PageOf
<1> QED BY <1>1, <1>2 DEF WrittenPages

\* A walk that begins has everything before it.
LEMMA SeenNothing ==
  ASSUME heaps = Addresses(ExecStarts), WrittenPages = {}
  PROVE  ModulesSeen(0) /\ Cut(0) /\ At(0, 0) /\ 0 \in 0 .. NumPages
<1>1. Seen(0) = {}
  <2>1. \A m \in ModulePages : m \in Nat
    BY ModulesArePages
  <2> QED BY <2>1 DEF Seen
<1>2. HeapsLeft(0)
  BY LooseIsUncovered DEF HeapsLeft, Addresses
<1>3. Cut(0) /\ 0 \in 0 .. NumPages
  BY StreamAssumption DEF Cut, RegionStarts, Pages
<1>4. UnknownSeen(0) = {}
  BY <1>1 DEF UnknownSeen
<1> QED BY <1>1, <1>2, <1>3, <1>4 DEF ModulesSeen, At

\* A page that is no module leaves everything as it was.
LEMMA SeenPlain ==
  ASSUME NEW m \in Nat, m \notin ModulePages, ModulesSeen(m), mem' = mem, options' = options,
         UNCHANGED <<job, written, hashes, db>>, HeapsLeft(m + 1)'
  PROVE  ModulesSeen(m + 1)'
<1>1. Seen(m + 1) = Seen(m)
  <2>1. \A k \in ModulePages : k \in Nat
    BY ModulesArePages
  <2> QED BY <2>1 DEF Seen
<1>2. UnknownSeen(m + 1)' = UnknownSeen(m)
  <2>1. \A k : UnknownModule(k)' = UnknownModule(k)
    BY DEF UnknownModule, Accessible, BodyAt
  <2> QED BY <1>1, <2>1, SameMemory DEF UnknownSeen
<1>3. WrittenPages' = WrittenPages /\ Collecting' = Collecting
  BY DEF WrittenPages, PageOf, Collecting
<1> QED BY <1>1, <1>2, <1>3, SameMemory DEF ModulesSeen

\* One module more.
LEMMA SeenMore ==
  ASSUME NEW m \in ModulePages
  PROVE  /\ Seen(m + 1) = Seen(m) \cup {m}
         /\ UnknownSeen(m + 1) = IF UnknownModule(m) THEN UnknownSeen(m) \cup {m} ELSE UnknownSeen(m)
         /\ \A k : UnknownModule(k) <=> ModuleHashAt(k) \notin db
<1>1. Seen(m + 1) = Seen(m) \cup {m}
  <2>1. \A k \in ModulePages : k \in Nat
    BY ModulesArePages
  <2>2. \A k \in ModulePages : k < m + 1 <=> (k < m \/ k = m)
    BY <2>1
  <2> QED BY <2>2, Zenon DEF Seen
<1>2. m \notin Seen(m)
  BY ModulesArePages DEF Seen
<1>3. \A k : UnknownModule(k) <=> ModuleHashAt(k) \notin db
  BY DEF UnknownModule, ModuleHashAt
<1> QED BY <1>1, <1>2, <1>3 DEF UnknownSeen

\* The walk goes on, and what it has seen grows with it.
LEMMA SeenStep ==
  ASSUME CellsAreNoMark, WalkOK, StreamInv, JobsOK, Aligned(rd.start) => ExactRead,
         count \in Nat, HeapsFound, WalkSeen, [Next]_vars, mem' = mem, options' = options
  PROVE  (HeapsFound /\ WalkSeen)'
<1> USE DEF streamVars, envVars, listVars, walkVars, chunkVars, hashVars
<1> DEFINE Goal == (HeapsFound /\ WalkSeen)'
<1>0. /\ ModulePages' = ModulePages /\ ExecStarts' = ExecStarts /\ LooseAll' = LooseAll
      /\ BareHeaders' = BareHeaders
      /\ \A e : Cut(e)' = Cut(e) /\ Seen(e)' = Seen(e) /\ Uncovered(e)' = Uncovered(e)
      /\ \A a : MbiInfo(a)' = MbiInfo(a) /\ BodyAt(a)' = BodyAt(a)
      /\ \A m : ModuleHashAt(m)' = ModuleHashAt(m) /\ LastPage(m)' = LastPage(m)
  BY SameMemory
<1>1. ASSUME pc' \notin {"heaps", "walk", "pages", "image"}, ~Generating("pages")' PROVE Goal
  BY <1>1 DEF HeapsFound, WalkSeen, SeenWalk, SeenPages, SeenImage, SeenGenerated
\* The parts, one at a time.
<1>2. ASSUME pc' = "heaps", HeapsFound' PROVE Goal
  BY <1>2 DEF WalkSeen, SeenWalk, SeenPages, SeenImage, SeenGenerated, Generating
<1>3. ASSUME pc' = "walk", SeenWalk' PROVE Goal
  BY <1>3 DEF HeapsFound, WalkSeen, SeenPages, SeenImage, SeenGenerated, Generating
<1>4. ASSUME pc' = "pages", SeenPages' PROVE Goal
  BY <1>4 DEF HeapsFound, WalkSeen, SeenWalk, SeenImage, SeenGenerated, Generating
<1>5. ASSUME pc' = "image", SeenImage' PROVE Goal
  BY <1>5 DEF HeapsFound, WalkSeen, SeenWalk, SeenPages, SeenGenerated, Generating
<1>6. ASSUME pc' \in {"generate", "generated"}, SeenGenerated' PROVE Goal
  BY <1>6 DEF HeapsFound, WalkSeen, SeenWalk, SeenPages, SeenImage
\* A step that leaves the walk alone.
<1>7. ASSUME UNCHANGED <<job, address, mbi, base, count, heaps, header, gens, written, hashes, db>>,
             (rd'.start = rd.start /\ rd'.size = rd.size) \/ pc' # "image",
             \/ pc' = pc
             \/ pc = "generate" /\ pc' = "generated"
      PROVE  Goal
  <2>1. \A e : At(address, e)' = At(address, e)
    BY <1>7 DEF At
  <2>2. \A e : InRegion(e)' = InRegion(e)
    <3>1. MbiInfo(address)' = MbiInfo(address)
      BY <1>7 DEF MbiInfo, Region, LastPage, SamePages, InSpace, PageOf
    <3> QED BY <1>0, <1>7, <2>1, <3>1 DEF InRegion
  <2>3. MorePages' = MorePages
    BY <1>7 DEF MorePages, Usable
  <2>4. \A e : AtModule(e)' = AtModule(e)
    BY <1>0, <1>7, <2>2, <2>3 DEF AtModule
  <2>5. \A n : HeapsLeft(n)' = HeapsLeft(n)
    BY <1>0, <1>7 DEF HeapsLeft, Addresses
  <2>6. \A m : UnknownModule(m)' = UnknownModule(m)
    BY <1>7 DEF UnknownModule, Accessible, BodyAt
  <2>7. WrittenPages' = WrittenPages /\ Collecting' = Collecting
    BY <1>7 DEF WrittenPages, PageOf, Collecting
  <2>8. \A n : UnknownSeen(n)' = UnknownSeen(n)
    BY <1>0, <2>6 DEF UnknownSeen
  <2>9. \A n : ModulesSeen(n)' = ModulesSeen(n)
    BY <1>0, <1>7, <2>5, <2>7, <2>8 DEF ModulesSeen
  <2>10. Generating("pages")' = Generating("pages")
    BY <1>7 DEF Generating
  <2>11. BodyAt(base)' = BodyAt(base)
    BY <1>7 DEF BodyAt, PageOf
  <2>12. HeapsFound'
    BY <1>0, <1>7, <2>1 DEF HeapsFound, Addresses
  <2>13. SeenWalk'
    BY <1>0, <1>7, <2>1, <2>9 DEF WalkSeen, SeenWalk
  <2>14. SeenPages'
    BY <1>7, <2>2, <2>9 DEF WalkSeen, SeenPages
  <2>15. SeenImage'
    BY <1>7, <2>4, <2>9, <2>11 DEF WalkSeen, SeenImage
  <2>16. SeenGenerated'
    BY <1>7, <2>4, <2>5, <2>6, <2>7, <2>8, <2>10 DEF WalkSeen, SeenGenerated
  <2> QED BY <2>12, <2>13, <2>14, <2>15, <2>16 DEF WalkSeen
<1>8. CASE UNCHANGED vars \/ Terminated \/ Flip
  BY <1>7, <1>8 DEF vars, Terminated, Flip
<1>9. CASE Read
  <2>1. rd'.start = rd.start /\ rd'.size = rd.size
    BY <1>9, ReadKeeps DEF Read
  <2> QED BY <1>7, <1>9, <2>1 DEF Read
<1>10. CASE \/ StartJob \/ BeginList \/ (\E b \in todo : LoadExports(b)) \/ LoadName
            \/ (\E a \in found.list.addresses : MergeExport(a)) \/ MergeDone \/ ListDone
            \/ HeapsDone \/ CollectChunk \/ DumpRegion \/ EndJob
  <2>1. pc' \in {"list", "begin", "exports", "names", "merge", "end", "chunks", "ready"}
    BY <1>10 DEF StartJob, BeginList, LoadExports, LoadName, MergeExport, MergeDone, ListDone,
                 HeapsDone, CollectChunk, DumpRegion, EndJob
  <2> QED BY <1>1, <2>1 DEF Generating
<1>11. CASE \E h \in heaps : LookAtHeap(h)
  <2>1. pc' \in {"chunks", "chunk", "end"}
    BY <1>11 DEF LookAtHeap
  <2> QED BY <1>1, <2>1 DEF Generating
<1>12. CASE DumpChunk \/ BeginRegion
  <2>1. \/ pc' \in {"chunks", "end", "region"}
        \/ pc' = "generate" /\ gens'.back \in {"chunks", "end"}
    BY <1>12 DEF DumpChunk, BeginRegion, Generated
  <2> QED BY <1>1, <2>1 DEF Generating
<1>13. CASE BeginWalk
  <2>1. written' = << >> /\ address' = 0 /\ heaps' = {}
    BY <1>13 DEF BeginWalk, JobsOK
  <2>2. WrittenPages' = {}
    BY <2>1 DEF WrittenPages
  <2>3. CASE pc' = "heaps"
    <3>1. {p \in ExecStarts : p < 0} = {}
      <4>1. \A p \in ExecStarts : p \in Nat
        BY LooseIsUncovered, ModulesArePages
      <4> QED BY <4>1
    <3>2. heaps' = Addresses({p \in ExecStarts : p < 0})
      BY <2>1, <3>1 DEF Addresses
    <3>3. Cut(0) /\ 0 \in 0 .. NumPages /\ At(address', 0)
      BY <2>1, StreamAssumption DEF Cut, RegionStarts, Pages, At
    <3> QED BY <1>0, <1>2, <1>13, <2>3, <3>2, <3>3 DEF BeginWalk, HeapsFound, At, Addresses
  <2>4. CASE pc' = "walk"
    <3>1. ~options.chunks
      BY <1>13, <2>4 DEF BeginWalk
    <3>2. ExecStarts = {} /\ heaps' = Addresses(ExecStarts)
      BY <2>1, <3>1 DEF ExecStarts, Addresses
    <3>3. (heaps = Addresses(ExecStarts) /\ WrittenPages = {} =>
            ModulesSeen(0) /\ Cut(0) /\ At(0, 0) /\ 0 \in 0 .. NumPages)'
      BY SeenNothing, PTL
    <3>4. heaps' = Addresses(ExecStarts)'
      BY <1>0, <3>2 DEF Addresses
    <3>5. ModulesSeen(0)' /\ Cut(0)' /\ At(address, 0)' /\ 0 \in 0 .. NumPages
      BY <2>1, <2>2, <3>3, <3>4 DEF At
    <3> QED BY <1>3, <2>4, <3>5 DEF SeenWalk
  <2> QED BY <1>13, <2>3, <2>4 DEF BeginWalk
<1>14. CASE FindHeaps
  <2> DEFINE r == MbiInfo(address)
  <2>1. PICK e \in 0 .. NumPages :
          /\ At(address, e) /\ Cut(e) /\ options.chunks
          /\ heaps = Addresses({p \in ExecStarts : p < e})
    BY <1>14 DEF FindHeaps, HeapsFound
  <2>2. /\ heaps' = IF Usable(r) /\ r.executable THEN heaps \cup {r.base} ELSE heaps
        /\ IF LastRegion(r) THEN pc' = "walk" /\ address' = 0
           ELSE pc' = "heaps" /\ address' = r.end + 1
        /\ written' = written
    BY <1>14 DEF FindHeaps
  <2>3. \A p \in ExecStarts : p \in Nat /\ p \in Pages
    BY LooseIsUncovered, ModulesArePages
  <2>4. e \in Nat /\ address \in Nat
    BY <2>1, StreamAssumption, InfoIs
  <2>5. CASE e \in Pages
    <3> DEFINE L == LastPage(e)
    <3>1. /\ r.base = e * PageSize /\ r.end = (L + 1) * PageSize
          /\ r.valid <=> mem[e].prot \notin {"free", "none"}
          /\ r.executable <=> mem[e].prot = "rx"
      BY <2>1, <2>5, InfoIs
    <3>2. e <= L /\ L \in Nat /\ e * PageSize \in Nat /\ L + 1 \in 1 .. NumPages /\ Cut(L + 1)
      BY <2>1, <2>5, LastPageIs, RegionEnds, CellsOf
    <3>3. \A p \in Pages : e < p /\ p <= L => p \notin RegionStarts
      BY <2>1, <2>5, RegionEnds
    <3> HIDE DEF L, r
    <3>4. ~LastRegion(r)
      <4>1. address <= e * PageSize + 1
        BY <2>1, <3>2, StreamAssumption DEF At
      <4>2. e * PageSize + PageSize <= (L + 1) * PageSize
        <5>1. e < L + 1 /\ L + 1 \in Int /\ e \in Int
          BY <2>4, <3>2
        <5> QED BY <5>1, PageOrder
      <4>3. (L + 1) * PageSize \in Int
        BY <3>2, StreamAssumption
      <4>4. r.end \in Int /\ e * PageSize \in Int /\ PageSize \in Nat \ {0} /\ address \in Nat
        BY <2>4, <3>1, <3>2, <4>3, StreamAssumption
      <4>5. e * PageSize + PageSize <= r.end
        BY <3>1, <4>2
      <4>6. ~(r.end + 1 <= address)
        BY <4>1, <4>4, <4>5
      <4> QED BY <4>6 DEF LastRegion
    <3>5. pc' = "heaps" /\ At(address', L + 1) /\ L + 1 \in 0 .. NumPages
      <4>1. pc' = "heaps" /\ address' = (L + 1) * PageSize + 1
        BY <2>2, <3>1, <3>4
      <4>2. L + 1 # 0 /\ L + 1 \in 0 .. NumPages
        BY <3>2, StreamAssumption
      <4> QED BY <4>1, <4>2 DEF At
    <3>6. \A p \in ExecStarts : p < L + 1 <=> p < e \/ p = e
      <4> TAKE p \in ExecStarts
      <4>1. p \in Nat /\ p \in Pages /\ p \in RegionStarts
        BY <2>3 DEF ExecStarts
      <4>2. ~(e < p /\ p <= L)
        BY <3>3, <4>1
      <4> QED BY <2>4, <3>2, <4>1, <4>2
    <3>7. Usable(r) /\ r.executable <=> e > 0 /\ mem[e].prot = "rx"
      <4>1. e * PageSize > 0 <=> e > 0
        BY <2>4, StreamAssumption
      <4>2. (L + 1) * PageSize > 0
        BY <3>2, StreamAssumption
      <4>3. r.base > 0 <=> e > 0
        BY <3>1, <4>1
      <4>4. r.end > 0
        BY <3>1, <4>2
      <4> QED BY <3>1, <4>3, <4>4 DEF Usable
    <3>8. options.chunks
      BY <2>1
    <3>9. e \in ExecStarts <=> e > 0 /\ mem[e].prot = "rx"
      BY <2>1, <2>4, <2>5, <3>8 DEF ExecStarts, Cut
    <3>10. r.base = PageSize * e
      BY <2>4, <3>1, PageOfStart
    <3>11. heaps' = Addresses({p \in ExecStarts : p < L + 1})
      BY <2>1, <2>2, <3>6, <3>7, <3>9, <3>10 DEF Addresses
    <3>12. HeapsFound'
      BY <1>0, <2>1, <3>2, <3>5, <3>11 DEF HeapsFound, Addresses, At
    <3> QED BY <1>2, <3>5, <3>12
  <2>6. CASE e \notin Pages
    <3>1. e = NumPages /\ r = NoRegion /\ e > 0
      BY <2>1, <2>6, InfoIs, StreamAssumption
    <3>2. address >= 1
      <4>1. e * PageSize \in Nat
        BY <2>4, StreamAssumption
      <4> QED BY <2>1, <3>1, <4>1 DEF At
    <3>3. pc' = "walk" /\ address' = 0 /\ heaps' = heaps
      BY <2>2, <2>4, <3>1, <3>2 DEF LastRegion, NoRegion, Usable
    <3>4. {p \in ExecStarts : p < e} = ExecStarts
      BY <2>3, <3>1, CellsOf
    <3>5. heaps' = Addresses(ExecStarts)'
      BY <1>0, <2>1, <3>3, <3>4 DEF Addresses
    <3>6. WrittenPages' = {}
      <4>1. written' = << >>
        BY <1>14, <2>2 DEF FindHeaps, JobsOK
      <4> QED BY <4>1 DEF WrittenPages
    <3>7. (heaps = Addresses(ExecStarts) /\ WrittenPages = {} =>
            ModulesSeen(0) /\ Cut(0) /\ At(0, 0) /\ 0 \in 0 .. NumPages)'
      BY SeenNothing, PTL
    <3>8. ModulesSeen(0)' /\ Cut(0)' /\ At(address, 0)' /\ 0 \in 0 .. NumPages
      BY <3>3, <3>5, <3>6, <3>7 DEF At
    <3> QED BY <1>3, <3>3, <3>8 DEF SeenWalk
  <2> QED BY <2>5, <2>6
<1>15. CASE QueryNext
  <2>1. PICK e \in 0 .. NumPages : At(address, e) /\ Cut(e) /\ ModulesSeen(e)
    BY <1>15 DEF QueryNext, WalkSeen, SeenWalk
  <2>2. /\ pc' = "pages" /\ mbi' = MbiInfo(address) /\ count' = 0
        /\ base' = mbi'.base - (mbi'.base % PageSize)
        /\ UNCHANGED <<address, job, heaps, written, hashes, db>>
    BY <1>15 DEF QueryNext
  <2>3. e \in Nat
    BY StreamAssumption
  <2>4. mbi'.base > 0 => base' = (e + count') * PageSize /\ base' <= mbi'.end
    <3>1. CASE e \in Pages
      <4>1. mbi'.base = e * PageSize /\ mbi'.end = (LastPage(e) + 1) * PageSize
        BY <2>1, <2>2, <3>1, InfoIs
      <4>2. Aligned(e * PageSize) /\ e * PageSize \in Int /\ e + 0 = e
        BY <2>3, Multiple
      <4>3. base' = (e + count') * PageSize
        BY <2>2, <4>1, <4>2 DEF Aligned
      <4>4. LastPage(e) \in Pages /\ e <= LastPage(e)
        BY <3>1, LastPageIs
      <4>5. LastPage(e) \in Nat
        BY <4>4, ModulesArePages
      <4>6. e <= LastPage(e) + 1 /\ LastPage(e) + 1 \in Int
        BY <2>3, <4>4, <4>5
      <4> QED BY <2>2, <2>3, <4>1, <4>3, <4>6, PageOrder
    <3>2. CASE e \notin Pages
      BY <2>1, <2>2, <3>2, InfoIs DEF NoRegion
    <3> QED BY <3>1, <3>2
  <2>5. MbiInfo(address)' = MbiInfo(address)
    BY <2>2 DEF MbiInfo, Region, LastPage, SamePages, InSpace, PageOf
  <2>6. InRegion(e)'
    BY <1>0, <2>1, <2>2, <2>4, <2>5 DEF InRegion, At
  <2>7. ModulesSeen(e)'
    <3>1. HeapsLeft(e)'
      BY <1>0, <2>1, <2>2 DEF ModulesSeen, HeapsLeft, Addresses
    <3>2. WrittenPages' = WrittenPages /\ Collecting' = Collecting
      BY <2>2 DEF WrittenPages, PageOf, Collecting
    <3>3. UnknownSeen(e)' = UnknownSeen(e)
      BY <1>0, <2>2 DEF UnknownSeen, UnknownModule, Accessible, BodyAt
    <3> QED BY <1>0, <2>1, <2>2, <3>1, <3>2, <3>3 DEF ModulesSeen
  <2>8. e + count' = e
    BY <2>2, <2>3
  <2>9. SeenPages'
    BY <2>6, <2>7, <2>8 DEF SeenPages
  <2> QED BY <1>4, <2>2, <2>9
<1>16. CASE NextRegion
  <2>1. PICK e \in 0 .. NumPages : InRegion(e) /\ ModulesSeen(e + count)
    BY <1>16 DEF NextRegion, WalkSeen, SeenPages
  <2>2. /\ ~MorePages
        /\ IF LastRegion(mbi) THEN pc' = "chunks" /\ UNCHANGED address
           ELSE pc' = "walk" /\ address' = mbi.end + 1
        /\ UNCHANGED <<job, heaps, written, hashes, db>>
        /\ job.kind \in {"collect", "dump"}
    BY <1>16 DEF NextRegion, JobsOK
  <2>3. CASE pc' = "chunks"
    BY <1>1, <2>3 DEF Generating
  <2>4. CASE pc' # "chunks"
    <3>1. pc' = "walk" /\ address' = mbi.end + 1 /\ ~LastRegion(mbi)
      BY <2>2, <2>4
    <3>2. e \in Pages
      <4> SUFFICES ASSUME e \notin Pages PROVE FALSE
        OBVIOUS
      <4>1. e = NumPages /\ mbi = NoRegion /\ At(address, e) /\ e \in Nat /\ e > 0
        BY <2>1, RegionHere, StreamAssumption
      <4>2. e * PageSize \in Nat
        BY <4>1, StreamAssumption
      <4> QED BY <3>1, <4>1, <4>2 DEF At, LastRegion, NoRegion
    <3> PICK n \in 1 .. NumPages : n = LastPage(e) + 1
      BY <2>1, <3>2, RegionEnds, RegionHere
    <3>3. Cut(n) /\ mbi.end = n * PageSize
      BY <2>1, <3>2, RegionEnds, RegionHere
    <3>4. Seen(n) \subseteq Seen(e + count) /\ (job.kind = "dump" => Seen(n) = Seen(e + count))
      BY <2>1, <2>2, <3>2, RegionSeen
    <3>5. At(address', n) /\ n \in 0 .. NumPages
      <4>1. n # 0 /\ n \in 0 .. NumPages
        BY <3>3, StreamAssumption
      <4> QED BY <3>1, <3>3, <4>1 DEF At
    <3>6. HeapsLeft(n)
      BY <2>1, <3>4, LeftBefore DEF ModulesSeen
    <3>7. HeapsLeft(n)'
      BY <1>0, <2>2, <3>6 DEF HeapsLeft, Addresses
    <3>8. WrittenPages' = WrittenPages /\ Collecting' = Collecting
      BY <2>2 DEF WrittenPages, PageOf, Collecting
    <3>9. \A m : UnknownModule(m)' = UnknownModule(m)
      BY <2>2 DEF UnknownModule, Accessible, BodyAt
    <3>10. job.kind = "dump" => UnknownSeen(n)' = UnknownSeen(e + count)
      BY <1>0, <3>4, <3>9 DEF UnknownSeen
    <3>11. ModulesSeen(n)'
      BY <1>0, <2>1, <2>2, <3>4, <3>7, <3>8, <3>10 DEF ModulesSeen
    <3>12. SeenWalk'
      BY <1>0, <3>3, <3>5, <3>11 DEF SeenWalk, At
    <3> QED BY <1>3, <3>1, <3>12
  <2> QED BY <2>3, <2>4
\* The walk looks at page m.
<1>17. ASSUME pc = "pages", MorePages
       PROVE  \E e \in 0 .. NumPages, m \in Nat :
                /\ InRegion(e) /\ m = e + count /\ base = m * PageSize /\ ModulesSeen(m)
                /\ m \in ModulePages <=> /\ IsHeader(base)
                                         /\ HeaderOf[BodyAt(base)].parses
                                         /\ HeaderOf[BodyAt(base)].sections
                /\ IsHeader(base) => m \in Pages /\ BodyAt(base) = mem[m].body
  <2>1. PICK e \in 0 .. NumPages : InRegion(e) /\ ModulesSeen(e + count)
    BY <1>17 DEF WalkSeen, SeenPages
  <2>2. PICK m \in Nat : m = e + count
    BY <1>17, <2>1, ModuleHere
  <2>3. /\ base = m * PageSize
        /\ m \in ModulePages <=> /\ IsHeader(base)
                                 /\ HeaderOf[BodyAt(base)].parses
                                 /\ HeaderOf[BodyAt(base)].sections
        /\ IsHeader(base) => m \in Pages /\ BodyAt(base) = mem[m].body
    BY <1>17, <2>1, <2>2, ModuleHere
  <2> QED BY <2>1, <2>2, <2>3
\* It is no module.
<1>18. ASSUME pc = "pages", MorePages, NextPage,
              ~(IsHeader(base) /\ HeaderOf[BodyAt(base)].parses /\ HeaderOf[BodyAt(base)].sections),
              UNCHANGED <<address, mbi, job, written, hashes, db>>,
              \/ UNCHANGED heaps
              \/ /\ job.kind = "collect" /\ ExcludeHeaps(base, 0)
                 /\ IsHeader(base) /\ HeaderOf[BodyAt(base)].parses
       PROVE  Goal
  <2>1. PICK e \in 0 .. NumPages, m \in Nat :
          /\ InRegion(e) /\ m = e + count /\ base = m * PageSize /\ ModulesSeen(m)
          /\ m \notin ModulePages
    BY <1>17, <1>18
  <2>2. job.kind \in {"collect", "dump"}
    BY <1>18 DEF JobsOK
  <2>3. HeapsLeft(m + 1)'
    <3>1. HeapsLeft(m)
      BY <2>1 DEF ModulesSeen
    <3> QED BY <1>18, <2>1, <2>2, <3>1, LeftBare
  <2>4. ModulesSeen(m + 1)'
    BY <1>18, <2>1, <2>3, SeenPlain
  <2>5. InRegion(e)' /\ e + count' = m + 1
    BY <1>18, <2>1, NextInRegion
  <2>6. SeenPages'
    BY <2>4, <2>5 DEF SeenPages
  <2> QED BY <1>4, <1>18, <2>6 DEF NextPage
<1>19. CASE Skip
  BY <1>18, <1>19 DEF Skip
<1>20. CASE FoundHeader
  <2> DEFINE h == HeaderOf[BodyAt(base)]
  <2>1. /\ pc = "pages" /\ MorePages /\ IsHeader(base)
        /\ IF h.parses /\ h.sections
           THEN /\ header' = h /\ rd' = NewRead(base, h.pages * PageSize) /\ pc' = "image"
                /\ UNCHANGED <<base, count, heaps>>
           ELSE /\ NextPage
                /\ IF h.parses /\ job.kind = "collect" THEN ExcludeHeaps(base, 0)
                   ELSE UNCHANGED heaps
        /\ UNCHANGED <<address, mbi, job, written, hashes, db>>
    BY <1>20 DEF FoundHeader
  <2>2. CASE ~(h.parses /\ h.sections)
    <3>1. \/ UNCHANGED heaps
          \/ h.parses /\ job.kind = "collect" /\ ExcludeHeaps(base, 0)
      BY <2>1, <2>2
    <3> QED BY <1>18, <2>1, <2>2, <3>1
  <2>3. CASE h.parses /\ h.sections
    <3>1. PICK e \in 0 .. NumPages, m \in Nat :
            InRegion(e) /\ m = e + count /\ base = m * PageSize /\ ModulesSeen(m) /\ m \in ModulePages
      BY <1>17, <2>1, <2>3
    <3>2. /\ pc' = "image" /\ header' = h /\ UNCHANGED <<base, count, heaps>>
          /\ rd'.start = base /\ rd'.size = h.pages * PageSize
      BY <2>1, <2>3 DEF NewRead, NoRead
    <3>3. MbiInfo(address)' = MbiInfo(address)
      BY <2>1 DEF MbiInfo, Region, LastPage, SamePages, InSpace, PageOf
    <3>4. InRegion(e)'
      BY <1>0, <2>1, <3>1, <3>2, <3>3 DEF InRegion, At
    <3>5. AtModule(e)'
      <4>1. MorePages' /\ m \in ModulePages'
        BY <1>0, <2>1, <3>1, <3>2 DEF MorePages, Usable
      <4> QED BY <3>1, <3>2, <3>4, <4>1 DEF AtModule
    <3>6. ModulesSeen(m)'
      <4>1. HeapsLeft(m)'
        BY <1>0, <2>1, <3>1, <3>2 DEF ModulesSeen, HeapsLeft, Addresses
      <4>2. WrittenPages' = WrittenPages /\ Collecting' = Collecting
        BY <2>1 DEF WrittenPages, PageOf, Collecting
      <4>3. UnknownSeen(m)' = UnknownSeen(m)
        BY <1>0, <2>1 DEF UnknownSeen, UnknownModule, Accessible, BodyAt
      <4> QED BY <1>0, <2>1, <3>1, <4>1, <4>2, <4>3 DEF ModulesSeen
    <3>7. BodyAt(base)' = BodyAt(base)
      BY <3>2 DEF BodyAt, PageOf
    <3>8. SeenImage'
      BY <3>1, <3>2, <3>5, <3>6, <3>7 DEF SeenImage
    <3> QED BY <1>5, <3>2, <3>8
  <2> QED BY <2>2, <2>3
\* An image has been read.
<1>21. ASSUME pc = "image", ReadDone
       PROVE  \E e \in 0 .. NumPages, m \in ModulePages :
                /\ AtModule(e) /\ m = e + count /\ base = m * PageSize /\ ModulesSeen(m)
                /\ m \in Nat /\ m \in Pages /\ rd.size = HeaderOf[mem[m].body].pages * PageSize
                /\ ModuleHash(header) = ModuleHashAt(m)
  <2>1. PICK e \in 0 .. NumPages : AtModule(e) /\ ModulesSeen(e + count)
    BY <1>21 DEF WalkSeen, SeenImage
  <2>2. /\ header = HeaderOf[BodyAt(base)]
        /\ rd.start = base /\ rd.size = header.pages * PageSize
    BY <1>21 DEF WalkSeen, SeenImage
  <2>3. PICK m \in ModulePages : m = e + count
    BY <2>1 DEF AtModule
  <2>4. m \in Pages /\ m \in Nat
    BY ModulesArePages
  <2>5. base = m * PageSize
    BY <2>1, <2>3, ModuleHere DEF AtModule
  <2>6. BodyAt(base) = mem[m].body /\ Aligned(rd.start)
    BY <2>2, <2>4, <2>5, CellsOf, Multiple
  <2>7. ModuleHash(header) = ModuleHashAt(m)
    BY <1>21, <2>2, <2>5, <2>6, ImageRead
  <2> QED BY <2>1, <2>2, <2>3, <2>4, <2>5, <2>6, <2>7
<1>22. ASSUME db' = db
       PROVE  /\ \A m : UnknownModule(m)' = UnknownModule(m)
              /\ \A n : UnknownSeen(n)' = UnknownSeen(n)
  BY <1>0, <1>22 DEF UnknownSeen, UnknownModule, Accessible, BodyAt
<1>23. CASE CollectModule
  <2>1. /\ pc = "image" /\ ReadDone /\ job.kind = "collect"
        /\ ExcludeHeaps(base, rd.size) /\ NextPage
        /\ hashes' = hashes \cup ({ModuleHash(header)} \ db)
        /\ UNCHANGED <<address, mbi, job, written, db>>
    BY <1>23 DEF CollectModule
  <2>2. PICK e \in 0 .. NumPages, m \in ModulePages :
          /\ AtModule(e) /\ m = e + count /\ base = m * PageSize /\ ModulesSeen(m)
          /\ m \in Nat /\ rd.size = HeaderOf[mem[m].body].pages * PageSize
          /\ ModuleHash(header) = ModuleHashAt(m)
    BY <1>21, <2>1
  <2>3. HeapsLeft(m + 1)'
    <3>1. HeapsLeft(m)
      BY <2>2 DEF ModulesSeen
    <3> QED BY <2>1, <2>2, <3>1, LeftBehind
  <2>4. InRegion(e)' /\ e + count' = m + 1
    BY <2>1, <2>2, NextInRegion DEF AtModule
  <2>5. \A k \in Seen(m + 1)' : ModuleHashAt(k)' \in Collecting'
    <3> SUFFICES ASSUME NEW k \in Seen(m + 1) PROVE ModuleHashAt(k) \in Collecting'
      BY <1>0
    <3>1. Seen(m + 1) = Seen(m) \cup {m}
      BY SeenMore
    <3>2. Collecting \subseteq Collecting' /\ ModuleHashAt(m) \in Collecting'
      BY <2>1, <2>2 DEF Collecting
    <3>3. \A j \in Seen(m) : ModuleHashAt(j) \in Collecting
      BY <2>1, <2>2 DEF ModulesSeen
    <3> QED BY <3>1, <3>2, <3>3
  <2>6. ModulesSeen(m + 1)'
    BY <2>1, <2>3, <2>5 DEF ModulesSeen
  <2>7. SeenPages'
    BY <2>4, <2>6 DEF SeenPages
  <2> QED BY <1>4, <2>1, <2>7 DEF NextPage
<1>24. CASE DumpModule
  <2>1. /\ pc = "image" /\ ReadDone /\ job.kind = "dump" /\ ExcludeHeaps(base, rd.size)
        /\ UNCHANGED <<address, mbi, job, hashes, db>>
        /\ IF ModuleHash(header) \in db THEN NextPage /\ UNCHANGED written
           ELSE \/ /\ gens' = Generated(base, GenHeader, NameIn(modules, base), "pages")
                   /\ pc' = "generate" /\ UNCHANGED <<base, count, written>>
                \/ /\ written' = Append(written, File(base, header.wide, NameIn(modules, base)))
                   /\ NextPage
    BY <1>24 DEF DumpModule
  <2>2. PICK e \in 0 .. NumPages, m \in ModulePages :
          /\ AtModule(e) /\ m = e + count /\ base = m * PageSize /\ ModulesSeen(m)
          /\ m \in Nat /\ rd.size = HeaderOf[mem[m].body].pages * PageSize
          /\ ModuleHash(header) = ModuleHashAt(m)
    BY <1>21, <2>1
  <2>3. HeapsLeft(m + 1)'
    <3>1. HeapsLeft(m)
      BY <2>2 DEF ModulesSeen
    <3> QED BY <2>1, <2>2, <3>1, LeftBehind
  <2>4. /\ WrittenPages = UnknownSeen(m)
        /\ UnknownModule(m) <=> ModuleHash(header) \notin db
        /\ UnknownSeen(m + 1) = IF UnknownModule(m) THEN UnknownSeen(m) \cup {m} ELSE UnknownSeen(m)
    BY <2>1, <2>2, SeenMore DEF ModulesSeen
  <2>5. ASSUME NextPage, WrittenPages' = UnknownSeen(m + 1) PROVE Goal
    <3>1. InRegion(e)' /\ e + count' = m + 1
      BY <2>1, <2>2, <2>5, NextInRegion DEF AtModule
    <3>2. ModulesSeen(m + 1)'
      BY <1>22, <2>1, <2>3, <2>5 DEF ModulesSeen
    <3>3. SeenPages'
      BY <3>1, <3>2 DEF SeenPages
    <3> QED BY <1>4, <2>5, <3>3 DEF NextPage
  <2>6. CASE ModuleHash(header) \in db
    <3>1. WrittenPages' = WrittenPages
      BY <2>1, <2>6 DEF WrittenPages, PageOf
    <3> QED BY <2>1, <2>4, <2>5, <2>6, <3>1
  <2>7. CASE /\ ModuleHash(header) \notin db
             /\ gens' = Generated(base, GenHeader, NameIn(modules, base), "pages")
             /\ pc' = "generate" /\ UNCHANGED <<base, count, written>>
    <3>1. WrittenPages' = WrittenPages
      BY <2>7 DEF WrittenPages, PageOf
    <3>2. MbiInfo(address)' = MbiInfo(address)
      BY <2>1 DEF MbiInfo, Region, LastPage, SamePages, InSpace, PageOf
    <3>3. InRegion(e)'
      BY <1>0, <2>1, <2>2, <2>7, <3>2 DEF AtModule, InRegion, At
    <3>4. AtModule(e)'
      <4>1. MorePages' /\ m \in ModulePages'
        BY <1>0, <2>1, <2>2, <2>7 DEF AtModule, MorePages, Usable
      <4> QED BY <2>2, <2>7, <3>3, <4>1 DEF AtModule
    <3>5. gens'.at = base'
      BY <2>7 DEF Generated
    <3>6. UnknownModule(m)' /\ WrittenPages' \cup {m} = UnknownSeen(m + 1)'
      BY <1>22, <2>1, <2>4, <2>7, <3>1
    <3>7. m = e + count'
      BY <2>2, <2>7
    <3>8. SeenGenerated'
      BY <2>3, <3>4, <3>5, <3>6, <3>7 DEF SeenGenerated
    <3> QED BY <1>6, <2>7, <3>8
  <2>8. CASE /\ ModuleHash(header) \notin db /\ NextPage
             /\ written' = Append(written, File(base, header.wide, NameIn(modules, base)))
    <3> DEFINE f == File(base, header.wide, NameIn(modules, base))
    <3>1. f.base = base
      BY DEF File
    <3>2. written' = Append(written, f)
      BY <2>8
    <3> HIDE DEF f
    <3>3. WrittenPages' = WrittenPages \cup {PageOf(base)}
      BY <3>1, <3>2, WrittenMore DEF JobsOK
    <3>4. PageOf(base) = m
      BY <2>2, PageOfStart
    <3> QED BY <2>4, <2>5, <2>8, <3>3, <3>4
  <2> QED BY <2>1, <2>6, <2>7, <2>8
<1>25. CASE BuildHeader
  BY <1>7, <1>25 DEF BuildHeader
<1>26. CASE DumpGenerated
  <2> DEFINE f == File(gens.at, Head(gens.wides), gens.name)
  <2>1. /\ pc = "generated" /\ written' = Append(written, f) /\ gens' = [gens EXCEPT !.wides = Tail(@)]
        /\ UNCHANGED <<address, mbi, job, heaps, hashes, db>>
        /\ IF Len(gens.wides) > 1 THEN pc' = "generate" /\ UNCHANGED <<base, count>>
           ELSE IF gens.back = "pages" THEN NextPage
           ELSE pc' = gens.back /\ UNCHANGED <<base, count>>
    BY <1>26 DEF DumpGenerated
  <2>2. f.base = gens.at
    BY DEF File
  <2> HIDE DEF f
  <2>3. gens'.back = gens.back /\ gens'.at = gens.at
    BY <2>1 DEF WalkOK
  <2>4. /\ WrittenPages' = WrittenPages \cup {PageOf(gens.at)}
        /\ \/ job.kind = "dump" /\ gens.back \in {"pages", "chunks"}
           \/ job.kind = "region" /\ gens.back = "end"
    BY <2>1, <2>2, WrittenMore DEF JobsOK
  <2>5. CASE gens.back # "pages"
    <3>1. pc' \in {"generate", "chunks", "end"}
      BY <2>1, <2>4, <2>5
    <3> QED BY <1>1, <2>3, <2>5, <3>1 DEF Generating
  <2>6. CASE gens.back = "pages"
    <3>1. PICK e \in 0 .. NumPages :
            LET m == e + count
            IN  /\ AtModule(e) /\ gens.at = base /\ UnknownModule(m) /\ HeapsLeft(m + 1)
                /\ WrittenPages \cup {m} = UnknownSeen(m + 1)
      BY <2>1, <2>4, <2>6 DEF WalkSeen, SeenGenerated, Generating
    <3>2. PICK m \in ModulePages : m = e + count
      BY <3>1 DEF AtModule
    <3>3. /\ gens.at = base /\ UnknownModule(m) /\ HeapsLeft(m + 1) /\ AtModule(e)
          /\ WrittenPages \cup {m} = UnknownSeen(m + 1)
      BY <3>1, <3>2
    <3>4. m \in Nat /\ base = m * PageSize
      BY <3>2, <3>3, ModuleHere DEF AtModule
    <3>5. PageOf(base) = m
      BY <3>4, PageOfStart
    <3>6. WrittenPages' \cup {m} = UnknownSeen(m + 1)' /\ WrittenPages' = UnknownSeen(m + 1)'
      BY <1>22, <2>1, <2>4, <3>3, <3>5
    <3>7. HeapsLeft(m + 1)' /\ UnknownModule(m)'
      <4>1. HeapsLeft(m + 1)'
        BY <1>0, <2>1, <3>3 DEF HeapsLeft, Addresses
      <4> QED BY <1>22, <2>1, <3>3, <4>1
    <3>8. CASE pc' = "generate" /\ UNCHANGED <<base, count>>
      <4>1. MbiInfo(address)' = MbiInfo(address)
        BY <2>1 DEF MbiInfo, Region, LastPage, SamePages, InSpace, PageOf
      <4>2. InRegion(e)'
        BY <1>0, <2>1, <3>3, <3>8, <4>1 DEF AtModule, InRegion, At
      <4>3. AtModule(e)'
        <5>1. MorePages' /\ m \in ModulePages'
          BY <1>0, <2>1, <3>3, <3>8 DEF AtModule, MorePages, Usable
        <5> QED BY <3>2, <3>8, <4>2, <5>1 DEF AtModule
      <4>4. gens'.at = base' /\ m = e + count'
        BY <2>3, <3>2, <3>3, <3>8
      <4>5. SeenGenerated'
        BY <3>6, <3>7, <4>3, <4>4 DEF SeenGenerated
      <4> QED BY <1>6, <3>8, <4>5
    <3>9. CASE NextPage
      <4>1. InRegion(e)' /\ e + count' = m + 1
        BY <2>1, <3>2, <3>3, <3>9, <3>4, NextInRegion DEF AtModule
      <4>2. ModulesSeen(m + 1)'
        BY <2>1, <2>4, <2>6, <3>6, <3>7 DEF ModulesSeen
      <4>3. SeenPages'
        BY <4>1, <4>2 DEF SeenPages
      <4> QED BY <1>4, <3>9, <4>3 DEF NextPage
    <3> QED BY <2>1, <2>6, <3>8, <3>9
  <2> QED BY <2>5, <2>6
<1> HIDE DEF streamVars, envVars, listVars, walkVars, chunkVars, hashVars, Goal
<1> QED
  BY <1>8, <1>9, <1>10, <1>11, <1>12, <1>13, <1>14, <1>15, <1>16, <1>19, <1>20, <1>23, <1>24, <1>25,
     <1>26 DEF Next, Tool, Goal
-----------------------------------------------------------------------------
(* The walk over the loose regions.                                        *)

\* There are finitely many.
LEMMA LooseFinite ==
  /\ IsFiniteSet(LooseAll) /\ IsFiniteSet(LoosePages)
  /\ Cardinality(LooseAll) \in Nat /\ Cardinality(LoosePages) \in Nat
  /\ Cardinality(LooseAll) <= Cardinality(LoosePages)
  /\ \A a : /\ IsFiniteSet(LooseUpTo(a)) /\ Cardinality(LooseUpTo(a)) \in Nat
            /\ Cardinality(LooseUpTo(a)) <= Cardinality(LooseAll)
<1>1. IsFiniteSet(Pages)
  BY FS_Interval, StreamAssumption DEF Pages
<1>2. LoosePages \subseteq Pages
  BY DEF LoosePages, RegionStarts
<1>3. IsFiniteSet(LoosePages)
  BY <1>1, <1>2, FS_Subset
<1>4. LooseAll \subseteq LoosePages
  BY DEF LooseAll
<1>5. IsFiniteSet(LooseAll) /\ Cardinality(LooseAll) <= Cardinality(LoosePages)
  BY <1>3, <1>4, FS_Subset
<1>6. ASSUME NEW a PROVE IsFiniteSet(LooseUpTo(a)) /\ Cardinality(LooseUpTo(a)) <= Cardinality(LooseAll)
  <2>1. LooseUpTo(a) \subseteq LooseAll
    BY DEF LooseUpTo
  <2> QED BY <1>5, <2>1, FS_Subset
<1> QED BY <1>3, <1>5, <1>6, FS_CardinalityType

\* A loose region, from its address.
LEMMA LooseIs ==
  ASSUME NEW h \in Addresses(LooseAll)
  PROVE  \E p \in LooseAll :
           /\ h = PageSize * p /\ h = p * PageSize /\ h \in Int /\ PageOf(h) = p /\ p \in Pages /\ p \in Nat
           /\ Accessible(h) /\ BodyAt(h) = mem[p].body /\ mem[p].prot = "rx" /\ h > 0
<1>1. PICK p \in LooseAll : h = PageSize * p
  BY DEF Addresses
<1>2. p \in Pages /\ p \in Nat /\ mem[p].prot = "rx" /\ p > 0
  <2>1. p \in Pages
    BY LooseIsUncovered
  <2>2. p \in Nat
    BY <2>1, ModulesArePages
  <2>3. p # 0 /\ mem[p].prot = "rx"
    BY DEF LooseAll, LoosePages
  <2> QED BY <2>1, <2>2, <2>3
<1>3. h = p * PageSize /\ h \in Int /\ PageOf(h) = p
  BY <1>1, <1>2, PageOfStart
<1>4. Accessible(h) /\ BodyAt(h) = mem[p].body
  BY <1>2, <1>3, CellsOf
<1>5. h > 0
  BY <1>2, <1>3, StreamAssumption
<1> QED BY <1>1, <1>2, <1>3, <1>4, <1>5

\* One loose region more.
LEMMA LooseMore ==
  ASSUME NEW p \in LooseAll
  PROVE  LET h == PageSize * p
         IN  /\ LooseUpTo(h) = LooseUpTo(h - 1) \cup {p}
             /\ Cardinality(LooseUpTo(h)) = Cardinality(LooseUpTo(h - 1)) + 1
             /\ DumpedUpTo(h) = IF UnknownChunk(p) THEN DumpedUpTo(h - 1) \cup {p} ELSE DumpedUpTo(h - 1)
<1> DEFINE h == PageSize * p
<1>1. \A q \in LooseAll : q \in Nat
  BY LooseIsUncovered, ModulesArePages
<1>2. ASSUME NEW q \in LooseAll PROVE PageSize * q <= h <=> PageSize * q <= h - 1 \/ q = p
  <2>1. PageSize * q = q * PageSize /\ q * PageSize \in Int /\ h = p * PageSize /\ h \in Int
    BY <1>1, PageOfStart
  <2>2. PageSize * q <= h <=> q <= p
    BY <1>1, <2>1, PageOrder
  <2>3. PageSize * q < h <=> q < p
    BY <1>1, <2>1, PageOrder
  <2> HIDE DEF h
  <2>4. PageSize * q \in Int
    BY <2>1
  <2>5. PageSize * q < h <=> PageSize * q <= h - 1
    BY <2>1, <2>4
  <2>6. q <= p <=> q < p \/ q = p
    BY <1>1
  <2> QED BY <2>2, <2>3, <2>5, <2>6
<1>3. h \in Int /\ ~(h <= h - 1)
  <2>1. h \in Int
    BY <1>1, PageOfStart
  <2> HIDE DEF h
  <2> QED BY <2>1
<1>4. LooseUpTo(h) = LooseUpTo(h - 1) \cup {p} /\ p \notin LooseUpTo(h - 1)
  <2> HIDE DEF h
  <2>1. PageSize * p = h
    BY DEF h
  <2> QED BY <1>2, <1>3, <2>1 DEF LooseUpTo
<1> HIDE DEF h
<1>5. Cardinality(LooseUpTo(h)) = Cardinality(LooseUpTo(h - 1)) + 1
  BY <1>4, LooseFinite, FS_AddElement
<1>6. DumpedUpTo(h) = IF UnknownChunk(p) THEN DumpedUpTo(h - 1) \cup {p} ELSE DumpedUpTo(h - 1)
  BY <1>4 DEF DumpedUpTo
<1> QED BY <1>4, <1>5, <1>6 DEF h

\* The next region in hand is the next loose one.
LEMMA LooseNext ==
  ASSUME heaps = Addresses(LooseAll), heap \in Int, NEW h \in MoreHeaps, \A y \in MoreHeaps : h <= y
  PROVE  LooseUpTo(h - 1) = LooseUpTo(heap) /\ DumpedUpTo(h - 1) = DumpedUpTo(heap)
<1>1. h \in heaps /\ h > heap /\ h \in Int
  BY LooseIs DEF MoreHeaps
<1>2. ASSUME NEW q \in LooseAll PROVE PageSize * q <= h - 1 <=> PageSize * q <= heap
  <2> DEFINE a == PageSize * q
  <2>1. a \in heaps /\ a \in Int
    <3>1. a \in heaps
      BY DEF Addresses
    <3> QED BY <3>1, LooseIs
  <2> HIDE DEF a
  <2>2. a > heap => h <= a
    BY <2>1 DEF MoreHeaps
  <2>3. a <= h - 1 <=> a <= heap
    BY <1>1, <2>1, <2>2
  <2> QED BY <2>3 DEF a
<1>3. LooseUpTo(h - 1) = LooseUpTo(heap)
  BY <1>2 DEF LooseUpTo
<1> QED BY <1>3 DEF DumpedUpTo

\* Before the first and behind the last.
LEMMA LooseEnds ==
  /\ LooseUpTo(0) = {} /\ Cardinality(LooseUpTo(0)) = 0
  /\ heaps = Addresses(LooseAll) /\ MoreHeaps = {} /\ heap \in Int =>
       LooseUpTo(heap) = LooseAll /\ DumpedUpTo(heap) = Expected
<1>1. ASSUME NEW p \in LooseAll PROVE PageSize * p > 0 /\ PageSize * p \in Int /\ PageSize * p \in Addresses(LooseAll)
  <2>1. PageSize * p \in Addresses(LooseAll)
    BY DEF Addresses
  <2>2. PICK q \in LooseAll : PageSize * p > 0 /\ PageSize * p \in Int
    BY <2>1, LooseIs
  <2> QED BY <2>1, <2>2
<1>2. LooseUpTo(0) = {}
  <2> SUFFICES ASSUME NEW p \in LooseAll, PageSize * p <= 0 PROVE FALSE
    BY DEF LooseUpTo
  <2> DEFINE a == PageSize * p
  <2>1. a > 0 /\ a \in Int /\ a <= 0
    BY <1>1
  <2> HIDE DEF a
  <2> QED BY <2>1
<1>3. ASSUME heaps = Addresses(LooseAll), MoreHeaps = {}, heap \in Int
      PROVE  LooseUpTo(heap) = LooseAll
  <2> SUFFICES ASSUME NEW p \in LooseAll PROVE PageSize * p <= heap
    BY DEF LooseUpTo
  <2> DEFINE a == PageSize * p
  <2>1. a \in Int /\ a \in heaps
    BY <1>1, <1>3
  <2> HIDE DEF a
  <2>2. ~(a > heap)
    BY <1>3, <2>1 DEF MoreHeaps
  <2>3. a <= heap
    BY <1>3, <2>1, <2>2
  <2> QED BY <2>3 DEF a
<1>4. LooseUpTo(heap) = LooseAll => DumpedUpTo(heap) = Expected
  BY DEF DumpedUpTo, Expected, LooseAll
<1> QED BY <1>2, <1>3, <1>4, FS_EmptySet

\* The chunks are looked at in order, each once.
LEMMA ChunksStep ==
  ASSUME CellsAreNoMark, WalkOK, StreamInv, JobsOK, ListsOK, Aligned(rd.start) => ExactRead, BodiesOK,
         count \in Nat, newChunks \in Nat, WalkSeen, ChunksSeen,
         [Next]_vars, mem' = mem, options' = options
  PROVE  ChunksSeen'
<1> USE DEF streamVars, envVars, listVars, walkVars, chunkVars, hashVars
<1> DEFINE Goal == ChunksSeen'
           Walking == {"heaps", "walk", "pages", "image"}
<1>0. /\ ModulePages' = ModulePages /\ LooseAll' = LooseAll /\ BareHeaders' = BareHeaders
      /\ \A a : LooseUpTo(a)' = LooseUpTo(a)
      /\ \A m : ModuleHashAt(m)' = ModuleHashAt(m)
      /\ \A a : BodyAt(a)' = BodyAt(a) /\ EstimateSectionSize(a)' = EstimateSectionSize(a)
      /\ \A p : CalledFrom(p)' = CalledFrom(p)
      /\ Addresses(LooseAll)' = Addresses(LooseAll)
  BY SameMemory DEF Addresses
\* Where chunks do not matter.
<1>1. ASSUME pc' \notin Walking \cup {"chunks", "chunk", "end", "ready", "generate", "generated"} PROVE Goal
  BY <1>1 DEF ChunksSeen, NoChunks, ChunkList, ChunkNext, ChunkInHand, ChunkDumped, ChunksOver, Generating
<1>2. ASSUME job'.kind # "dump", pc' \in {"end", "ready"} PROVE Goal
  BY <1>2 DEF ChunksSeen, NoChunks, ChunkList, ChunkNext, ChunkInHand, ChunkDumped, ChunksOver, Generating
<1>3. ASSUME pc' \in Walking \/ Generating("pages")', newChunks' = 0, heap' = 0 PROVE Goal
  BY <1>3 DEF ChunksSeen, NoChunks, ChunkList, ChunkNext, ChunkInHand, ChunkDumped, ChunksOver, Generating
<1>4. ASSUME pc' = "chunks", ChunksFound', ChunkNext' PROVE Goal
  BY <1>4 DEF ChunksSeen, NoChunks, ChunkList, ChunkInHand, ChunkDumped, ChunksOver, Generating
<1>5. ASSUME pc' = "chunk", ChunksFound', ChunkInHand' PROVE Goal
  BY <1>5 DEF ChunksSeen, NoChunks, ChunkList, ChunkNext, ChunkDumped, ChunksOver, Generating
<1>6. ASSUME pc' \in {"generate", "generated"}, Generating("chunks")', ChunksFound', ChunkDumped' PROVE Goal
  BY <1>6 DEF ChunksSeen, NoChunks, ChunkList, ChunkNext, ChunkInHand, ChunksOver, Generating
<1>7. ASSUME pc' \in {"generate", "generated"}, ~Generating("chunks")', ~Generating("pages")' PROVE Goal
  BY <1>7 DEF ChunksSeen, NoChunks, ChunkList, ChunkNext, ChunkInHand, ChunkDumped, ChunksOver
<1>8. ASSUME pc' \in {"end", "ready"}, ChunksOver' PROVE Goal
  BY <1>8 DEF ChunksSeen, NoChunks, ChunkList, ChunkNext, ChunkInHand, ChunkDumped, Generating
\* What is known of a region stays so.
<1>9. ASSUME db' = db, exports' = exports
      PROVE  /\ \A m : UnknownModule(m)' = UnknownModule(m) /\ UnknownChunk(m)' = UnknownChunk(m)
             /\ \A a : DumpedUpTo(a)' = DumpedUpTo(a)
             /\ Expected' = Expected
  <2>1. \A m : UnknownModule(m)' = UnknownModule(m)
    BY <1>9 DEF UnknownModule, Accessible, BodyAt
  <2>2. \A m : UnknownChunk(m)' = UnknownChunk(m)
    BY <1>0, <1>9 DEF UnknownChunk, ImportsOf
  <2>3. LoosePages' = LoosePages
    BY SameMemory
  <2> QED BY <1>0, <2>1, <2>2, <2>3 DEF DumpedUpTo, Expected
<1>10. ASSUME UNCHANGED <<job, heaps, heap, newChunks, db>>, Collecting \subseteq Collecting', ChunksFound
       PROVE  ChunksFound'
  BY <1>0, <1>10 DEF ChunksFound
<1>11. UNCHANGED hashes /\ UNCHANGED db => Collecting' = Collecting
  BY DEF Collecting
\* A step that leaves the chunks alone.
<1>12. ASSUME UNCHANGED <<job, heaps, heap, newChunks, hashes, db, gens, exports, written>>,
              (rd'.start = rd.start /\ rd'.size = rd.size) \/ pc' # "chunk",
              \/ pc' = pc
              \/ pc = "generate" /\ pc' = "generated"
              \/ pc = "end" /\ pc' = "ready"
       PROVE  Goal
  <2>1. WrittenPages' = WrittenPages
    BY <1>12 DEF WrittenPages, PageOf
  <2>2. ChunksFound => ChunksFound'
    BY <1>10, <1>11, <1>12
  <2>3. \A b : Generating(b)' <=> Generating(b)
    BY <1>12 DEF Generating
  <2>4. NoChunks' /\ ChunkList'
    BY <1>12, <2>2, <2>3 DEF ChunksSeen, NoChunks, ChunkList
  <2>5. ChunkNext' /\ ChunkDumped'
    BY <1>9, <1>12, <2>1, <2>3, Zenon DEF ChunksSeen, ChunkNext, ChunkDumped, PageOf
  <2>6. ChunkInHand'
    BY <1>0, <1>9, <1>12, <2>1 DEF ChunksSeen, ChunkInHand, GenHeader
  <2>7. ChunksOver'
    BY <1>0, <1>9, <1>12, <2>1 DEF ChunksSeen, ChunksOver
  <2> QED BY <2>4, <2>5, <2>6, <2>7 DEF ChunksSeen
<1>13. CASE UNCHANGED vars \/ Terminated \/ Flip
  BY <1>12, <1>13 DEF vars, Terminated, Flip
<1>14. CASE Read
  <2>1. rd'.start = rd.start /\ rd'.size = rd.size
    BY <1>14, ReadKeeps DEF Read
  <2> QED BY <1>12, <1>14, <2>1 DEF Read
<1>15. CASE BuildHeader
  BY <1>12, <1>15 DEF BuildHeader
<1>16. CASE \/ StartJob \/ BeginList \/ (\E b \in todo : LoadExports(b)) \/ LoadName
            \/ (\E a \in found.list.addresses : MergeExport(a)) \/ MergeDone \/ ListDone
  <2>1. pc' \in {"list", "begin", "exports", "names", "merge"}
    BY <1>16 DEF StartJob, BeginList, LoadExports, LoadName, MergeExport, MergeDone, ListDone
  <2> QED BY <1>1, <2>1
<1>17. CASE BeginWalk
  BY <1>3, <1>17 DEF BeginWalk
<1>18. CASE FindHeaps \/ QueryNext \/ Skip \/ FoundHeader \/ CollectModule \/ DumpModule
  <2>1. pc \in Walking /\ UNCHANGED <<heap, newChunks>>
    BY <1>18 DEF FindHeaps, QueryNext, Skip, FoundHeader, CollectModule, DumpModule
  <2>2. pc' \in Walking \/ Generating("pages")'
    BY <1>18 DEF FindHeaps, QueryNext, Skip, FoundHeader, CollectModule, DumpModule, NextPage,
                 Generated, Generating
  <2> QED BY <1>3, <2>1, <2>2 DEF ChunksSeen, NoChunks
<1>19. CASE BeginRegion \/ DumpRegion
  <2>1. job' = job /\ job.kind = "region"
    BY <1>19 DEF BeginRegion, DumpRegion, JobsOK
  <2>2. \/ pc' = "region" \/ pc' = "end"
        \/ pc' = "generate" /\ gens'.back = "end"
    BY <1>19 DEF BeginRegion, DumpRegion, Generated
  <2> QED BY <1>1, <1>2, <1>7, <2>1, <2>2 DEF Generating
<1>20. CASE EndJob
  <2>1. CASE job.kind = "dump"
    BY <1>12, <1>20, <2>1 DEF EndJob
  <2>2. CASE job.kind # "dump"
    BY <1>2, <1>20, <2>2 DEF EndJob
  <2> QED BY <2>1, <2>2
\* The walk over the regions is over.
<1>21. CASE NextRegion
  <2>1. PICK e \in 0 .. NumPages : InRegion(e) /\ ModulesSeen(e + count)
    BY <1>21 DEF NextRegion, WalkSeen, SeenPages
  <2>2. /\ pc = "pages" /\ ~MorePages
        /\ IF LastRegion(mbi) THEN pc' = "chunks"
           ELSE pc' = "walk"
        /\ UNCHANGED <<job, heaps, heap, newChunks, hashes, db, written>>
        /\ job.kind \in {"collect", "dump"} /\ newChunks = 0 /\ heap = 0
    BY <1>21 DEF NextRegion, JobsOK, ChunksSeen, NoChunks
  <2>3. CASE pc' = "walk"
    BY <1>3, <2>2, <2>3
  <2>4. CASE pc' = "chunks"
    <3>1. LastRegion(mbi)
      BY <2>2, <2>4
    <3>2. e \notin Pages
      <4> SUFFICES ASSUME e \in Pages PROVE FALSE
        OBVIOUS
      <4>1. /\ mbi.end = (LastPage(e) + 1) * PageSize /\ e <= LastPage(e) /\ LastPage(e) \in Nat
            /\ e \in Nat /\ e * PageSize \in Nat /\ At(address, e) /\ address \in Nat
        BY <2>1, RegionHere
      <4>2. address <= e * PageSize + 1
        BY <4>1, StreamAssumption DEF At
      <4>3. e < LastPage(e) + 1 /\ LastPage(e) + 1 \in Int /\ e \in Int
        BY <4>1
      <4>4. e * PageSize + PageSize <= mbi.end /\ mbi.end \in Int
        BY <4>1, <4>3, PageOrder, StreamAssumption
      <4>5. PageSize \in Nat \ {0} /\ mbi.end + 1 <= address
        BY <3>1, StreamAssumption DEF LastRegion
      <4> QED BY <4>1, <4>2, <4>4, <4>5
    <3>3. e = NumPages /\ mbi = NoRegion /\ e \in Nat
      BY <2>1, <3>2, RegionHere
    <3>4. count = 0 /\ e + count = NumPages
      BY <2>1, <3>3 DEF InRegion, NoRegion
    <3>5. ModulesSeen(NumPages)
      BY <2>1, <3>4
    <3>6. Seen(NumPages) = ModulePages
      <4>1. \A m \in ModulePages : m \in Nat /\ m < NumPages
        BY ModulesArePages, CellsOf
      <4> QED BY <4>1 DEF Seen
    <3>7. /\ heaps \subseteq Addresses(LooseAll)
          /\ job.kind = "dump" \/ BareHeaders = {} => heaps = Addresses(LooseAll)
      BY <3>5, LooseIsUncovered DEF ModulesSeen, HeapsLeft
    <3>8. ChunksFound
      <4>1. newChunks <= Cardinality(LooseUpTo(heap)) /\ newChunks <= ChunkLimit + 1
        BY <2>2, LooseEnds, ScanAssumption
      <4>2. LooseUpTo(heap) = {}
        BY <2>2, LooseEnds
      <4> QED BY <2>2, <3>5, <3>6, <3>7, <4>1, <4>2 DEF ChunksFound, ModulesSeen
    <3>9. ChunksFound'
      BY <1>10, <1>11, <2>2, <3>8
    <3>10. WrittenPages' = WrittenPages
      BY <2>2 DEF WrittenPages, PageOf
    <3>11. job.kind = "dump" => WrittenPages = DumpedUpTo(0)
      BY <3>5, <3>6, LooseEnds DEF ModulesSeen, UnknownSeen, DumpedUpTo
    <3>12. exports' = exports
      BY <1>21 DEF NextRegion
    <3>13. ChunkNext'
      BY <1>9, <2>2, <3>10, <3>11, <3>12 DEF ChunkNext
    <3> QED BY <1>4, <2>4, <3>9, <3>13
  <2> QED BY <2>2, <2>3, <2>4
<1>22. CASE HeapsDone
  <2>1. /\ pc = "chunks" /\ MoreHeaps = {} /\ pc' = "end"
        /\ UNCHANGED <<job, heaps, heap, newChunks, hashes, db, written, exports>>
    BY <1>22 DEF HeapsDone
  <2>2. CASE job.kind # "dump"
    BY <1>2, <2>1, <2>2
  <2>3. CASE job.kind = "dump"
    <3>1. heaps = Addresses(LooseAll) /\ newChunks <= Cardinality(LooseUpTo(heap)) /\ WrittenPages = DumpedUpTo(heap)
      BY <2>1, <2>3 DEF ChunksSeen, ChunkList, ChunksFound, ChunkNext
    <3>2. LooseUpTo(heap) = LooseAll /\ DumpedUpTo(heap) = Expected
      BY <2>1, <3>1, LooseEnds DEF WalkOK
    <3>3. WrittenPages' = WrittenPages
      BY <2>1 DEF WrittenPages, PageOf
    <3>4. ChunksOver'
      BY <1>0, <1>9, <2>1, <3>1, <3>2, <3>3 DEF ChunksOver
    <3> QED BY <1>8, <2>1, <3>4
  <2> QED BY <2>2, <2>3
<1>23. CASE \E h \in heaps : LookAtHeap(h)
  <2>1. PICK h \in heaps : LookAtHeap(h)
    BY <1>23
  <2> DEFINE hash == HeaderHash(h)
             known == \/ hash = <<"none">> \/ hash \in db
                      \/ job.kind = "collect" /\ hash \in hashes
  <2>2. /\ pc = "chunks" /\ h \in MoreHeaps /\ \A y \in MoreHeaps : h <= y
        /\ heap' = h
        /\ newChunks' = IF known THEN newChunks ELSE newChunks + 1
        /\ IF known THEN UNCHANGED <<pc, hashes>>
           ELSE IF TooManyChunks THEN pc' = "end" /\ UNCHANGED hashes
           ELSE /\ pc' = "chunk" /\ ReadGenerated(h, GenHeader, 1)
                /\ hashes' = IF job.kind = "collect" THEN hashes \cup {hash} ELSE hashes
        /\ UNCHANGED <<job, heaps, db, written, exports>>
    BY <2>1 DEF LookAtHeap
  <2>3. ChunksFound /\ job.kind \in {"collect", "dump"}
    BY <2>2 DEF ChunksSeen, ChunkList, JobsOK
  <2>4. PICK p \in LooseAll :
           /\ h = PageSize * p /\ h \in Int /\ PageOf(h) = p /\ p \in Pages
           /\ Accessible(h) /\ BodyAt(h) = mem[p].body /\ h > 0
    BY <2>3, LooseIs DEF ChunksFound
  <2>5. hash = <<"crc", mem[p].body>> /\ hash # <<"none">>
    <3>1. hash = <<"crc", mem[p].body>>
      BY <2>4 DEF HeaderHash
    <3>2. Len(<<"crc", mem[p].body>>) = 2 /\ Len(<<"none">>) = 1
      OBVIOUS
    <3> QED BY <3>1, <3>2
  <2>6. /\ LooseUpTo(h) = LooseUpTo(h - 1) \cup {p}
        /\ Cardinality(LooseUpTo(h)) = Cardinality(LooseUpTo(h - 1)) + 1
        /\ DumpedUpTo(h) = IF UnknownChunk(p) THEN DumpedUpTo(h - 1) \cup {p} ELSE DumpedUpTo(h - 1)
    BY <2>4, LooseMore
  <2>7. heaps = Addresses(LooseAll) =>
           LooseUpTo(h - 1) = LooseUpTo(heap) /\ DumpedUpTo(h - 1) = DumpedUpTo(heap)
    BY <2>2, LooseNext DEF WalkOK
  <2>8. Collecting \subseteq Collecting' /\ (job.kind = "collect" /\ pc' # "end" => hash \in Collecting')
    BY <2>2, <2>5 DEF Collecting
  <2> HIDE DEF hash
  <2>9. ASSUME newChunks' <= ChunkLimit + 1 \/ (newChunks <= ChunkLimit + 1 /\ newChunks' = newChunks),
               pc' # "end"
        PROVE  ChunksFound'
    <3>1. ASSUME job.kind = "dump" \/ BareHeaders = {}
          PROVE  /\ heaps = Addresses(LooseAll)
                 /\ newChunks' <= Cardinality(LooseUpTo(h)) /\ newChunks' <= ChunkLimit + 1
      <4>1. heaps = Addresses(LooseAll) /\ newChunks <= Cardinality(LooseUpTo(heap))
        BY <2>3, <3>1 DEF ChunksFound
      <4>2. newChunks' = newChunks \/ newChunks' = newChunks + 1
        BY <2>2
      <4>3. Cardinality(LooseUpTo(heap)) \in Nat /\ Cardinality(LooseUpTo(h)) = Cardinality(LooseUpTo(heap)) + 1
        BY <2>6, <2>7, <4>1, LooseFinite
      <4> QED BY <2>9, <4>1, <4>2, <4>3
    <3>2. ASSUME job.kind = "collect"
          PROVE  /\ \A m \in ModulePages : ModuleHashAt(m) \in Collecting'
                 /\ BareHeaders = {} => \A q \in LooseUpTo(h) : <<"crc", mem[q].body>> \in Collecting'
      BY <2>3, <2>5, <2>6, <2>7, <2>8, <2>9, <3>2 DEF ChunksFound
    <3> QED BY <1>0, <2>2, <2>3, <3>1, <3>2 DEF ChunksFound
  <2>10. WrittenPages' = WrittenPages
    BY <2>2 DEF WrittenPages, PageOf
  <2>11. CASE known
    <3>1. pc' = "chunks" /\ newChunks' = newChunks
      BY <2>2, <2>11
    <3>2. ChunksFound'
      <4>1. CASE newChunks <= ChunkLimit + 1
        BY <2>9, <3>1, <4>1
      <4>2. CASE ~(newChunks <= ChunkLimit + 1)
        <5>1. ~(job.kind = "dump" \/ BareHeaders = {})
          BY <2>3, <4>2 DEF ChunksFound
        <5> QED BY <1>0, <2>2, <2>3, <2>8, <3>1, <5>1 DEF ChunksFound
      <4> QED BY <4>1, <4>2
    <3>3. ASSUME job.kind = "dump" PROVE WrittenPages = DumpedUpTo(h)
      <4>1. ~UnknownChunk(p)
        BY <2>5, <2>11, <3>3 DEF UnknownChunk
      <4>2. heaps = Addresses(LooseAll) /\ WrittenPages = DumpedUpTo(heap)
        BY <2>2, <2>3, <3>3 DEF ChunksFound, ChunksSeen, ChunkNext
      <4> QED BY <2>6, <2>7, <4>1, <4>2
    <3>4. ChunkNext'
      BY <1>9, <2>2, <2>10, <3>3 DEF ChunkNext
    <3> QED BY <1>4, <3>1, <3>2, <3>4
  <2>12. CASE ~known /\ TooManyChunks
    <3>1. pc' = "end" /\ newChunks' = newChunks + 1
      BY <2>2, <2>12
    <3>2. ASSUME job.kind = "dump" PROVE newChunks' > ChunkLimit + 1 /\ newChunks' <= Cardinality(LooseAll)
      <4>1. heaps = Addresses(LooseAll) /\ newChunks <= Cardinality(LooseUpTo(heap))
        BY <2>3, <3>2 DEF ChunksFound
      <4>2. /\ Cardinality(LooseUpTo(heap)) \in Nat /\ Cardinality(LooseUpTo(h)) = Cardinality(LooseUpTo(heap)) + 1
            /\ Cardinality(LooseUpTo(h)) <= Cardinality(LooseAll) /\ Cardinality(LooseAll) \in Nat
        BY <2>6, <2>7, <4>1, LooseFinite
      <4>3. newChunks > ChunkLimit /\ ChunkLimit \in Nat
        BY <2>12, ScanAssumption DEF TooManyChunks
      <4> QED BY <3>1, <4>1, <4>2, <4>3
    <3>3. ChunksOver'
      BY <1>0, <2>2, <3>1, <3>2 DEF ChunksOver
    <3> QED BY <1>8, <3>1, <3>3
  <2>13. CASE ~known /\ ~TooManyChunks
    <3>1. pc' = "chunk" /\ newChunks' = newChunks + 1 /\ ReadGenerated(h, GenHeader, 1)
      BY <2>2, <2>13
    <3>2. newChunks' <= ChunkLimit + 1
      BY <2>13, <3>1, ScanAssumption DEF TooManyChunks
    <3>3. ChunksFound'
      BY <2>9, <3>1, <3>2
    <3>4. rd'.start = h - GenHeader /\ rd'.size = GenHeader + EstimateSectionSize(h)
      <4>1. GenHeader \in Int /\ ~(GenHeader < GenHeader) /\ EstimateSectionSize(h) \in Int
        BY <2>4, RegionFacts, StreamAssumption DEF GenHeader, EstimateSectionSize
      <4>2. ImageEnd(h, GenHeader, 1) = h + EstimateSectionSize(h)
        BY <4>1 DEF ImageEnd
      <4>3. GenHeader + ImageEnd(h, GenHeader, 1) - h = GenHeader + EstimateSectionSize(h)
        BY <2>4, <4>1, <4>2
      <4> QED BY <3>1, <4>3 DEF ReadGenerated, NewRead, NoRead
    <3>5. ASSUME job.kind = "dump" PROVE WrittenPages = DumpedUpTo(h - 1)
      <4>1. heaps = Addresses(LooseAll) /\ WrittenPages = DumpedUpTo(heap)
        BY <2>2, <2>3, <3>5 DEF ChunksFound, ChunksSeen, ChunkNext
      <4> QED BY <2>7, <4>1
    <3>6. <<"crc", BodyAt(h)>> \notin db
      BY <2>4, <2>5, <2>13
    <3>7. ChunkInHand'
      BY <1>0, <1>9, <2>1, <2>2, <2>10, <3>4, <3>5, <3>6 DEF ChunkInHand, GenHeader
    <3> QED BY <1>5, <3>1, <3>3, <3>7
  <2> QED BY <2>11, <2>12, <2>13
<1>24. CASE CollectChunk
  <2>1. /\ pc = "chunk" /\ job.kind = "collect" /\ pc' = "chunks"
        /\ hashes' = hashes \cup ({GenericHash} \ db)
        /\ UNCHANGED <<job, heaps, heap, newChunks, db>>
    BY <1>24 DEF CollectChunk
  <2>2. ChunksFound'
    BY <1>10, <2>1 DEF Collecting, ChunksSeen, ChunkList
  <2>3. ChunkNext'
    BY <2>1 DEF ChunkNext
  <2> QED BY <1>4, <2>1, <2>2, <2>3
<1>25. CASE DumpChunk
  <2>1. /\ pc = "chunk" /\ job.kind = "dump" /\ ReadDone
        /\ IF GenericHash \notin db /\ Cardinality(Imports) >= 2
           THEN pc' = "generate" /\ gens' = Generated(heap, GenHeader, "codechunk", "chunks")
           ELSE pc' = "chunks"
        /\ UNCHANGED <<job, heaps, heap, newChunks, hashes, db, written, exports>>
    BY <1>25 DEF DumpChunk
  <2>2. /\ ChunksFound /\ heap \in heaps /\ rd.start = heap - GenHeader
        /\ rd.size = GenHeader + EstimateSectionSize(heap)
        /\ <<"crc", BodyAt(heap)>> \notin db /\ WrittenPages = DumpedUpTo(heap - 1)
    BY <2>1 DEF ChunksSeen, ChunkList, ChunkInHand
  <2>3. PICK p \in LooseAll :
           /\ heap = PageSize * p /\ heap = p * PageSize /\ PageOf(heap) = p /\ p \in Pages /\ p \in Nat
           /\ BodyAt(heap) = mem[p].body /\ mem[p].prot = "rx"
    BY <2>2, LooseIs DEF ChunksFound
  <2>4. Aligned(rd.start)
    <3>1. rd.start = (p - 2) * PageSize /\ p - 2 \in Int
      BY <2>2, <2>3, StreamAssumption DEF GenHeader
    <3> QED BY <3>1, Multiple
  <2>5. Imports = ImportsOf(p)
    BY <2>1, <2>2, <2>3, <2>4, ChunkRead DEF ListsOK
  <2>6. UnknownChunk(p) <=> GenericHash \notin db /\ Cardinality(Imports) >= 2
    BY <2>2, <2>3, <2>5 DEF UnknownChunk, GenericHash
  <2>7. DumpedUpTo(heap) = IF UnknownChunk(p) THEN DumpedUpTo(heap - 1) \cup {p} ELSE DumpedUpTo(heap - 1)
    BY <2>3, LooseMore
  <2>8. ChunksFound'
    BY <1>10, <1>11, <2>1, <2>2
  <2>9. WrittenPages' = WrittenPages
    BY <2>1 DEF WrittenPages, PageOf
  <2>10. CASE UnknownChunk(p)
    <3>1. pc' = "generate" /\ gens'.at = heap /\ gens'.back = "chunks"
      BY <2>1, <2>6, <2>10 DEF Generated
    <3>2. PageOf(heap)' = p
      BY <2>1, <2>3 DEF PageOf
    <3>3. ChunkDumped'
      BY <1>9, <2>1, <2>2, <2>7, <2>9, <2>10, <3>1, <3>2 DEF ChunkDumped
    <3> QED BY <1>6, <2>8, <3>1, <3>3 DEF Generating
  <2>11. CASE ~UnknownChunk(p)
    <3>1. pc' = "chunks"
      BY <2>1, <2>6, <2>11
    <3>2. ChunkNext'
      BY <1>9, <2>1, <2>2, <2>7, <2>9, <2>11 DEF ChunkNext
    <3> QED BY <1>4, <2>8, <3>1, <3>2
  <2> QED BY <2>10, <2>11
<1>26. CASE DumpGenerated
  <2> DEFINE f == File(gens.at, Head(gens.wides), gens.name)
  <2>1. /\ pc = "generated" /\ written' = Append(written, f) /\ gens' = [gens EXCEPT !.wides = Tail(@)]
        /\ UNCHANGED <<job, heaps, heap, newChunks, hashes, db, exports>>
        /\ \/ pc' = "generate"
           \/ gens.back = "pages" /\ pc' = "pages"
           \/ gens.back # "pages" /\ pc' = gens.back
    BY <1>26 DEF DumpGenerated, NextPage
  <2>2. f.base = gens.at
    BY DEF File
  <2> HIDE DEF f
  <2>3. gens'.back = gens.back /\ gens'.at = gens.at
    BY <2>1 DEF WalkOK
  <2>4. /\ WrittenPages' = WrittenPages \cup {PageOf(gens.at)}
        /\ \/ job.kind = "dump" /\ gens.back \in {"pages", "chunks"}
           \/ job.kind = "region" /\ gens.back = "end"
    BY <2>1, <2>2, WrittenMore DEF JobsOK
  <2>5. CASE gens.back = "pages"
    BY <1>3, <2>1, <2>3, <2>5 DEF ChunksSeen, NoChunks, Generating
  <2>6. CASE gens.back = "end"
    BY <1>2, <1>7, <2>1, <2>3, <2>4, <2>6 DEF Generating
  <2>7. CASE gens.back = "chunks"
    <3>1. ChunksFound /\ job.kind = "dump" /\ gens.at = heap /\ WrittenPages \cup {PageOf(heap)} = DumpedUpTo(heap)
      BY <2>1, <2>4, <2>7 DEF ChunksSeen, ChunkList, ChunkDumped, Generating
    <3>2. ChunksFound'
      BY <1>10, <1>11, <2>1, <3>1
    <3>3. PageOf(heap)' = PageOf(heap)
      BY <2>1 DEF PageOf
    <3>4. WrittenPages' = DumpedUpTo(heap)' /\ WrittenPages' \cup {PageOf(heap)'} = DumpedUpTo(heap)'
      BY <1>9, <2>1, <2>4, <3>1, <3>3
    <3>5. CASE pc' = "generate"
      <4>1. ChunkDumped'
        BY <2>1, <2>3, <3>1, <3>4 DEF ChunkDumped
      <4> QED BY <1>6, <2>3, <2>7, <3>2, <3>5, <4>1 DEF Generating
    <3>6. CASE pc' = "chunks"
      BY <1>4, <3>2, <3>4, <3>6 DEF ChunkNext
    <3> QED BY <2>1, <2>7, <3>5, <3>6
  <2> QED BY <2>4, <2>5, <2>6, <2>7
<1> HIDE DEF streamVars, envVars, listVars, walkVars, chunkVars, hashVars, Goal
<1> QED
  BY <1>13, <1>14, <1>15, <1>16, <1>17, <1>18, <1>19, <1>20, <1>21, <1>22, <1>23, <1>24, <1>25, <1>26
     DEF Next, Tool, Goal

\* What it means that all is clean.
LEMMA CleanIs ==
  AllClean <=> /\ \A m \in ModulePages : ModuleHashAt(m) \in db
               /\ \A p \in LooseAll : <<"crc", mem[p].body>> \in db
<1>1. \A m : UnknownModule(m) <=> ModuleHashAt(m) \notin db
  BY DEF UnknownModule, ModuleHashAt
<1> QED BY <1>1 DEF AllClean

\* What a collection took for clean stays clean.
LEMMA CleanStep ==
  ASSUME WalkOK, JobsOK, newChunks \in Nat, WalkSeen, ChunksSeen, CleanOnce,
         [Next]_vars, mem' = mem, options' = options
  PROVE  CleanOnce'
<1> USE DEF streamVars, envVars, listVars, walkVars, chunkVars, hashVars
<1> DEFINE Clean == /\ \A m \in ModulePages : ModuleHashAt(m) \in Collecting
                    /\ \A p \in LooseAll : <<"crc", mem[p].body>> \in Collecting
<1>0. /\ ModulePages' = ModulePages /\ LooseAll' = LooseAll /\ Alike' = Alike
      /\ \A m : ModuleHashAt(m)' = ModuleHashAt(m)
  BY SameMemory
<1>3. (AllClean <=> /\ \A m \in ModulePages : ModuleHashAt(m) \in db
                    /\ \A p \in LooseAll : <<"crc", mem[p].body>> \in db)'
  BY CleanIs, PTL
<1>4. db \subseteq db' /\ AllClean => AllClean'
  BY <1>0, <1>3, CleanIs
<1>5. ASSUME Alike, pc = "chunks", job.kind = "collect"
      PROVE  /\ heaps = Addresses(LooseAll) /\ newChunks <= Cardinality(LooseUpTo(heap))
             /\ \A m \in ModulePages : ModuleHashAt(m) \in Collecting
             /\ \A p \in LooseUpTo(heap) : <<"crc", mem[p].body>> \in Collecting
  BY <1>5 DEF Alike, ChunksSeen, ChunkList, ChunksFound
<1>6. ASSUME UNCHANGED <<job, last, hashes>>, db \subseteq db', \/ pc' = pc
                                                               \/ pc' \notin {"end", "ready"}
      PROVE  CleanOnce'
  BY <1>0, <1>4, <1>6 DEF CleanOnce, Collecting
<1>7. CASE UNCHANGED vars \/ Terminated \/ Flip \/ Read
  BY <1>6, <1>7 DEF vars, Terminated, Flip, Read
<1>8. CASE StartJob
  <2>1. pc = "ready" /\ last' = job.kind /\ pc' \notin {"end", "ready"} /\ db' = db
    BY <1>8 DEF StartJob
  <2> QED BY <1>0, <1>4, <2>1 DEF CleanOnce
<1>9. ASSUME UNCHANGED <<job, last, db>>, pc' \notin {"end", "ready"}
      PROVE  CleanOnce'
  BY <1>0, <1>4, <1>9 DEF CleanOnce
<1>10. CASE \/ BeginList \/ (\E b \in todo : LoadExports(b)) \/ LoadName
            \/ (\E a \in found.list.addresses : MergeExport(a)) \/ MergeDone \/ ListDone
            \/ BeginWalk \/ FindHeaps \/ QueryNext \/ NextRegion \/ Skip \/ FoundHeader
  <2>1. pc' \notin {"end", "ready"} /\ UNCHANGED <<job, last, db>>
    BY <1>10 DEF BeginList, LoadExports, LoadName, MergeExport, MergeDone, ListDone, BeginWalk,
                 FindHeaps, QueryNext, NextRegion, Skip, FoundHeader, NextPage
  <2> QED BY <1>9, <2>1
<1>11. CASE CollectModule \/ DumpModule \/ CollectChunk \/ DumpChunk \/ BuildHeader
  <2>1. pc' \notin {"end", "ready"} /\ UNCHANGED <<job, last, db>>
    BY <1>11 DEF CollectModule, DumpModule, CollectChunk, DumpChunk, BuildHeader, NextPage
  <2> QED BY <1>9, <2>1
\* Only a collection can end one.
<1>12. ASSUME UNCHANGED <<job, last, db>>, job.kind # "collect" PROVE CleanOnce'
  BY <1>0, <1>4, <1>12 DEF CleanOnce
<1>13. CASE DumpGenerated \/ BeginRegion \/ DumpRegion
  <2>1. UNCHANGED <<job, last, db>> /\ job.kind # "collect"
    BY <1>13 DEF DumpGenerated, BeginRegion, DumpRegion, JobsOK
  <2> QED BY <1>12, <2>1
<1>14. CASE EndJob
  <2>1. CASE job.kind = "collect"
    <3>1. /\ pc = "end" /\ pc' = "ready" /\ db' = db \cup hashes /\ UNCHANGED <<job, last>>
      BY <1>14, <2>1 DEF EndJob
    <3>2. Alike => AllClean'
      BY <1>0, <1>3, <2>1, <3>1 DEF CleanOnce, Collecting
    <3> QED BY <1>0, <3>1, <3>2 DEF CleanOnce
  <2>2. CASE job.kind # "collect"
    BY <1>12, <1>14, <2>2 DEF EndJob
  <2> QED BY <2>1, <2>2
<1>15. ASSUME UNCHANGED <<job, last, hashes, db>>, pc = "chunks", pc' = "end",
              job.kind = "collect" /\ Alike => Clean
       PROVE  CleanOnce'
  BY <1>0, <1>4, <1>15 DEF CleanOnce, Collecting
<1>16. CASE HeapsDone
  <2>1. pc = "chunks" /\ pc' = "end" /\ MoreHeaps = {} /\ UNCHANGED <<job, last, hashes, db>>
    BY <1>16 DEF HeapsDone
  <2>2. ASSUME job.kind = "collect", Alike PROVE Clean
    <3>1. LooseUpTo(heap) = LooseAll
      BY <1>5, <2>1, <2>2, LooseEnds DEF WalkOK
    <3> QED BY <1>5, <2>1, <2>2, <3>1
  <2> QED BY <1>15, <2>1, <2>2
<1>17. CASE \E h \in heaps : LookAtHeap(h)
  <2>1. PICK h \in heaps : LookAtHeap(h)
    BY <1>17
  <2>2. /\ pc = "chunks" /\ h \in MoreHeaps /\ \A y \in MoreHeaps : h <= y
        /\ UNCHANGED <<job, last, db>>
        /\ pc' # "end" => pc' \in {"chunks", "chunk"}
        /\ pc' = "end" => TooManyChunks /\ UNCHANGED hashes
    BY <2>1 DEF LookAtHeap
  <2>3. CASE pc' # "end"
    BY <1>9, <2>2, <2>3
  <2>4. CASE pc' = "end"
    <3>1. ASSUME job.kind = "collect", Alike PROVE FALSE
      <4>1. heaps = Addresses(LooseAll) /\ newChunks <= Cardinality(LooseUpTo(heap))
        BY <1>5, <2>2, <3>1
      <4>2. PICK p \in LooseAll : h = PageSize * p
        BY <4>1 DEF Addresses
      <4>3. Cardinality(LooseUpTo(h)) = Cardinality(LooseUpTo(heap)) + 1
        BY <2>2, <4>1, <4>2, LooseMore, LooseNext DEF WalkOK
      <4>4. /\ Cardinality(LooseUpTo(heap)) \in Nat /\ Cardinality(LooseUpTo(h)) <= Cardinality(LooseAll)
            /\ Cardinality(LooseAll) <= Cardinality(LoosePages)
            /\ Cardinality(LooseAll) \in Nat /\ Cardinality(LoosePages) \in Nat
        BY LooseFinite
      <4>5. Cardinality(LoosePages) <= ChunkLimit + 1 /\ newChunks > ChunkLimit /\ ChunkLimit \in Nat
        BY <2>2, <2>4, <3>1, ScanAssumption DEF Alike, TooManyChunks
      <4> QED BY <4>1, <4>3, <4>4, <4>5
    <3> QED BY <1>15, <2>2, <2>4, <3>1
  <2> QED BY <2>3, <2>4
<1> HIDE DEF streamVars, envVars, listVars, walkVars, chunkVars, hashVars
<1> QED
  BY <1>7, <1>8, <1>10, <1>11, <1>13, <1>14, <1>16, <1>17 DEF Next, Tool

\* The counters are numbers.
LEMMA CountersStep ==
  ASSUME changes \in Nat, count \in Nat, newChunks \in Nat, [Next]_vars
  PROVE  changes' \in Nat /\ count' \in Nat /\ newChunks' \in Nat
<1> USE DEF streamVars, envVars, listVars, walkVars, chunkVars, hashVars
<1>1. CASE UNCHANGED vars \/ Terminated \/ Flip
  BY <1>1 DEF vars, Terminated, Flip
<1>2. CASE \/ StartJob \/ BeginList \/ (\E b \in todo : LoadExports(b)) \/ LoadName
           \/ (\E a \in found.list.addresses : MergeExport(a)) \/ MergeDone \/ ListDone
           \/ BeginWalk \/ FindHeaps \/ QueryNext \/ NextRegion \/ Skip \/ FoundHeader
  <2>1. \/ UNCHANGED <<changes, count, newChunks>>
        \/ BeginWalk \/ QueryNext \/ Skip \/ FoundHeader
    BY <1>2 DEF StartJob, BeginList, LoadExports, LoadName, MergeExport, MergeDone, ListDone,
                FindHeaps, NextRegion
  <2>2. FoundHeader => UNCHANGED <<changes, newChunks>> /\ (NextPage \/ UNCHANGED count)
    BY DEF FoundHeader
  <2> QED BY <2>1, <2>2 DEF BeginWalk, QueryNext, Skip, NextPage
<1>3. CASE \/ CollectModule \/ DumpModule \/ (\E h \in heaps : LookAtHeap(h)) \/ HeapsDone
           \/ CollectChunk \/ DumpChunk \/ BuildHeader \/ DumpGenerated
           \/ BeginRegion \/ DumpRegion \/ EndJob \/ Read
  BY <1>3 DEF CollectModule, DumpModule, LookAtHeap, HeapsDone, CollectChunk, DumpChunk,
              BuildHeader, DumpGenerated, BeginRegion, DumpRegion, EndJob, Read, NextPage
<1> HIDE DEF streamVars, envVars, listVars, walkVars, chunkVars, hashVars
<1> QED BY <1>1, <1>2, <1>3 DEF Next, Tool

\* A process that has stood still so far, and all that was read of it and found in it.
LEMMA StillStep ==
  ASSUME CellsAreNoMark, WalkOK, StreamInv, JobsOK, ListsOK, StillInv, [Next]_vars
  PROVE  StillInv'
<1>1. changes' \in Nat /\ count' \in Nat /\ newChunks' \in Nat
  BY CountersStep DEF StillInv
<1>2. ASSUME changes' = 0
      PROVE  /\ BodiesOK' /\ (Aligned(rd.start) => ExactRead)'
             /\ HeapsFound' /\ WalkSeen' /\ ChunksSeen' /\ CleanOnce'
  <2>1. changes = 0 /\ mem' = mem /\ options' = options
    BY <1>2, StandsStill DEF StillInv
  <2>2. /\ BodiesOK /\ (Aligned(rd.start) => ExactRead) /\ count \in Nat /\ newChunks \in Nat
        /\ HeapsFound /\ WalkSeen /\ ChunksSeen /\ CleanOnce
    BY <2>1 DEF StillInv
  <2>3. BodiesOK'
    BY <2>1, <2>2 DEF BodiesOK
  <2>4. (Aligned(rd.start) => ExactRead)'
    BY <2>1, <2>2, WalkStep, ExactStep
  <2>5. (HeapsFound /\ WalkSeen)'
    BY <2>1, <2>2, SeenStep
  <2>6. ChunksSeen'
    BY <2>1, <2>2, ChunksStep
  <2>7. CleanOnce'
    BY <2>1, <2>2, CleanStep
  <2> QED BY <2>3, <2>4, <2>5, <2>6, <2>7
<1> QED BY <1>1, <1>2 DEF StillInv

\* As long as the process stands still, the walk finds all of it.
THEOREM StillHolds == ASSUME CellsAreNoMark PROVE Spec => []StillInv
<1>1. Init => StillInv
  <2> SUFFICES ASSUME Init PROVE StillInv
    OBVIOUS
  <2>1. BodiesOK
    BY ScanAssumption DEF Init, BodiesOK
  <2>2. ExactRead
    BY DEF Init, NoRead, ExactRead
  <2>3. /\ pc = "ready" /\ job.kind = "none" /\ last = "none" /\ changes = 0 /\ count = 0 /\ newChunks = 0
    BY DEF Init
  <2>4. HeapsFound /\ WalkSeen
    BY <2>3 DEF HeapsFound, WalkSeen, SeenWalk, SeenPages, SeenImage, SeenGenerated
  <2>5. ChunksSeen /\ CleanOnce
    BY <2>3 DEF ChunksSeen, NoChunks, ChunkList, ChunkNext, ChunkInHand, ChunkDumped, ChunksOver,
                Generating, CleanOnce
  <2> QED BY <2>1, <2>2, <2>3, <2>4, <2>5 DEF StillInv
<1>2. WalkOK /\ StreamInv /\ FreshInv /\ ListsOK /\ StillInv /\ [Next]_vars => StillInv'
  BY StillStep DEF FreshInv
<1> QED
  BY <1>1, <1>2, WalkHolds, ReadsInOrder, FilesInOrder, ListsHold, PTL DEF Spec

\* A dump of a process that stands still writes each module and each loose chunk that is
\* not known to be clean, and nothing else, unless it gives up on the chunks.
THEOREM DumpComplete == ASSUME CellsAreNoMark PROVE Spec => []DumpIsComplete
<1>1. StillInv => DumpIsComplete
  <2> SUFFICES ASSUME StillInv, Settled("dump"), newChunks <= ChunkLimit + 1 PROVE WrittenPages = Expected
    BY DEF DumpIsComplete, WrittenPages
  <2>1. changes = 0 /\ pc = "ready" /\ job.kind = "dump"
    BY DEF Settled
  <2>2. ChunksOver /\ newChunks \in Nat
    BY <2>1 DEF StillInv, ChunksSeen
  <2>3. ChunkLimit \in Nat
    BY ScanAssumption
  <2>4. ~(newChunks > ChunkLimit + 1)
    BY <2>2, <2>3
  <2> QED BY <2>1, <2>2, <2>4 DEF ChunksOver
<1> QED BY <1>1, StillHolds, PTL

\* A process whose hashes were collected as clean, and that stands still, is not dumped:
\* the walk that collects and the walk that dumps see the same modules and chunks.
THEOREM CleanNotDumped == ASSUME CellsAreNoMark PROVE Spec => []NothingNew
<1>1. StillInv /\ JobsOK => NothingNew
  <2> SUFFICES ASSUME StillInv, JobsOK, Settled("dump"), last = "collect", Alike PROVE written = << >>
    BY DEF NothingNew, Alike
  <2>1. changes = 0 /\ pc = "ready" /\ job.kind = "dump"
    BY DEF Settled
  <2>2. ChunksOver /\ newChunks \in Nat /\ AllClean
    BY <2>1 DEF StillInv, ChunksSeen, CleanOnce
  <2>3. Expected = {}
    BY <2>2 DEF Expected, AllClean, UnknownChunk, LooseAll
  <2>4. ~(newChunks > ChunkLimit + 1 /\ newChunks <= Cardinality(LooseAll))
    <3>1. Cardinality(LoosePages) <= ChunkLimit + 1 /\ ChunkLimit \in Nat
      BY ScanAssumption DEF Alike
    <3> QED BY <2>2, <3>1, LooseFinite
  <2>5. WrittenPages = {}
    BY <2>1, <2>2, <2>3, <2>4 DEF ChunksOver
  <2>6. DOMAIN written = {}
    BY <2>5 DEF WrittenPages
  <2>7. written \in Seq({written[i] : i \in DOMAIN written})
    BY DEF JobsOK
  <2> QED BY <2>6, <2>7
<1>2. FreshInv => JobsOK
  BY DEF FreshInv
<1> QED BY <1>1, <1>2, StillHolds, FilesInOrder, PTL
=============================================================================
