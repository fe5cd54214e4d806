--------------------------- MODULE ProcessStream ---------------------------
(* Reading the memory of a running process (process_stream in                *)
(* stream_wrapper.h).  The memory is a row of pages of PageSize cells; a read *)
(* asks the system for the region at its position and then copies, skips or  *)
(* steps over it, while the process goes on and changes its memory.          *)
EXTENDS Integers, FiniteSets

CONSTANTS PageSize,  \* cells of a page
          NumPages,  \* pages of the address space
          Untouched  \* a cell of the output buffer no copy has written

ASSUME StreamAssumption == PageSize \in Nat \ {0} /\ NumPages \in Nat \ {0}

VARIABLES mem,   \* page -> [prot, alloc, body]
          build, \* 32 or 64: the build of the tool, it decides on the MBI structure
          rd     \* the read in progress: its arguments, locals and output

Pages == 0 .. NumPages - 1
PageOf(a) == a \div PageSize
InSpace(a) == PageOf(a) \in Pages
\* MEM_COMMIT and neither PAGE_NOACCESS nor PAGE_GUARD
Accessible(a) == InSpace(a) /\ mem[PageOf(a)].prot \in {"rw", "rx"}
\* What a cell of memory holds: its address and the body of its page.
Cell(a) == <<a, mem[PageOf(a)].body>>

\* VirtualQueryEx rounds the address down to its page and reports up to the end
\* of the pages with the same attributes in the same allocation.
SamePages(p, q) == /\ mem[p].prot = mem[q].prot
                   /\ mem[p].alloc = mem[q].alloc
LastPage(p) ==
    p + Cardinality({q \in Pages : q > p /\ \A k \in p .. q : SamePages(p, k)})
Region(a) == [base |-> PageOf(a) * PageSize,
              size |-> (LastPage(PageOf(a)) - PageOf(a) + 1) * PageSize,
              prot |-> mem[PageOf(a)].prot]

\* ReadProcessMemory copies up to the first cell that cannot be read.
Copied(a, n) == Cardinality({k \in 0 .. n - 1 : \A i \in 0 .. k : Accessible(a + i)})

-----------------------------------------------------------------------------
NoRead == [loc |-> "idle", start |-> 0, size |-> 0, already |-> 0, outRead |-> 0,
           out |-> [i \in {} |-> Untouched], spill |-> 0,
           region |-> [base |-> 0, size |-> 0, prot |-> "free"]]

\* read(offset, size): start is base + offset.
NewRead(start, size) == [NoRead EXCEPT !.loc = "query", !.start = start,
                           !.size = size, !.out = [i \in 0 .. size - 1 |-> Untouched]]

Position == rd.start + rd.already
Reading == rd.loc # "idle" /\ rd.already < rd.size

QueryRegion == /\ rd.loc = "query" /\ Reading /\ InSpace(Position)
               /\ rd' = [rd EXCEPT !.loc = "copy", !.region = Region(Position)]

\* Mutant: a query that fails moves nothing on.
QueryFailsStays == rd.loc = "query" /\ Reading /\ ~InSpace(Position) /\ rd' = rd

\* "Failed to query MBI information, best we can do is skip 1 page?"
QueryFails == /\ rd.loc = "query" /\ Reading /\ ~InSpace(Position)
              /\ rd' = [rd EXCEPT !.already = @ + PageSize]

\* Mutant: what was asked for counts as read.
CopyTrusting(n) ==
    LET k == Copied(Position, n)
    IN  rd' = [rd EXCEPT
          !.loc = "query", !.already = @ + n, !.outRead = @ + n,
          !.out = [i \in DOMAIN @ |-> IF i >= rd.already /\ i < rd.already + k
                                     THEN Cell(rd.start + i) ELSE @[i]]]

\* Copy n cells from the position on; cells past the end of the buffer spill.
Copy(n) == LET k == Copied(Position, n)
           IN  rd' = [rd EXCEPT
                 !.loc = "query", !.already = @ + n, !.outRead = @ + k,
                 !.out = [i \in DOMAIN @ |->
                            IF i >= rd.already /\ i < rd.already + k
                            THEN Cell(rd.start + i) ELSE @[i]],
                 !.spill = IF rd.already + k > rd.size
                           THEN @ + rd.already + k - rd.size ELSE @]

Committed == rd.region.prot \in {"rw", "rx"}
\* The region ends inside what is still to be read.
WholeRegion == rd.start + rd.size >= rd.region.base + rd.region.size

ReadWhole == Committed /\ WholeRegion /\ Copy(rd.region.size)

\* Mutant: the whole region is read where a part of it was asked for.
ReadPartWhole == Committed /\ ~WholeRegion /\ Copy(rd.region.size)

ReadPart == Committed /\ ~WholeRegion /\ Copy(rd.size - rd.already)

SkipRegion == /\ ~Committed
              /\ rd' = [rd EXCEPT !.loc = "query",
                   !.already = @ + rd.region.size - (Position - rd.region.base)]

ReadRegion64 == /\ rd.loc = "copy" /\ build = 64
                /\ ReadWhole \/ ReadPart \/ SkipRegion

ReadRegion32 == /\ rd.loc = "copy" /\ build = 32
                /\ ReadWhole \/ ReadPart \/ SkipRegion

ReadStep == QueryRegion \/ QueryFails \/ ReadRegion64 \/ ReadRegion32

\* read has left its loop; what it returns.
ReadDone == rd.loc = "query" /\ rd.already >= rd.size
ReadResult == rd.outRead = rd.already

\* block_size(0), estimate_section_size: the rest of the region at an address.
BlockSize(a) == IF InSpace(a) THEN Region(a).size ELSE 0
EstimateSectionSize(a) ==
    IF InSpace(a) /\ Region(a).prot \in {"rw", "rx"} THEN Region(a).size ELSE 0

-----------------------------------------------------------------------------
Aligned(a) == a % PageSize = 0

\* A read from a page boundary writes only into the buffer it was given, whatever
\* the process does to its memory between the query and the copy.  (From any other
\* address the size of the region, which is counted from its page, is too large.)
StaysInside == Aligned(rd.start) => rd.spill = 0

\* Every cell read lands at its own offset, and a read that reports success has
\* filled the whole buffer: skipped regions, failed queries and copies cut short
\* by a change of the memory all show in the result.
TellsTheTruth ==
    /\ \A i \in DOMAIN rd.out : rd.out[i] # Untouched => rd.out[i][1] = rd.start + i
    /\ ReadDone /\ ReadResult => \A i \in DOMAIN rd.out : rd.out[i] # Untouched
=============================================================================
