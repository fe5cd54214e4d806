----------------------------- MODULE ExportList -----------------------------
(* The export list of a process (export_list.cpp): a map from addresses to   *)
(* export entries, with the quick filters asked before every lookup: the     *)
(* smallest and the largest address and the bits any address has, for 32-bit *)
(* and for larger addresses apart.  An address is a number, a bit mask the   *)
(* set of its bit positions.                                                 *)
EXTENDS Integers

CONSTANTS UintMax,   \* UINT_MAX
          Width,     \* number of bits of an unsigned __int64
          AlignMask, \* rvas that are multiples of this (0x1000) are not taken
          NoName     \* the NULL of an entry without a name

UI64Max == 2^Width - 1
ASSUME ListAssumption == UintMax \in Nat /\ Width \in Nat /\ UI64Max \in Nat
Bits(a) == {i \in 0 .. Width - 1 : (a \div 2^i) % 2 = 1}

Entry(library_name, name, ord, rva, address, is64) ==
    [library_name |-> library_name, name |-> name, ord |-> ord,
     rva |-> rva, address |-> address, is64 |-> is64]

NewList == [entries |-> [a \in {} |-> NoName], addresses |-> {},
            min32 |-> UintMax, max32 |-> 0, bits32 |-> {},
            min64 |-> UI64Max, max64 |-> UintMax, bits64 |-> {}]

Contains32(l, a) == /\ a <= l.max32 /\ a >= l.min32
                    /\ Bits(a) \subseteq l.bits32
                    /\ a \in l.addresses

Contains64(l, a) == /\ a <= l.max64 /\ a >= l.min64
                    /\ Bits(a) \subseteq l.bits64
                    /\ a \in l.addresses

Contains(l, a) == IF a <= UintMax THEN Contains32(l, a) ELSE Contains64(l, a)

\* find dereferences NULL for an address that has no entry: it has no value here.
Find(l, a) == l.entries[a]

Larger(a, b) == IF a > b THEN a ELSE b
Smaller(a, b) == IF a < b THEN a ELSE b

Filter32(l, a) == [l EXCEPT !.min32 = Smaller(a, @), !.max32 = Larger(a, @),
                            !.bits32 = @ \cup Bits(a)]
\* Mutant: the bits of a large address go to the filter of the small ones.
Filter64Mixed(l, a) == [l EXCEPT !.min64 = Smaller(a, @), !.max64 = Larger(a, @),
                                 !.bits32 = @ \cup Bits(a)]
Filter64(l, a) == [l EXCEPT !.min64 = Smaller(a, @), !.max64 = Larger(a, @),
                            !.bits64 = @ \cup Bits(a)]

\* The first entry of an address stays; a set of addresses is kept beside the map.
AddExport(l, a, e) ==
    IF a \in DOMAIN l.entries THEN l
    ELSE LET f == [x \in DOMAIN l.entries \cup {a} |->
                      IF x = a THEN e ELSE l.entries[x]]
             m == [l EXCEPT !.entries = f, !.addresses = @ \cup {a}]
         IN  IF a \in l.addresses THEN m
             ELSE IF a > UintMax THEN Filter64(m, a) ELSE Filter32(m, a)

\* One turn of the loop over the names of an export directory: n is the entry
\* of the ordinal, name and function tables, with what can be read of it.
AddName(l, dir, n) ==
    IF n.ordReadable /\ n.rvaReadable /\ n.rva % AlignMask # 0
    THEN LET a == dir.base + n.rva
         IN  AddExport(l, a, Entry(dir.library, n.name, n.ord, n.rva, a, dir.is64))
    ELSE l

\* The directory is left alone when it has no functions or its library name
\* cannot be read.
Parsed(dir) == /\ dir.numberOfFunctions > 0
               /\ dir.hasNameOrdinals
               /\ dir.library # NoName

\* find_export takes the first match in the order of the hash table; a library
\* of NoName stands for any.
Matches(l, library, name, is64) ==
    {a \in DOMAIN l.entries :
        /\ l.entries[a].is64 = is64
        /\ library \in {NoName, l.entries[a].library_name}
        /\ l.entries[a].name = name}

-----------------------------------------------------------------------------
\* The filters are exact: contains answers what the map holds, so an address it
\* lets through has an entry to be found, and none of the map is filtered out.
ExactFilters(l) ==
    /\ l.addresses = DOMAIN l.entries
    /\ \A a \in 0 .. UI64Max : Contains(l, a) <=> a \in DOMAIN l.entries
=============================================================================
