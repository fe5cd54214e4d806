---------------------------- MODULE MCMemoryScan ----------------------------
(* Small processes for MemoryScan: seven pages of two cells, page 0 free.    *)
EXTENDS MemoryScan, TLC

Page(prot, alloc, body) == [prot |-> prot, alloc |-> alloc, body |-> body]
Free == Page("free", "-", "zero")
Process(pages, known, flip, bits) ==
    [mem |-> [p \in Pages |-> pages[p + 1]], loaded |-> known, flips |-> flip, build |-> bits]

NoDir == [base |-> 0, library |-> NoName, numberOfFunctions |-> 0,
          hasNameOrdinals |-> FALSE, is64 |-> TRUE, names |-> << >>]
Name(rva) == [ordReadable |-> TRUE, rvaReadable |-> TRUE, rva |-> rva, ord |-> rva,
              name |-> rva]
Dir(names) == [NoDir EXCEPT !.library = "lib", !.numberOfFunctions = Len(names),
                            !.hasNameOrdinals = TRUE, !.names = names]
Header(id, n, iat, dir) ==
    [id |-> id, wide |-> 64, parses |-> TRUE, sections |-> TRUE, pages |-> n, iat |-> iat,
     hasDir |-> dir # NoDir, dir |-> dir]

MCHeaders == {"exporter", "plain", "bare", "junk"}
MCHeaderOf == [b \in MCHeaders |->
    CASE b = "exporter" -> Header("E", 2, 1, Dir(<<Name(3), Name(2), Name(4), Name(21)>>))
      [] b = "plain"    -> Header("P", 2, 1, NoDir)
      [] b = "bare"     -> [Header("B", 1, 0, NoDir) EXCEPT !.sections = FALSE]
      [] b = "junk"     -> [Header("J", 1, 0, NoDir) EXCEPT !.parses = FALSE]]
MCRefs == [b \in MCHeaders \cup {"zero", "iat", "calls", "calls1"} |->
    CASE b = "calls" -> {7, 25, 9} [] b = "calls1" -> {7, 9} [] OTHER -> {}]

\* A module, the executable region right behind it and a loose one.
Loose == Process(<<Free, Page("rw", "z", "calls"), Page("rx", "a", "exporter"),
                   Page("rx", "a", "iat"),
                   Page("rx", "b", "calls"), Page("rw", "c", "calls1"),
                   Page("rx", "d", "calls")>>, (4 :> "a.dll"), {}, 64)
\* Headers beyond the page limit, in reserved memory and without a module list entry.
Long == Process(<<Free, Page("reserve", "r", "plain"), Page("rw", "a", "exporter"),
                  Page("rw", "a", "zero"), Page("rw", "a", "plain"),
                  Page("rw", "b", "plain"), Page("rx", "c", "calls")>>,
                (4 :> "a.dll") @@ (10 :> "b.dll"), {}, 32)
\* Executable regions that begin with a header without sections, or with junk.
Bare == Process(<<Free, Page("rw", "a", "exporter"), Page("none", "a", "iat"),
                  Page("rx", "b", "junk"), Page("none", "c", "zero"),
                  Page("rx", "d", "bare"), Page("rx", "d", "calls")>>,
                (2 :> "a.dll"), {}, 64)
\* A module whose second page comes and goes.
Moving(ps, bits) == Process(<<Free, Free, Page("rw", "a", "exporter"), Page("rw", "a", "plain"),
                    Page("rw", "a", "iat"), Free, Page("rx", "d", "calls")>>,
                  (4 :> "a.dll"), ps, bits)

\* More loose regions than the limit of chunks.
Many == Process(<<Free, Page("rx", "a", "calls"), Page("rw", "b", "exporter"),
                  Page("rw", "b", "iat"), Free, Page("rx", "d", "calls1"),
                  Page("rx", "e", "zero")>>, (4 :> "a.dll"), {}, 64)

MCLayouts == {Loose, Long, Bare, Many, Moving({3, 6}, 64), Moving({2, 4}, 32)}

Job(kind, at) == [kind |-> kind, base |-> at]
MCJobLists == {<<Job("collect", 0), Job("dump", 0)>>, <<Job("dump", 0)>>,
               <<Job("region", 4)>>, <<Job("region", 5)>>, <<Job("region", 10)>>}
Option(chunks, gen, rec) == [chunks |-> chunks, genHeader |-> gen, importRec |-> rec]
MCOptionSets == {Option(TRUE, FALSE, FALSE), Option(FALSE, TRUE, TRUE)}
=============================================================================
