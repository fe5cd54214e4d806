------------------------------ MODULE MCPEImage ------------------------------
(* Small images for PEImage: pages of eight cells, a header of one page.      *)
EXTENDS PEImage, TLC

At == 64  \* where modules are loaded
Section(name, va, vs, raw, ptr) ==
    [name |-> name, va |-> va, vs |-> vs, raw |-> raw, ptr |-> ptr, ch |-> "rx"]
HeaderWith(bits, soi, ep, imp, exp, iat, secs) ==
    [bits |-> bits, n |-> Len(secs), sa |-> Page, fa |-> 4, soh |-> Page, soi |-> soi,
     ep |-> ep, base |-> 0, dll |-> TRUE, imp |-> imp, exp |-> exp, iat |-> iat,
     secs |-> secs]

\* A file of n cells with a header and contents, and what the loader makes of it.
FileWith(hdr, n, cells) ==
    [a \in 0 .. n - 1 |-> IF a = 0 THEN <<"header", hdr>>
                         ELSE IF a \in DOMAIN cells THEN cells[a] ELSE Zero]
InSection(hdr, a) == {i \in DOMAIN hdr.secs :
    a >= hdr.secs[i].va /\ a < hdr.secs[i].va + Least(hdr.secs[i].vs, hdr.secs[i].raw)}
LoadedFrom(f, hdr, bound) ==
    [x \in At .. At + hdr.soi - 1 |->
        LET a == x - At
            in == InSection(hdr, a)
            s == hdr.secs[CHOOSE i \in in : TRUE]
        IN  IF a = 0 THEN <<"header", [hdr EXCEPT !.base = At]>>
            ELSE IF a \in DOMAIN bound THEN bound[a]
            ELSE IF in # {} THEN f[s.ptr + a - s.va]
            ELSE IF a < hdr.soh THEN f[a] ELSE Zero]
Ends(hdr) == {At + hdr.secs[i].va : i \in DOMAIN hdr.secs} \cup {At + hdr.soi}
\* Every address lies in a region that goes to the next of the ends.
EndOf(memory, ends) == [a \in DOMAIN memory |->
    CHOOSE e \in ends : e > a /\ \A f \in ends : f > a => e <= f]
Honest(hdr, n, cells, bound, exports) ==
    LET f == FileWith(hdr, n, cells)
        mem == LoadedFrom(f, hdr, bound)
    IN  [file |-> f, memory |-> mem, base |-> At, end |-> EndOf(mem, Ends(hdr)),
         exports |-> exports]

Weak == <<"code", "weak">>
Good == <<"code", "good">>
Other == <<"code", "other">>
Export(name, ord) == [library |-> "k", name |-> name, ord |-> ord]
Lib == <<"library", "lib">>
Fn == <<"import", "f">>

\* A 32-bit module with an import and two addresses it keeps elsewhere, one of them
\* in the upper half.
Exports32 == (200 :> Export("f", NoRva)) @@ (210 :> Export(NoRva, 7)) @@ (900 :> Export("g", NoRva))
Module32 ==
    Honest(HeaderWith(32, 32, 9, 16, 26, 22, <<Section("t", 8, 6, 4, 8), Section("d", 16, 12, 12, 12)>>),
           24,
           (9 :> Other) @@ (10 :> Number(200)) @@ (11 :> Number(900)) @@
           (12 :> Descriptor(20, 24, 22)) @@ (16 :> Number(25)) @@ (18 :> Number(25)) @@
           (20 :> Lib) @@ (21 :> Fn),
           22 :> Number(200), Exports32)

\* A 64-bit module; its entry point is lost.
Exports64 == (2100 :> Export("f", NoRva)) @@ (3072 :> Export(NoRva, 7))
Module64 ==
    Honest(HeaderWith(64, 32, 0, 16, 200, 22, <<Section("t", 8, 8, 8, 8), Section("d", 16, 16, 16, 16)>>),
           32,
           (8 :> Weak) @@ (9 :> Good) @@ (10 :> Number(28)) @@ (11 :> Number(3)) @@
           (12 :> Number(0)) @@ (13 :> Number(3)) @@ (14 :> Good) @@
           (16 :> Descriptor(18, 26, 22)) @@ (18 :> Number(28)) @@ (22 :> Number(28)) @@
           (26 :> Lib) @@ (28 :> Fn),
           (22 :> Number(52)) @@ (23 :> Number(2)), Exports64 @@ (3100 :> Export("h", NoRva)))

\* What is found in memory only: tampered headers.
Tampered(hdr, ends) ==
    LET mem == [x \in At .. At + 47 |->
                   IF x = At THEN <<"header", hdr>>
                   ELSE IF x \in {At + 10, At + 20} THEN Number(210)
                   ELSE IF x = At + 30 THEN Gap ELSE Number(x % 8)]
    IN  [file |-> Empty, memory |-> mem, base |-> At, end |-> EndOf(mem, ends),
         exports |-> Exports32]
Overlapping == HeaderWith(32, 20, 9, 0, 0, 0,
    <<Section("a", 16, 100, 8, 3), Section("b", 12, 200, 30, 4), Section("c", 24, 6, 20, 5)>>)
Huge == [HeaderWith(32, 90, 9, 0, 0, 0,
    <<Section("a", 8, 5, 50, 3), Section("b", 16, 500, 4, 4)>>) EXCEPT !.n = 9]
Oversized == HeaderWith(64, 900, 9, 0, 0, 0, <<Section("a", 8, 8, 8, 8), Section("b", 1020, 60, 8, 8)>>)
NoRoom == [HeaderWith(64, 20, 9, 0, 0, 0, << >>) EXCEPT !.n = 2]
NoAlignment == [HeaderWith(32, 20, 9, 0, 0, 0, <<Section("a", 8, 5, 5, 8)>>) EXCEPT !.sa = 0]
Tiny == HeaderWith(32, 0, 9, 0, 0, 0, << >>)
NotAligned == HeaderWith(64, 21, 9, 0, 0, 0, <<Section("a", 8, 13, 16, 8)>>)

\* Memory without a header: two regions and a gap.
Region ==
    LET mem == [x \in At - 4 .. At + 15 |->
                   IF x = At + 3 THEN Number(200) ELSE IF x = At + 9 THEN Number(52)
                   ELSE IF x = At + 10 THEN Number(2) ELSE IF x = At + 12 THEN Good
                   ELSE Number(1)]
    IN  [file |-> Empty, memory |-> mem, base |-> At,
         end |-> EndOf(mem, {At + 8, At + 16, At + 24}),
         exports |-> Exports32 @@ Exports64]

Pages == {At + 8, At + 16, At + 24, At + 32, At + 48}
MCModules ==
    {Module32, Module64, Region} \cup
    {Tampered(h, Pages) : h \in {Overlapping, Huge, Oversized, NoAlignment, Tiny, NotAligned}} \cup
    {Tampered(h, {At + 48}) : h \in {Overlapping, Huge}} \cup
    {Tampered(NoRoom, {At + 6, At + 48})}

Job(what, from) == [what |-> what, from |-> from]
MCJobLists ==
    {<<Job("clean", "file"), Job("collect", "memory"), Job("dump", "memory"),
       Job("clean", "written")>>,
     <<Job("chunk", "memory"), Job("generate64", "memory"), Job("clean", "written")>>,
     <<Job("generate32", "memory"), Job("clean", "written")>>,
     <<Job("region64", "memory"), Job("clean", "written"), Job("region32", "memory")>>,
     <<Job("exports", "memory"), Job("is64", "memory")>>}
Option(rec, verbose, force) ==
    [ImportRec |-> rec, Verbose |-> verbose, ForceEntryPoint |-> force,
     EntryPointHash |-> TRUE, AsDll |-> FALSE]
MCOptionSets == {Option(rec, verbose, force) : rec, verbose, force \in BOOLEAN} \cup
                {[Option(TRUE, FALSE, TRUE) EXCEPT !.EntryPointHash = FALSE]}
MCEpShorts == {Weak, Good}
MCEps == {Good}
MCFullHash == {Good, Other}
=============================================================================
