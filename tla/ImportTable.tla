----------------------------- MODULE ImportTable -----------------------------
(* The import table that is rebuilt for an image (pe_imports.cpp): the       *)
(* descriptors the image had, and one more for every place in it that holds  *)
(* the address of an export.  Sizes are counted in cells: a cell holds a     *)
(* number, a descriptor, the name of an import or the name of a library.     *)
EXTENDS Integers, SequencesExt

CONSTANTS NoRva  \* the rva of nothing

ASSUME RvaAssumption == NoRva \notin Int

Number(n) == <<"number", n>>
Zero == Number(0)
Descriptor(thunks, name, first) == <<"descriptor", thunks, name, first>>

DescriptorCells == 1
ImportNameCells == 1
LibraryNameCells == 1
ThunkCells == 4  \* two IMAGE_THUNK_DATA64, of two cells each

\* test_read
Inside(size, at, n) == at >= 0 /\ at + n <= size

\* import_library: a descriptor as it is, ...
OldLibrary(d) == [descriptor |-> d, library |-> NoRva, name |-> NoRva, ord |-> NoRva]
\* ... the import of a name at an rva, ...
ByName(library, name, rva) ==
    [descriptor |-> Descriptor(0, 0, rva), library |-> library, name |-> name, ord |-> NoRva]
\* ... and that of an ordinal.
ByOrdinal(library, ord, rva) ==
    [descriptor |-> Descriptor(0, 0, rva), library |-> library, name |-> NoRva, ord |-> ord]

\* pe_imports: the descriptors up to the first empty one or the end of the image.
DescriptorAt(image, size, rva, i) ==
    IF rva # NoRva /\ Inside(size, rva + i * DescriptorCells, DescriptorCells)
    THEN image[rva + i * DescriptorCells] ELSE Zero
OldLibraries(image, size, rva) ==
    LET n == Cardinality({k \in 0 .. size :
                \A i \in 0 .. k : DescriptorAt(image, size, rva, i) # Zero})
    IN  [i \in 1 .. n |-> OldLibrary(DescriptorAt(image, size, rva, i - 1))]

HasThunk(l) == l.library # NoRva
NameCells(l) == IF l.name # NoRva THEN ImportNameCells ELSE 0
Named(libs) == {i \in DOMAIN libs : libs[i].name # NoRva}
Added(libs) == {i \in DOMAIN libs : HasThunk(libs[i])}

\* Mutant: the library names are not counted.
DataSizeShort(libs) ==
    ImportNameCells * Cardinality(Named(libs)) + ThunkCells * Cardinality(Added(libs))

\* get_table_size: the descriptors with a blank one at the end, and what they refer to.
DescriptorSize(libs) == (Len(libs) + 1) * DescriptorCells
DataSize(libs) == ImportNameCells * Cardinality(Named(libs)) +
                  (ThunkCells + LibraryNameCells) * Cardinality(Added(libs))

ThunkOf(l, nameRva) == IF l.name # NoRva THEN Number(nameRva) ELSE <<"ordinal", l.ord>>

\* build_table of one library into the section of t.cells that begins at start: its
\* import name, its thunk with an empty one behind it, its library name, and its
\* descriptor, which is written last.  A part that does not fit ends it.
BuildLibrary(t, start, size, rva, l) ==
    LET thunk == t.extra + NameCells(l)
        lib   == thunk + ThunkCells
        named == [t EXCEPT !.cells = IF l.name # NoRva
                                     THEN [@ EXCEPT ![start + t.extra] = <<"import", l.name>>]
                                     ELSE @,
                           !.extra = thunk]
        full  == [named EXCEPT !.cells[start + thunk] = ThunkOf(l, t.extra + rva),
                               !.extra = lib]
        desc  == Descriptor(thunk + rva, lib + rva, l.descriptor[4])
    IN  IF ~HasThunk(l)
        THEN IF ~Inside(size, t.at, DescriptorCells) THEN t
             ELSE [t EXCEPT !.cells[start + t.at] = l.descriptor, !.at = @ + DescriptorCells]
        ELSE IF ~Inside(size, t.extra, NameCells(l)) THEN t
        ELSE IF ~Inside(size, thunk, ThunkCells) THEN named
        ELSE IF ~Inside(size, t.at, DescriptorCells) \/ ~Inside(size, lib, LibraryNameCells)
             THEN full
        ELSE [full EXCEPT !.cells[start + lib] = <<"library", l.library>>,
                          !.cells[start + t.at] = desc,
                          !.extra = lib + LibraryNameCells, !.at = @ + DescriptorCells]
=============================================================================
