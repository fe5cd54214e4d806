------------------------- MODULE CommandLineProofs -------------------------
(***************************************************************************)
(* Theorems about CommandLine and the walk over folders it starts, for     *)
(* every disk, whatever cannot be opened on it, and every command line.    *)
(***************************************************************************)
EXTENDS CommandLine, FiniteSetTheorems, SequenceTheorems, TLAPS

Frame == {"dir", "at", "cached", "open"}

\* The stack of the calls.
StackOK ==
  /\ stack \in Seq({stack[f] : f \in DOMAIN stack})
  /\ \A f \in 1 .. Len(stack) : DOMAIN stack[f] = Frame
  /\ DOMAIN walk = {"op", "recursively", "root", "state"}
  /\ walk.state \in {"read", "entry", "close"} => Len(stack) > 0

\* The stream of every folder has its handle, but for the one on top between the end
\* of its entries and its closedir.
HandleInv ==
  /\ StackOK
  /\ \A f \in 1 .. Len(stack) : stack[f].open <=> ~(f = Len(stack) /\ walk.state = "close")
  /\ handles = IF walk.state = "close" THEN Len(stack) - 1 ELSE Len(stack)

\* A sequence over one set whose elements are in another is one over that.
LEMMA Elements ==
  ASSUME NEW S, NEW T, NEW s \in Seq(S), \A f \in DOMAIN s : s[f] \in T
  PROVE  s \in Seq(T)
<1>1. Len(s) \in Nat /\ s \in [1 .. Len(s) -> S]
  BY LenProperties
<1>2. s \in [1 .. Len(s) -> T]
  BY <1>1
<1> QED
  BY <1>1, <1>2, SeqDef

\* A frame more, a frame changed and a frame less.
LEMMA Push ==
  ASSUME StackOK, NEW s, stack' = Append(stack, s)
  PROVE  /\ Len(stack) \in Nat /\ Len(stack') = Len(stack) + 1
         /\ stack' \in Seq({stack'[f] : f \in DOMAIN stack'})
         /\ \A f \in 1 .. Len(stack) : stack'[f] = stack[f]
         /\ stack'[Len(stack) + 1] = s
<1> DEFINE S == {stack[f] : f \in DOMAIN stack} \cup {s}
<1>1. stack \in Seq(S)
  BY DEF StackOK
<1>2. /\ Len(stack) \in Nat /\ stack' \in Seq(S) /\ Len(stack') = Len(stack) + 1
      /\ DOMAIN stack' = 1 .. Len(stack')
      /\ \A f \in 1 .. Len(stack) : stack'[f] = stack[f]
      /\ stack'[Len(stack) + 1] = s
  BY <1>1
<1> QED
  BY <1>2

LEMMA Change ==
  ASSUME StackOK, NEW s, stack' = [stack EXCEPT ![Len(stack)] = s], Len(stack) > 0
  PROVE  /\ Len(stack) \in Nat /\ Len(stack') = Len(stack)
         /\ stack' \in Seq({stack'[f] : f \in DOMAIN stack'})
         /\ \A f \in 1 .. Len(stack) : stack'[f] = IF f = Len(stack) THEN s ELSE stack[f]
<1> DEFINE S == {stack[f] : f \in DOMAIN stack} \cup {s}
<1>1. stack \in Seq(S)
  BY DEF StackOK
<1>2. /\ Len(stack) \in Nat /\ stack' \in Seq(S) /\ Len(stack') = Len(stack)
      /\ DOMAIN stack' = 1 .. Len(stack')
  BY <1>1
<1>3. \A f \in 1 .. Len(stack) : stack'[f] = IF f = Len(stack) THEN s ELSE stack[f]
  BY <1>1
<1>4. stack' \in Seq({stack'[f] : f \in DOMAIN stack'})
  <2>1. stack' \in Seq(S)
    BY <1>2
  <2> DEFINE T == {stack'[f] : f \in DOMAIN stack'}
  <2>2. \A f \in DOMAIN stack' : stack'[f] \in T
    OBVIOUS
  <2> HIDE DEF S, T
  <2>3. stack' \in Seq(T)
    BY <2>1, <2>2, Elements
  <2> QED
    BY <2>3 DEF T
<1> QED
  BY <1>2, <1>3, <1>4

LEMMA Pop ==
  ASSUME StackOK, stack' = SubSeq(stack, 1, Len(stack) - 1), Len(stack) > 0
  PROVE  /\ Len(stack) \in Nat /\ Len(stack') = Len(stack) - 1
         /\ stack' \in Seq({stack'[f] : f \in DOMAIN stack'})
         /\ \A f \in 1 .. Len(stack') : stack'[f] = stack[f]
<1> DEFINE S == {stack[f] : f \in DOMAIN stack}
           n == Len(stack) - 1
<1>1. stack \in Seq(S) /\ Len(stack) \in Nat /\ n \in Nat /\ DOMAIN stack = 1 .. n + 1
  BY DEF StackOK
<1>2. \A f \in 1 .. n : stack[f] \in S
  BY <1>1
<1> HIDE DEF S, n
<1>3. /\ SubSeq(stack, 1, n) \in Seq(S)
      /\ Len(SubSeq(stack, 1, n)) = n
      /\ \A f \in 1 .. n : SubSeq(stack, 1, n)[f] = stack[f]
  BY <1>1, <1>2, SubSeqProperties
<1>4. stack' = SubSeq(stack, 1, n)
  BY DEF n
<1>5. stack' \in Seq({stack'[f] : f \in DOMAIN stack'})
  <2>1. stack' \in Seq(S)
    BY <1>3, <1>4
  <2> DEFINE T == {stack'[f] : f \in DOMAIN stack'}
  <2>2. \A f \in DOMAIN stack' : stack'[f] \in T
    OBVIOUS
  <2> HIDE DEF S, T
  <2>3. stack' \in Seq(T)
    BY <2>1, <2>2, Elements
  <2> QED
    BY <2>3 DEF T
<1> QED
  BY <1>1, <1>3, <1>4, <1>5 DEF n

\* A step of the walk keeps one handle per stream.
LEMMA WalkKeeps == ASSUME HandleInv, Walk PROVE HandleInv'
<1> USE DEF HandleInv, StackOK, Walking, GoTo
<1>1. ASSUME UNCHANGED <<stack, handles>>, DOMAIN walk' = DOMAIN walk,
             walk.state # "close", walk'.state # "close",
             walk'.state \in {"read", "entry"} => Len(stack) > 0
      PROVE  HandleInv'
  BY <1>1
<1>2. CASE RefuseFolder \/ FolderFails
  <2>1. stack # << >> => Len(stack) > 0
    OBVIOUS
  <2> QED
    BY <1>1, <1>2, <2>1 DEF RefuseFolder, FolderFails, Return
<1>3. CASE TakeFolder \/ SkipFolder \/ TakeFile \/ FileFails
  BY <1>1, <1>3 DEF TakeFolder, SkipFolder, TakeFile, FileFails
<1>4. CASE EnterFolder
  <2> DEFINE s == Stream(entry.to)
  <2>1. /\ stack' = Append(stack, s) /\ handles' = handles + 1
        /\ walk.state = "enter" /\ walk'.state = "read" /\ DOMAIN walk' = DOMAIN walk
    BY <1>4 DEF EnterFolder
  <2>2. DOMAIN s = Frame /\ s.open
    BY DEF Stream, Frame
  <2> HIDE DEF s
  <2> QED
    BY <2>1, <2>2, Push
<1>5. CASE ReadEntry
  <2> DEFINE s == NextEntry(Top)
  <2>1. /\ stack' = [stack EXCEPT ![Len(stack)] = s] /\ handles' = handles /\ Len(stack) > 0
        /\ walk.state = "read" /\ walk'.state = "entry" /\ DOMAIN walk' = DOMAIN walk
    BY <1>5 DEF ReadEntry
  <2>2. DOMAIN s = Frame /\ s.open = Top.open
    BY <2>1 DEF NextEntry, Top, Frame
  <2> HIDE DEF s
  <2>3. /\ Len(stack) \in Nat /\ Len(stack') = Len(stack)
        /\ stack' \in Seq({stack'[f] : f \in DOMAIN stack'})
        /\ \A f \in 1 .. Len(stack) : stack'[f] = IF f = Len(stack) THEN s ELSE stack[f]
    BY <2>1, Change
  <2>4. StackOK'
    BY <2>1, <2>2, <2>3
  <2>5. s.open
    BY <2>1, <2>2 DEF Top
  <2> QED
    BY <2>1, <2>3, <2>4, <2>5
<1>6. CASE ReadEnd
  <2> DEFINE s == [Top EXCEPT !.open = FALSE]
  <2>1. /\ stack' = [stack EXCEPT ![Len(stack)] = s] /\ handles' = handles - 1 /\ Len(stack) > 0
        /\ walk.state = "read" /\ walk'.state = "close" /\ DOMAIN walk' = DOMAIN walk
    BY <1>6 DEF ReadEnd, Top
  <2>2. DOMAIN s = Frame /\ ~s.open
    BY <2>1 DEF Top, Frame
  <2> HIDE DEF s
  <2>3. /\ Len(stack) \in Nat /\ Len(stack') = Len(stack)
        /\ stack' \in Seq({stack'[f] : f \in DOMAIN stack'})
        /\ \A f \in 1 .. Len(stack) : stack'[f] = IF f = Len(stack) THEN s ELSE stack[f]
    BY <2>1, Change
  <2>4. StackOK'
    BY <2>1, <2>2, <2>3
  <2> QED
    BY <2>1, <2>2, <2>3, <2>4, ZenonT(30)
<1>7. CASE CloseFolder
  <2>1. /\ stack' = SubSeq(stack, 1, Len(stack) - 1) /\ handles' = handles - Closes(Top)
        /\ Len(stack) > 0 /\ walk.state = "close" /\ DOMAIN walk' = DOMAIN walk
        /\ walk'.state = IF Len(stack) = 1 THEN "done" ELSE "read"
    BY <1>7 DEF CloseFolder
  <2>2. Closes(Top) = 0
    BY <2>1 DEF Closes, Top
  <2>3. /\ Len(stack) \in Nat /\ Len(stack') = Len(stack) - 1
        /\ stack' \in Seq({stack'[f] : f \in DOMAIN stack'})
        /\ \A f \in 1 .. Len(stack') : stack'[f] = stack[f]
    BY <2>1, Pop
  <2>4. \A f \in 1 .. Len(stack') : f \in 1 .. Len(stack) /\ f # Len(stack)
    BY <2>3
  <2>5. walk'.state \in {"read", "entry", "close"} => Len(stack') > 0
    BY <2>1, <2>3
  <2>6. StackOK'
    BY <2>1, <2>3, <2>4, <2>5
  <2>7. \A f \in 1 .. Len(stack') : stack'[f].open
    BY <2>1, <2>3, <2>4
  <2>8. handles' = Len(stack')
    BY <2>1, <2>2, <2>3
  <2>9. walk'.state # "close"
    BY <2>1
  <2> QED
    BY <2>6, <2>7, <2>8, <2>9
<1> QED
  BY <1>2, <1>3, <1>4, <1>5, <1>6, <1>7 DEF Walk

\* So does every other step of the tool.
LEMMA ToolKeeps == ASSUME HandleInv, [Next]_vars PROVE HandleInv'
<1> USE DEF walkVars
<1>1. ASSUME UNCHANGED <<walk, stack, handles>> PROVE HandleInv'
  BY <1>1 DEF HandleInv, StackOK
<1>2. CASE StartFolder
  <2>1. /\ UNCHANGED <<stack, handles>> /\ walk.state = "idle" /\ walk'.state = "enter"
        /\ DOMAIN walk' = {"op", "recursively", "root", "state"}
    BY <1>2 DEF StartFolder, BeginWalk, Doing
  <2> QED
    BY <2>1 DEF HandleInv, StackOK
<1>3. CASE EndFolder
  <2>1. /\ UNCHANGED <<stack, handles>> /\ walk.state = "done" /\ walk'.state = "idle"
        /\ DOMAIN walk' = {"op", "recursively", "root", "state"}
    BY <1>3 DEF EndFolder, Walking, NoWalk
  <2> QED
    BY <2>1 DEF HandleInv, StackOK
<1>4. CASE WalkFolder
  BY <1>4, WalkKeeps DEF WalkFolder
<1>5. CASE Parse
  BY <1>1, <1>5 DEF Parse, ParseFlag, ParseNumber, ParseText, ParseFolder, ParseDb, Parsed,
     RefuseArgument, RefuseFlags, Exit, StartWork, LoadFails, LoadHangs, Hang, WithDb
<1>6. CASE ClearDatabase \/ FolderEndsTool \/ SaveDatabase \/ AddSystemHashes \/ StartDumps
  BY <1>1, <1>6 DEF ClearDatabase, FolderEndsTool, SaveDatabase, AddSystemHashes, StartDumps,
     WithDb, Exit
<1>7. CASE Dump \/ User
  BY <1>1, <1>7 DEF Dump, DumpPid, DumpRegion, FindProcesses, DumpMatch, CollectMatch, EndMatches,
     DumpSystem, SystemHangs, Finish, User, AnswerYes, AnswerNo, QuitMonitor, QuitHangs, WithDb,
     Exit, Hang
<1>8. CASE (\E k \in DOMAIN Processes : ProcessEnds(k)) \/ Over \/ UNCHANGED vars
  BY <1>1, <1>8 DEF ProcessEnds, Over, vars
<1> QED
  BY <1>2, <1>3, <1>4, <1>5, <1>6, <1>7, <1>8 DEF Next, Tool, DbCommand

\* A search handle is open for every directory stream that is not at its end, and for
\* nothing else, whatever fails in the walk and however deep it goes.
THEOREM HandlesHold == Spec => []HandlesKept
<1>1. Init => HandleInv
  BY DEF Init, WalkInit, NoWalk, HandleInv, StackOK
<1>2. HandleInv /\ [Next]_vars => HandleInv'
  BY ToolKeeps
<1>3. HandleInv => HandlesKept
  <2> SUFFICES ASSUME HandleInv PROVE HandlesKept
    OBVIOUS
  <2> DEFINE n == IF walk.state = "close" THEN Len(stack) - 1 ELSE Len(stack)
  <2>1. Len(stack) \in Nat /\ DOMAIN stack = 1 .. Len(stack) /\ n \in Nat
    BY DEF HandleInv, StackOK
  <2>2. {f \in DOMAIN stack : stack[f].open} = 1 .. n
    <3>1. \A f \in 1 .. Len(stack) : stack[f].open <=> f \in 1 .. n
      <4>1. CASE walk.state = "close"
        BY <2>1, <4>1 DEF HandleInv
      <4>2. CASE walk.state # "close"
        BY <2>1, <4>2 DEF HandleInv
      <4> QED
        BY <4>1, <4>2
    <3>2. 1 .. n \subseteq 1 .. Len(stack)
      BY <2>1
    <3> HIDE DEF n
    <3> QED
      BY <2>1, <3>1, <3>2
  <2>3. Cardinality(1 .. n) = n
    <3> HIDE DEF n
    <3> QED
      BY <2>1, FS_Interval
  <2> QED
    BY <2>2, <2>3 DEF HandleInv, HandlesKept
<1> QED
  BY <1>1, <1>2, <1>3, PTL DEF Spec
-----------------------------------------------------------------------------
(* What is below a folder.                                                 *)

LEMMA LenOfPath ==
  ASSUME NEW S, NEW l \in Nat, NEW p \in [1 .. l -> S]
  PROVE  p \in Seq(S) /\ Len(p) = l
<1>1. p \in Seq(S)
  BY SeqDef
<1>2. Len(p) \in Nat /\ 1 .. Len(p) = 1 .. l
  BY <1>1, LenProperties
<1> QED
  BY <1>1, <1>2

\* The entries of a folder.
LEMMA EntryFacts ==
  ASSUME NEW d \in Dirs
  PROVE  /\ Entries[d] \in Seq([kind : {"self", "parent", "dir", "file"},
                                name : Names,
                                to : Dirs \cup DOMAIN HashOf])
         /\ Len(Entries[d]) \in Nat \ {0} /\ DOMAIN Entries[d] = 1 .. Len(Entries[d])
         /\ \A j \in DOMAIN Entries[d] :
              /\ Entries[d][j] \in [kind : {"self", "parent", "dir", "file"},
                                    name : Names,
                                    to : Dirs \cup DOMAIN HashOf]
              /\ Entries[d][j].kind = "file" => Entries[d][j].to \in DOMAIN HashOf
              /\ Entries[d][j].kind # "file" => Entries[d][j].to \in Dirs
<1> DEFINE R == [kind : {"self", "parent", "dir", "file"},
                 name : Names, to : Dirs \cup DOMAIN HashOf]
<1>1. Entries[d] \in Seq(R)
  BY FolderAssumption
<1> HIDE DEF R
<1>2. /\ Len(Entries[d]) \in Nat /\ DOMAIN Entries[d] = 1 .. Len(Entries[d])
      /\ \A j \in DOMAIN Entries[d] : Entries[d][j] \in R
  BY <1>1
<1>3. /\ Len(Entries[d]) > 0
      /\ \A j \in DOMAIN Entries[d] :
           Entries[d][j].to \in IF Entries[d][j].kind = "file" THEN DOMAIN HashOf ELSE Dirs
  BY FolderAssumption
<1> QED
  BY <1>1, <1>2, <1>3 DEF R

IsProgram(e, h, without) == e.kind = "file" /\ e.to \notin without /\ h = HashOf[e.to]

LEMMA HashesAre ==
  ASSUME NEW D \in SUBSET Dirs, NEW without, NEW h
  PROVE  h \in HashesIn(D, without) <=>
           h # NoHash /\ \E d \in D : \E j \in DOMAIN Entries[d] : IsProgram(Entries[d][j], h, without)
<1>1. ASSUME h \in HashesIn(D, without)
      PROVE  h # NoHash /\ \E d \in D : \E j \in DOMAIN Entries[d] :
                              IsProgram(Entries[d][j], h, without)
  <2>1. PICK g \in DOMAIN HashOf \ without :
            /\ h = HashOf[g] /\ h # NoHash
            /\ \E d \in D : \E j \in DOMAIN Entries[d] :
                 Entries[d][j].kind = "file" /\ Entries[d][j].to = g
    BY <1>1 DEF HashesIn
  <2> QED
    BY <2>1 DEF IsProgram
<1>2. ASSUME h # NoHash, NEW d \in D, NEW j \in DOMAIN Entries[d],
             IsProgram(Entries[d][j], h, without)
      PROVE  h \in HashesIn(D, without)
  <2>1. Entries[d][j].to \in DOMAIN HashOf
    BY <1>2, EntryFacts DEF IsProgram
  <2> QED
    BY <1>2, <2>1 DEF HashesIn, IsProgram
<1> QED
  BY <1>1, <1>2

\* Fewer folders with fewer files have fewer hashes.
LEMMA HashesLess ==
  ASSUME NEW C \in SUBSET Dirs, NEW D, NEW without, NEW without2,
         C \subseteq D, without2 \subseteq without
  PROVE  HashesIn(C, without) \subseteq HashesIn(D, without2)
BY DEF HashesIn

LEMMA BelowAreDirs ==
  ASSUME NEW op, NEW deep, NEW d, NEW n \in Int, NEW without
  PROVE  Below(op, deep, d, n, without) \subseteq Dirs
<1>1. ASSUME NEW l \in 1 .. n, NEW p \in [1 .. l -> Dirs] PROVE p[Len(p)] \in Dirs
  <2>1. l \in Nat /\ Len(p) = l
    BY LenOfPath
  <2> QED
    BY <2>1
<1> QED
  BY <1>1 DEF Below, Paths

\* Who passes by more reaches less.
LEMMA BelowLess ==
  ASSUME NEW op, NEW deep, NEW d, NEW n \in Int, NEW without, NEW more, without \subseteq more
  PROVE  HashesIn(Below(op, deep, d, n, more), more)
           \subseteq HashesIn(Below(op, deep, d, n, without), without)
<1>1. Paths(op, deep, d, n, more) \subseteq Paths(op, deep, d, n, without)
  BY DEF Paths
<1>2. Below(op, deep, d, n, more) \subseteq Below(op, deep, d, n, without)
  BY <1>1 DEF Below
<1>3. Below(op, deep, d, n, more) \in SUBSET Dirs
  BY BelowAreDirs
<1> QED
  BY <1>2, <1>3, HashesLess

\* Nothing is below a folder that is not entered.
LEMMA BelowNothing ==
  ASSUME NEW op, NEW deep, NEW d, NEW n \in Int, NEW without,
         n <= 0 \/ d \notin Enterable(op) \ without
  PROVE  HashesIn(Below(op, deep, d, n, without), without) = {}
<1>1. Paths(op, deep, d, n, without) = {}
  <2> SUFFICES ASSUME NEW p \in Paths(op, deep, d, n, without) PROVE FALSE
    OBVIOUS
  <2>1. PICK l \in 1 .. n : p \in [1 .. l -> Dirs]
    BY DEF Paths
  <2>2. p[1] = d /\ p[1] \in Enterable(op) \ without
    BY <2>1 DEF Paths
  <2> QED
    BY <2>1, <2>2
<1> QED
  BY <1>1 DEF Below, HashesIn

\* What is below a folder is in it, or below a folder in it.
LEMMA BelowTail ==
  ASSUME NEW op, NEW deep, NEW d, NEW n \in Int, NEW without,
         NEW x \in Below(op, deep, d, n, without), x # d
  PROVE  deep /\ \E e \in Subfolders(d) : x \in Below(op, deep, e, n - 1, without)
<1>1. PICK p \in Paths(op, deep, d, n, without) : x = p[Len(p)]
  BY DEF Below
<1>2. PICK l \in 1 .. n : p \in [1 .. l -> Dirs]
  BY <1>1 DEF Paths
<1> DEFINE E == Enterable(op) \ without
<1>3. /\ p[1] = d
      /\ \A f \in 1 .. l : p[f] \in E
      /\ \A f \in 2 .. l : deep /\ p[f] \in Subfolders(p[f - 1])
  <2>1. /\ p[1] = d /\ \A f \in DOMAIN p : p[f] \in E
        /\ \A f \in DOMAIN p \ {1} : deep /\ p[f] \in Subfolders(p[f - 1])
    BY <1>1 DEF Paths
  <2>2. DOMAIN p = 1 .. l /\ \A f \in 2 .. l : f \in 1 .. l /\ f # 1
    BY <1>2
  <2> HIDE DEF E
  <2> QED
    BY <2>1, <2>2
<1> HIDE DEF E
<1>4. Len(p) = l
  BY <1>2, LenOfPath
<1>5. l >= 2 /\ l - 1 \in 1 .. n - 1 /\ l - 1 \in Nat
  BY <1>1, <1>2, <1>3, <1>4
<1> DEFINE q == [f \in 1 .. l - 1 |-> p[f + 1]]
<1>6. q \in [1 .. l - 1 -> Dirs]
  BY <1>2, <1>5
<1>7. Len(q) = l - 1 /\ q[l - 1] = x
  <2>1. Len(q) = l - 1
    BY <1>5, <1>6, LenOfPath
  <2> QED
    BY <1>1, <1>4, <1>5, <2>1
<1>8. q \in Paths(op, deep, p[2], n - 1, without)
  <2>1. q[1] = p[2] /\ \A f \in DOMAIN q : q[f] \in E
    BY <1>2, <1>3, <1>5
  <2>2. \A f \in DOMAIN q \ {1} : deep /\ q[f] \in Subfolders(q[f - 1])
    BY <1>2, <1>3, <1>5
  <2> HIDE DEF q
  <2> QED
    BY <1>5, <1>6, <2>1, <2>2 DEF Paths, E
<1>9. x \in Below(op, deep, p[2], n - 1, without)
  <2> HIDE DEF q
  <2> QED
    BY <1>7, <1>8 DEF Below
<1> QED
  BY <1>3, <1>5, <1>9

\* What an entry of a folder has for the walk, if n names may follow.
Leads(e) == e.kind = "dir"
Yield(op, deep, e, n, without) ==
  (IF e.kind = "file" /\ e.to \notin without THEN {HashOf[e.to]} \ {NoHash} ELSE {}) \cup
  (IF deep /\ Leads(e) THEN HashesIn(Below(op, deep, e.to, n, without), without) ELSE {})

LEMMA YieldLess ==
  ASSUME NEW op, NEW deep, NEW e, NEW n \in Int, NEW without, NEW more, without \subseteq more
  PROVE  Yield(op, deep, e, n, more) \subseteq Yield(op, deep, e, n, without)
<1>1. HashesIn(Below(op, deep, e.to, n, more), more)
        \subseteq HashesIn(Below(op, deep, e.to, n, without), without)
  BY BelowLess
<1> QED
  BY <1>1 DEF Yield

LEMMA FolderYields ==
  ASSUME NEW op, NEW deep, NEW d \in Dirs, NEW n \in Int, NEW without,
         NEW h \in HashesIn(Below(op, deep, d, n, without), without)
  PROVE  \E j \in DOMAIN Entries[d] : h \in Yield(op, deep, Entries[d][j], n - 1, without)
<1>1. h # NoHash /\ \E x \in Below(op, deep, d, n, without) :
                       \E j \in DOMAIN Entries[x] : IsProgram(Entries[x][j], h, without)
  BY BelowAreDirs, HashesAre
<1>2. PICK x \in Below(op, deep, d, n, without) :
          \E j \in DOMAIN Entries[x] : IsProgram(Entries[x][j], h, without)
  BY <1>1
<1>3. CASE x = d
  BY <1>1, <1>2, <1>3 DEF Yield, IsProgram
<1>4. CASE x # d
  <2>1. PICK e \in Subfolders(d) : deep /\ x \in Below(op, deep, e, n - 1, without)
    BY <1>4, BelowTail
  <2>2. h \in HashesIn(Below(op, deep, e, n - 1, without), without)
    <3> DEFINE D == Below(op, deep, e, n - 1, without)
    <3>1. D \in SUBSET Dirs
      BY BelowAreDirs
    <3>2. x \in D
      BY <2>1
    <3> HIDE DEF D
    <3>3. h \in HashesIn(D, without)
      BY <1>1, <1>2, <3>1, <3>2, HashesAre
    <3> QED
      BY <3>3 DEF D
  <2>3. PICK j \in DOMAIN Entries[d] : Leads(Entries[d][j]) /\ Entries[d][j].to = e
    BY DEF Subfolders, Leads
  <2> QED
    BY <2>1, <2>2, <2>3 DEF Yield
<1> QED
  BY <1>3, <1>4
-----------------------------------------------------------------------------
(* The walk is exact.                                                      *)

\* A frame stands at an entry of a folder that may be entered.
FrameInv ==
  /\ Len(stack) <= MaxPath
  /\ \A f \in 1 .. Len(stack) :
       /\ stack[f].dir \in Enterable(walk.op) \cap Dirs
       /\ stack[f].at \in 1 .. Len(Entries[stack[f].dir])
       /\ stack[f].cached => stack[f].at = 1

\* A frame stands at the entry of the folder that was entered next.
Called(s, dir) ==
  /\ walk.recursively /\ ~s.cached
  /\ Leads(Entries[s.dir][s.at]) /\ Entries[s.dir][s.at].to = dir
CallInv ==
  /\ Len(stack) > 0 => stack[1].dir = walk.root
  /\ \A f \in 1 .. Len(stack) - 1 : Called(stack[f], stack[f + 1].dir)

\* What the walk is about to do is about the entry at which the top frame stands.
EntryInv ==
  /\ walk.state \in {"idle", "enter", "read", "entry", "close", "done"}
  /\ walk.state \in {"idle", "done"} => Len(stack) = 0
  /\ walk.state # "idle" => walk.root \in Dirs /\ walk.op \in {"add", "remove"}
  /\ walk.state = "entry" => ~Top.cached /\ entry = Entries[Top.dir][Top.at]
  /\ walk.state = "enter" =>
       /\ entry.to \in Dirs
       /\ Len(stack) = 0 => entry.to = walk.root
       /\ Len(stack) > 0 => Called(Top, entry.to)
  /\ walk.state = "close" =>
       Top.dir \in skipped \/ (~Top.cached /\ Top.at = Len(Entries[Top.dir]))

\* Nothing is done that the walk is not there for.
Reached(w) == Below(w.op, w.recursively, w.root, MaxPath, {})
SoundInv ==
  walk.state # "idle" =>
    /\ walk.op = "add" =>
         before \subseteq db /\ db \subseteq before \cup HashesBelow(walk, {})
    /\ walk.op # "add" =>
         db \subseteq before /\ before \ HashesBelow(walk, {}) \subseteq db

\* What the entries have for the walk that were passed is done, but for what has been
\* skipped up to now.
Cov(op, held, hs) == IF op = "add" THEN hs \subseteq held ELSE hs \cap held = {}
Passed(f, j) ==
  /\ ~stack[f].cached
  /\ j < stack[f].at \/ (f = Len(stack) /\ walk.state \in {"read", "close"})
FrameYield(f, j) ==
  Yield(walk.op, walk.recursively, Entries[stack[f].dir][j], MaxPath - f, skipped)
CoverInv ==
  walk.state # "idle" =>
    /\ \A f \in 1 .. Len(stack) : \A j \in 1 .. stack[f].at :
         Passed(f, j) => Cov(walk.op, db, FrameYield(f, j))
    /\ walk.state = "done" => Cov(walk.op, db, HashesBelow(walk, skipped))

LEMMA Goes ==
  ASSUME StackOK, NEW s, GoTo(s)
  PROVE  /\ walk'.state = s /\ walk'.op = walk.op /\ walk'.recursively = walk.recursively
         /\ walk'.root = walk.root
         /\ \A without : HashesBelow(walk', without) = HashesBelow(walk, without)
<1>1. /\ walk'.state = s /\ walk'.op = walk.op /\ walk'.recursively = walk.recursively
      /\ walk'.root = walk.root
  BY DEF StackOK, GoTo
<1> QED
  BY <1>1 DEF HashesBelow

\* A step that leaves the stack alone.
LEMMA FramesStay ==
  ASSUME StackOK, FrameInv, CallInv, NEW s, GoTo(s), UNCHANGED stack
  PROVE  FrameInv' /\ CallInv'
<1>1. /\ walk'.op = walk.op /\ walk'.recursively = walk.recursively /\ walk'.root = walk.root
  BY Goes
<1>2. FrameInv'
  BY <1>1 DEF FrameInv, Enterable
<1>3. CallInv'
  BY <1>1 DEF CallInv, Called
<1> QED
  BY <1>2, <1>3

\* A frame changed on top that stays at its folder.
LEMMA FramesChange ==
  ASSUME StackOK, FrameInv, CallInv, NEW state, GoTo(state), Len(stack) > 0,
         NEW s, stack' = [stack EXCEPT ![Len(stack)] = s],
         s.dir = Top.dir, s.at \in 1 .. Len(Entries[s.dir]), s.cached => s.at = 1
  PROVE  FrameInv' /\ CallInv' /\ Top' = s /\ Len(stack') = Len(stack)
<1>1. /\ walk'.op = walk.op /\ walk'.recursively = walk.recursively /\ walk'.root = walk.root
  BY Goes
<1>2. /\ Len(stack) \in Nat /\ Len(stack') = Len(stack)
      /\ \A f \in 1 .. Len(stack) : stack'[f] = IF f = Len(stack) THEN s ELSE stack[f]
  BY Change
<1>3. \A f \in 1 .. Len(stack) : stack'[f].dir = stack[f].dir
  BY <1>2 DEF Top
<1>4. FrameInv'
  <2>1. Len(stack') <= MaxPath
    BY <1>2 DEF FrameInv
  <2>2. ASSUME NEW f \in 1 .. Len(stack')
        PROVE  /\ stack'[f].dir \in Enterable(walk'.op) \cap Dirs
               /\ stack'[f].at \in 1 .. Len(Entries[stack'[f].dir])
               /\ stack'[f].cached => stack'[f].at = 1
    <3>1. f \in 1 .. Len(stack)
      BY <1>2
    <3>2. stack[f].dir \in Enterable(walk.op) \cap Dirs
      BY <3>1 DEF FrameInv
    <3>3. CASE f = Len(stack)
      BY <1>1, <1>2, <1>3, <3>1, <3>2, <3>3
    <3>4. CASE f # Len(stack)
      BY <1>1, <1>2, <3>1, <3>4 DEF FrameInv
    <3> QED
      BY <3>3, <3>4
  <2> QED
    BY <2>1, <2>2 DEF FrameInv, Enterable
<1>5. CallInv'
  <2>1. Len(stack') > 0 => stack'[1].dir = walk'.root
    <3>1. stack[1].dir = walk.root /\ 1 \in 1 .. Len(stack)
      BY <1>2 DEF CallInv
    <3> QED
      BY <1>1, <1>3, <3>1
  <2>2. ASSUME NEW f \in 1 .. Len(stack') - 1
        PROVE  Called(stack[f], stack[f + 1].dir) /\ stack'[f] = stack[f]
               /\ stack'[f + 1].dir = stack[f + 1].dir
    <3>1. f \in 1 .. Len(stack) - 1 /\ f + 1 \in 1 .. Len(stack) /\ f # Len(stack)
          /\ f \in 1 .. Len(stack)
      BY <1>2
    <3> QED
      BY <1>2, <1>3, <3>1 DEF CallInv
  <2> QED
    BY <1>1, <2>1, <2>2 DEF CallInv, Called
<1> QED
  BY <1>2, <1>4, <1>5 DEF Top

\* The frames, the calls and the entry fit together.
LEMMA WalkFits ==
  ASSUME HandleInv, FrameInv, CallInv, EntryInv, Walk
  PROVE  FrameInv' /\ CallInv' /\ EntryInv'
<1> USE FolderAssumption DEF Walking
<1>1. StackOK /\ Len(stack) \in Nat
  BY DEF HandleInv, StackOK
<1>2. Len(stack) > 0 => /\ Top.dir \in Dirs /\ Top.at \in 1 .. Len(Entries[Top.dir])
                        /\ Top.cached => Top.at = 1
                        /\ DOMAIN Top = Frame
  BY <1>1 DEF FrameInv, Top, StackOK
<1>3. CASE RefuseFolder \/ FolderFails
  <2>1. UNCHANGED stack /\ GoTo(Return) /\ walk.state = "enter"
    BY <1>3 DEF RefuseFolder, FolderFails
  <2>2. walk'.state = Return /\ walk'.root = walk.root /\ walk'.op = walk.op
    BY <1>1, <2>1, Goes
  <2>3. Return \in {"read", "done"} /\ (Return = "done" => Len(stack) = 0)
    BY DEF Return
  <2>4. EntryInv'
    BY <2>1, <2>2, <2>3 DEF EntryInv
  <2> QED
    BY <1>1, <2>1, <2>4, FramesStay
<1>4. CASE SkipFolder \/ TakeFile \/ FileFails
  <2>1. UNCHANGED stack /\ GoTo("read") /\ walk.state = "entry"
    BY <1>4 DEF SkipFolder, TakeFile, FileFails
  <2>2. walk'.state = "read" /\ walk'.root = walk.root /\ walk'.op = walk.op
    BY <1>1, <2>1, Goes
  <2>3. EntryInv'
    BY <2>1, <2>2 DEF EntryInv
  <2> QED
    BY <1>1, <2>1, <2>3, FramesStay
<1>5. CASE TakeFolder
  <2>1. UNCHANGED <<stack, entry>> /\ GoTo("enter") /\ walk.state = "entry" /\ Follow
    BY <1>5 DEF TakeFolder
  <2>2. /\ walk'.state = "enter" /\ walk'.root = walk.root /\ walk'.op = walk.op
        /\ walk'.recursively = walk.recursively
    BY <1>1, <2>1, Goes
  <2>3. Len(stack) > 0 /\ ~Top.cached /\ entry = Entries[Top.dir][Top.at]
    BY <2>1 DEF HandleInv, StackOK, EntryInv
  <2>4. Leads(entry) /\ walk.recursively
    BY <2>1 DEF Follow, IsFolder, Leads
  <2>5. entry.to \in Dirs
    BY <1>2, <2>3, <2>4, EntryFacts DEF Leads
  <2>6. Called(Top, entry.to)'
    BY <2>1, <2>2, <2>3, <2>4 DEF Called, Top
  <2>7. walk'.root \in Dirs /\ walk'.op \in {"add", "remove"}
    BY <2>1, <2>2 DEF EntryInv
  <2>8. EntryInv'
    BY <2>1, <2>2, <2>3, <2>5, <2>6, <2>7 DEF EntryInv
  <2> QED
    BY <1>1, <2>1, <2>8, FramesStay
<1>6. CASE EnterFolder
  <2> DEFINE s == Stream(entry.to)
  <2>1. /\ stack' = Append(stack, s) /\ GoTo("read") /\ walk.state = "enter"
        /\ ~Refused /\ ~TooLong
    BY <1>6 DEF EnterFolder
  <2>2. /\ walk'.state = "read" /\ walk'.root = walk.root /\ walk'.op = walk.op
        /\ walk'.recursively = walk.recursively
    BY <1>1, <2>1, Goes
  <2>3. /\ s.dir = entry.to /\ s.at = 1 /\ s.cached
    BY DEF Stream
  <2>4. entry.to \in Dirs \cap Enterable(walk.op) /\ Len(Entries[entry.to]) \in Nat \ {0}
    <3>1. entry.to \in Dirs
      BY <2>1 DEF EntryInv
    <3>2. entry.to \in Enterable(walk.op)
      BY <2>1, <3>1 DEF Enterable, Refused
    <3> QED
      BY <3>1, <3>2, EntryFacts
  <2>5. Len(stack) < MaxPath /\ MaxPath \in Nat
    BY <1>1, <2>1 DEF TooLong
  <2> HIDE DEF s
  <2>6. /\ Len(stack') = Len(stack) + 1 /\ stack'[Len(stack) + 1] = s
        /\ \A f \in 1 .. Len(stack) : stack'[f] = stack[f]
    BY <1>1, <2>1, Push
  <2>7. FrameInv'
    <3>1. ASSUME NEW f \in 1 .. Len(stack')
          PROVE  /\ stack'[f].dir \in Enterable(walk'.op) \cap Dirs
                 /\ stack'[f].at \in 1 .. Len(Entries[stack'[f].dir])
                 /\ stack'[f].cached => stack'[f].at = 1
      <4>1. CASE f \in 1 .. Len(stack)
        BY <2>2, <2>6, <4>1 DEF FrameInv
      <4>2. CASE f = Len(stack) + 1
        BY <2>2, <2>3, <2>4, <2>6, <4>2
      <4> QED
        BY <1>1, <2>6, <4>1, <4>2
    <3>2. Len(stack') <= MaxPath
      BY <1>1, <2>5, <2>6
    <3> QED
      BY <3>1, <3>2 DEF FrameInv, Enterable
  <2>8. CallInv'
    <3>1. stack'[1].dir = walk'.root
      <4>1. CASE Len(stack) = 0
        BY <2>1, <2>2, <2>3, <2>6, <4>1 DEF EntryInv
      <4>2. CASE Len(stack) > 0
        BY <1>1, <2>2, <2>6, <4>2 DEF CallInv
      <4> QED
        BY <1>1, <4>1, <4>2
    <3>2. ASSUME NEW f \in 1 .. Len(stack') - 1
          PROVE  Called(stack[f], stack'[f + 1].dir) /\ stack'[f] = stack[f]
      <4>1. CASE f = Len(stack)
        BY <1>1, <2>1, <2>3, <2>6, <4>1 DEF EntryInv, Top
      <4>2. CASE f \in 1 .. Len(stack) - 1
        BY <1>1, <2>6, <4>2 DEF CallInv
      <4> QED
        BY <1>1, <2>6, <4>1, <4>2
    <3> QED
      BY <2>2, <3>1, <3>2 DEF CallInv, Called
  <2>9. EntryInv'
    BY <1>1, <2>1, <2>2, <2>6 DEF EntryInv
  <2> QED
    BY <2>7, <2>8, <2>9
<1>7. CASE ReadEntry
  <2> DEFINE s == NextEntry(Top)
  <2>1. /\ stack' = [stack EXCEPT ![Len(stack)] = s] /\ GoTo("entry") /\ walk.state = "read"
        /\ ~AtEnd(Top) /\ entry' = Entries[s.dir][s.at] /\ Len(stack) > 0
    BY <1>7 DEF ReadEntry, HandleInv, StackOK
  <2>2. /\ walk'.state = "entry" /\ walk'.root = walk.root /\ walk'.op = walk.op
    BY <1>1, <2>1, Goes
  <2>3. Len(Entries[Top.dir]) \in Nat
    BY <1>2, <2>1, EntryFacts
  <2>4. s.dir = Top.dir /\ ~s.cached /\ s.at \in 1 .. Len(Entries[s.dir])
    <3>1. CASE Top.cached
      BY <1>2, <2>1, <3>1 DEF NextEntry, Frame
    <3>2. CASE ~Top.cached
      BY <1>2, <2>1, <2>3, <3>2 DEF NextEntry, Frame, AtEnd
    <3> QED
      BY <3>1, <3>2
  <2> HIDE DEF s
  <2>5. FrameInv' /\ CallInv' /\ Top' = s /\ Len(stack') = Len(stack)
    BY <1>1, <2>1, <2>4, FramesChange
  <2>6. EntryInv'
    BY <2>1, <2>2, <2>4, <2>5 DEF EntryInv
  <2> QED
    BY <2>5, <2>6
<1>8. CASE ReadEnd
  <2> DEFINE s == [Top EXCEPT !.open = FALSE]
  <2>1. /\ stack' = [stack EXCEPT ![Len(stack)] = s] /\ GoTo("close") /\ walk.state = "read"
        /\ Len(stack) > 0 /\ (Top.dir \in skipped' \/ AtEnd(Top))
    BY <1>8 DEF ReadEnd, HandleInv, StackOK, Top
  <2>2. /\ walk'.state = "close" /\ walk'.root = walk.root /\ walk'.op = walk.op
    BY <1>1, <2>1, Goes
  <2>3. Len(Entries[Top.dir]) \in Nat
    BY <1>2, <2>1, EntryFacts
  <2>4. s.dir = Top.dir /\ s.cached = Top.cached /\ s.at = Top.at
    BY <1>2, <2>1 DEF Frame
  <2>5. Top.open
    BY <1>1, <2>1 DEF HandleInv, Top
  <2>6. Top.dir \in skipped' \/ (~Top.cached /\ Top.at = Len(Entries[Top.dir]))
    BY <1>2, <2>1, <2>3, <2>5 DEF AtEnd
  <2> HIDE DEF s
  <2>7. FrameInv' /\ CallInv' /\ Top' = s /\ Len(stack') = Len(stack)
    BY <1>1, <1>2, <2>1, <2>4, FramesChange
  <2>8. EntryInv'
    BY <2>1, <2>2, <2>4, <2>6, <2>7 DEF EntryInv
  <2> QED
    BY <2>7, <2>8
<1>9. CASE CloseFolder
  <2> DEFINE state == IF Len(stack) = 1 THEN "done" ELSE "read"
  <2>1. /\ stack' = SubSeq(stack, 1, Len(stack) - 1) /\ GoTo(state) /\ Len(stack) > 0
        /\ walk.state = "close"
    BY <1>9 DEF CloseFolder, HandleInv, StackOK
  <2>2. /\ walk'.state = state /\ walk'.root = walk.root /\ walk'.op = walk.op
        /\ walk'.recursively = walk.recursively
    BY <1>1, <2>1, Goes
  <2>3. /\ Len(stack') = Len(stack) - 1
        /\ \A f \in 1 .. Len(stack') : stack'[f] = stack[f]
    BY <1>1, <2>1, Pop
  <2>4. FrameInv'
    BY <1>1, <2>2, <2>3 DEF FrameInv, Enterable
  <2>5. CallInv'
    <3>1. ASSUME NEW f \in 1 .. Len(stack') - 1
          PROVE  /\ f \in 1 .. Len(stack) - 1 /\ stack'[f] = stack[f]
                 /\ stack'[f + 1] = stack[f + 1]
      BY <1>1, <2>3
    <3>2. Len(stack') > 0 => stack'[1].dir = walk'.root
      BY <1>1, <2>2, <2>3 DEF CallInv
    <3> QED
      BY <2>2, <3>1, <3>2 DEF CallInv, Called
  <2>6. EntryInv'
    BY <1>1, <2>1, <2>2, <2>3 DEF EntryInv
  <2> QED
    BY <2>4, <2>5, <2>6
<1> QED
  BY <1>3, <1>4, <1>5, <1>6, <1>7, <1>8, <1>9 DEF Walk

\* Every frame is at a folder that the walk is there for.
LEMMA FramesReached ==
  ASSUME StackOK, FrameInv, CallInv, NEW f \in 1 .. Len(stack)
  PROVE  stack[f].dir \in Reached(walk)
<1>1. Len(stack) \in Nat /\ MaxPath \in Nat
  BY FolderAssumption DEF StackOK
<1>2. f \in 1 .. MaxPath /\ f \in Nat
  BY <1>1 DEF FrameInv
<1> DEFINE p == [g \in 1 .. f |-> stack[g].dir]
<1>3. p \in [1 .. f -> Dirs] /\ \A g \in 1 .. f : p[g] \in Enterable(walk.op) \ {}
  BY <1>1 DEF FrameInv
<1>4. p[1] = walk.root
  BY <1>1, <1>2 DEF CallInv
<1>5. ASSUME NEW g \in 1 .. f, g # 1
      PROVE  walk.recursively /\ p[g] \in Subfolders(p[g - 1])
  <2>1. g - 1 \in 1 .. Len(stack) - 1 /\ g - 1 \in 1 .. Len(stack) /\ g - 1 \in 1 .. f
        /\ (g - 1) + 1 = g
    BY <1>1, <1>5
  <2> DEFINE s == stack[g - 1]
  <2>2. Called(s, stack[g].dir)
    BY <2>1 DEF CallInv
  <2>3. s.dir \in Dirs /\ s.at \in 1 .. Len(Entries[s.dir])
    BY <2>1 DEF FrameInv
  <2>4. DOMAIN Entries[s.dir] = 1 .. Len(Entries[s.dir])
    BY <2>3, EntryFacts
  <2>5. stack[g].dir \in Subfolders(s.dir)
    BY <2>2, <2>3, <2>4 DEF Subfolders, Called, Leads
  <2>6. p[g - 1] = s.dir /\ p[g] = stack[g].dir
    BY <2>1
  <2> QED
    BY <2>2, <2>5, <2>6 DEF Called
<1>6. DOMAIN p = 1 .. f /\ Len(p) = f
  BY <1>2, <1>3, LenOfPath
<1>7. p[f] = stack[f].dir
  BY <1>2
<1> HIDE DEF p
<1>8. p \in Paths(walk.op, walk.recursively, walk.root, MaxPath, {})
  BY <1>2, <1>3, <1>4, <1>5, <1>6 DEF Paths
<1> QED
  BY <1>6, <1>7, <1>8 DEF Reached, Below

\* The hash of a file goes into the database, or out of it.
LEMMA FileTaken ==
  ASSUME NEW h, db' = AddFile(h)
  PROVE  /\ walk.op = "add" => db \subseteq db' /\ db' \subseteq db \cup ({h} \ {NoHash})
         /\ walk.op # "add" => db' \subseteq db /\ db \ ({h} \ {NoHash}) \subseteq db'
         /\ Cov(walk.op, db', {h} \ {NoHash})
BY DEF AddFile, Cov

LEMMA WalkSound ==
  ASSUME HandleInv, FrameInv, CallInv, EntryInv, SoundInv, Walk
  PROVE  SoundInv'
<1> USE DEF Walking
<1>1. StackOK /\ Len(stack) \in Nat
  BY DEF HandleInv, StackOK
<1>2. ASSUME UNCHANGED <<db, before>>, walk.state # "idle", NEW s, GoTo(s)
      PROVE  SoundInv'
  <2>1. walk'.op = walk.op /\ HashesBelow(walk', {}) = HashesBelow(walk, {})
    BY <1>1, <1>2, Goes
  <2> QED
    BY <1>2, <2>1 DEF SoundInv
<1>3. CASE TakeFile
  <2> DEFINE h == HashOf[entry.to]
  <2>1. /\ walk.state = "entry" /\ FileOpens(entry) /\ db' = AddFile(h) /\ before' = before
        /\ GoTo("read")
    BY <1>3 DEF TakeFile
  <2>2. walk'.op = walk.op /\ HashesBelow(walk', {}) = HashesBelow(walk, {})
    BY <1>1, <2>1, Goes
  <2>3. {h} \ {NoHash} \subseteq HashesBelow(walk, {})
    <3> DEFINE D == Reached(walk)
    <3>1. Len(stack) > 0 /\ entry = Entries[Top.dir][Top.at]
      BY <2>1 DEF EntryInv, HandleInv, StackOK
    <3>2. Len(stack) \in 1 .. Len(stack)
      BY <1>1, <3>1
    <3>3. Top.dir \in D /\ Top.dir \in Dirs /\ Top.at \in 1 .. Len(Entries[Top.dir])
      BY <1>1, <3>2, FramesReached DEF Top, FrameInv
    <3>4. Top.at \in DOMAIN Entries[Top.dir]
      BY <3>3, EntryFacts
    <3>5. IsProgram(Entries[Top.dir][Top.at], h, {})
      BY <2>1, <3>1 DEF IsProgram, FileOpens
    <3>6. D \in SUBSET Dirs
      BY BelowAreDirs, FolderAssumption DEF Reached
    <3> HIDE DEF D, h
    <3>7. h # NoHash => h \in HashesIn(D, {})
      BY <3>3, <3>4, <3>5, <3>6, HashesAre
    <3> QED
      BY <3>7 DEF D, Reached, HashesBelow
  <2> HIDE DEF h
  <2>4. /\ walk.op = "add" => db \subseteq db' /\ db' \subseteq db \cup ({h} \ {NoHash})
        /\ walk.op # "add" => db' \subseteq db /\ db \ ({h} \ {NoHash}) \subseteq db'
    BY <2>1, FileTaken
  <2> DEFINE R == HashesBelow(walk, {})
  <2>5. /\ walk.op = "add" => before \subseteq db /\ db \subseteq before \cup R
        /\ walk.op # "add" => db \subseteq before /\ before \ R \subseteq db
    BY <2>1 DEF SoundInv
  <2>6. {h} \ {NoHash} \subseteq R /\ HashesBelow(walk', {}) = R
    BY <2>2, <2>3
  <2> HIDE DEF R
  <2>7. /\ walk.op = "add" => before \subseteq db' /\ db' \subseteq before \cup R
        /\ walk.op # "add" => db' \subseteq before /\ before \ R \subseteq db'
    BY <2>4, <2>5, <2>6
  <2> QED
    BY <2>1, <2>2, <2>6, <2>7 DEF SoundInv
<1>4. CASE Walk /\ ~TakeFile
  <2>1. /\ UNCHANGED <<db, before>> /\ walk.state # "idle"
        /\ \E s \in {"enter", "read", "entry", "close", "done"} : GoTo(s)
    BY <1>4 DEF Walk, RefuseFolder, EnterFolder, FolderFails, ReadEntry, ReadEnd, CloseFolder,
       TakeFolder, SkipFolder, FileFails, Return
  <2> QED
    BY <1>2, <2>1
<1> QED
  BY <1>3, <1>4

LEMMA CovStays ==
  ASSUME NEW op, NEW held, NEW held2, NEW hs, NEW hs2, Cov(op, held, hs), hs2 \subseteq hs,
         op = "add" => held \subseteq held2, op # "add" => held2 \subseteq held
  PROVE  Cov(op, held2, hs2)
BY DEF Cov

\* What is skipped is no longer asked for.
LEMMA FrameYieldLess ==
  ASSUME StackOK, FrameInv, NEW f \in 1 .. Len(stack), NEW j, skipped \subseteq skipped',
         walk'.op = walk.op, walk'.recursively = walk.recursively, stack'[f].dir = stack[f].dir
  PROVE  FrameYield(f, j)' \subseteq FrameYield(f, j)
<1>1. MaxPath - f \in Int
  BY FolderAssumption
<1> QED
  BY <1>1, YieldLess DEF FrameYield

\* A step that leaves the stack alone, and with it what has been passed.
LEMMA CoversStay ==
  ASSUME StackOK, FrameInv, CoverInv, NEW s, GoTo(s), UNCHANGED stack,
         walk.state # "idle", skipped \subseteq skipped',
         walk.op = "add" => db \subseteq db', walk.op # "add" => db' \subseteq db,
         s \in {"read", "close"} /\ Len(stack) > 0 =>
            Cov(walk.op, db', FrameYield(Len(stack), Top.at)'),
         s = "done" => Cov(walk.op, db', HashesBelow(walk, skipped'))
  PROVE  CoverInv'
<1>1. /\ walk'.state = s /\ walk'.op = walk.op /\ walk'.recursively = walk.recursively
      /\ HashesBelow(walk', skipped') = HashesBelow(walk, skipped')
  BY Goes
<1>2. ASSUME NEW f \in 1 .. Len(stack), NEW j \in 1 .. stack[f].at, Passed(f, j)'
      PROVE  Cov(walk.op, db', FrameYield(f, j)')
  <2>1. CASE Passed(f, j)
    <3>1. Cov(walk.op, db, FrameYield(f, j))
      BY <2>1 DEF CoverInv
    <3>2. FrameYield(f, j)' \subseteq FrameYield(f, j)
      BY <1>1, FrameYieldLess
    <3> QED
      BY <3>1, <3>2, CovStays
  <2>2. CASE ~Passed(f, j)
    <3>1. ~(j < stack[f].at) /\ f = Len(stack) /\ s \in {"read", "close"}
      BY <1>1, <1>2, <2>2 DEF Passed
    <3>2. stack[f].at \in Int /\ Len(stack) \in Int
      BY DEF FrameInv, StackOK
    <3>3. j = stack[f].at /\ Len(stack) > 0
      BY <3>1, <3>2
    <3> QED
      BY <3>1, <3>3 DEF Top
  <2> QED
    BY <2>1, <2>2
<1>3. walk'.state = "done" => Cov(walk'.op, db', HashesBelow(walk', skipped'))
  BY <1>1
<1> QED
  BY <1>1, <1>2, <1>3 DEF CoverInv

\* A program has its hash for the walk; what is neither a program nor leads on, or has
\* been skipped, nothing.
LEMMA YieldOfProgram ==
  ASSUME NEW op, NEW deep, NEW e, NEW n, NEW without, e.kind = "file"
  PROVE  Yield(op, deep, e, n, without) \subseteq {HashOf[e.to]} \ {NoHash}
BY DEF Yield, Leads

LEMMA YieldOfRest ==
  ASSUME NEW op, NEW deep, NEW e, NEW n \in Int, NEW without,
         e.kind = "file" => e.to \in without,
         deep /\ Leads(e) => n <= 0 \/ e.to \notin Enterable(op) \ without
  PROVE  Yield(op, deep, e, n, without) = {}
BY BelowNothing DEF Yield

LEMMA CovNothing == ASSUME NEW op, NEW held PROVE Cov(op, held, {})
BY DEF Cov

\* A step of the walk leaves nothing out.
LEMMA WalkCovers ==
  ASSUME HandleInv, FrameInv, CallInv, EntryInv, CoverInv, Walk
  PROVE  CoverInv'
<1> USE DEF Walking
<1>1. StackOK /\ Len(stack) \in Nat /\ MaxPath \in Nat
  BY FolderAssumption DEF HandleInv, StackOK
<1>2. Len(stack) > 0 => /\ Len(stack) \in 1 .. Len(stack)
                        /\ Top.dir \in Dirs /\ Top.at \in 1 .. Len(Entries[Top.dir])
                        /\ Len(Entries[Top.dir]) \in Nat
                        /\ DOMAIN Entries[Top.dir] = 1 .. Len(Entries[Top.dir])
                        /\ Top.cached => Top.at = 1
                        /\ DOMAIN Top = Frame
  BY <1>1, EntryFacts DEF FrameInv, Top, StackOK
<1>3. CASE RefuseFolder \/ FolderFails
  <2>1. /\ UNCHANGED <<stack, db>> /\ GoTo(Return) /\ walk.state = "enter"
        /\ skipped \subseteq skipped' /\ (TooLong \/ Refused \/ entry.to \in skipped')
    BY <1>3 DEF RefuseFolder, FolderFails
  <2> DEFINE n == MaxPath - Len(stack)
  <2>2. n \in Int /\ (n <= 0 \/ entry.to \notin Enterable(walk.op) \ skipped')
    BY <1>1, <2>1 DEF TooLong, Refused, Enterable
  <2>3. ASSUME Len(stack) > 0
        PROVE  Cov(walk.op, db', FrameYield(Len(stack), Top.at)')
    <3> DEFINE e == Entries[Top.dir][Top.at]
    <3>1. walk.recursively /\ Leads(e) /\ e.to = entry.to
      BY <2>1, <2>3 DEF EntryInv, Called
    <3>2. walk'.op = walk.op /\ walk'.recursively = walk.recursively
      BY <1>1, <2>1, Goes
    <3>3. FrameYield(Len(stack), Top.at)' = Yield(walk.op, walk.recursively, e, n, skipped')
      BY <2>1, <3>2 DEF FrameYield, Top
    <3> HIDE DEF e, n
    <3>4. e.kind # "file" /\ (n <= 0 \/ e.to \notin Enterable(walk.op) \ skipped')
      BY <2>2, <3>1 DEF Leads
    <3>5. Yield(walk.op, walk.recursively, e, n, skipped') = {}
      BY <2>2, <3>4, YieldOfRest
    <3> QED
      BY <3>3, <3>5, CovNothing
  <2>4. ASSUME Return = "done"
        PROVE  Cov(walk.op, db', HashesBelow(walk, skipped'))
    <3>1. Len(stack) = 0
      BY <2>4 DEF Return
    <3>2. entry.to = walk.root /\ n = MaxPath
      BY <1>1, <2>1, <3>1 DEF EntryInv
    <3>3. HashesBelow(walk, skipped') = {}
      <4> HIDE DEF n
      <4> QED
        BY <2>2, <3>2, BelowNothing DEF HashesBelow
    <3> QED
      BY <3>3, CovNothing
  <2> HIDE DEF n
  <2> QED
    BY <1>1, <2>1, <2>3, <2>4, CoversStay
<1>4. CASE TakeFolder
  <2>1. UNCHANGED <<stack, db, skipped>> /\ GoTo("enter") /\ walk.state = "entry"
    BY <1>4 DEF TakeFolder
  <2> QED
    BY <1>1, <2>1, CoversStay
<1>5. CASE SkipFolder \/ TakeFile \/ FileFails
  <2>1. /\ UNCHANGED stack /\ GoTo("read") /\ walk.state = "entry"
        /\ skipped \subseteq skipped'
    BY <1>5 DEF SkipFolder, TakeFile, FileFails
  <2>2. /\ walk.op = "add" => db \subseteq db'
        /\ walk.op # "add" => db' \subseteq db
    BY <1>5, FileTaken DEF SkipFolder, TakeFile, FileFails
  <2>3. Len(stack) > 0 /\ entry = Entries[Top.dir][Top.at]
    BY <2>1 DEF EntryInv, HandleInv, StackOK
  <2>4. walk'.op = walk.op /\ walk'.recursively = walk.recursively
    BY <1>1, <2>1, Goes
  <2> DEFINE n == MaxPath - Len(stack)
             Y == Yield(walk.op, walk.recursively, entry, n, skipped')
  <2>5. FrameYield(Len(stack), Top.at)' = Y /\ n \in Int
    BY <1>1, <2>1, <2>3, <2>4 DEF FrameYield, Top
  <2> HIDE DEF n
  <2>6. Cov(walk.op, db', Y)
    <3>1. CASE TakeFile
      <4>1. /\ entry.kind = "file" /\ db' = AddFile(HashOf[entry.to])
        BY <3>1 DEF TakeFile, FileOpens
      <4>2. Cov(walk.op, db', {HashOf[entry.to]} \ {NoHash})
        BY <4>1, FileTaken
      <4>3. Y \subseteq {HashOf[entry.to]} \ {NoHash}
        BY <4>1, YieldOfProgram
      <4> HIDE DEF Y
      <4> QED
        BY <4>2, <4>3, CovStays
    <3>2. CASE SkipFolder
      <4>1. entry.kind # "file" /\ ~(walk.recursively /\ Leads(entry))
        BY <3>2 DEF SkipFolder, IsFolder, Follow, Leads
      <4>2. Y = {}
        BY <2>5, <4>1, YieldOfRest
      <4> QED
        BY <4>2, CovNothing
    <3>3. CASE FileFails
      <4>1. entry.to \in skipped'
        BY <3>3 DEF FileFails
      <4>2. Y = {}
        BY <2>5, <4>1, YieldOfRest
      <4> QED
        BY <4>2, CovNothing
    <3> QED
      BY <1>5, <3>1, <3>2, <3>3
  <2> HIDE DEF Y
  <2>7. Cov(walk.op, db', FrameYield(Len(stack), Top.at)')
    BY <2>5, <2>6
  <2> QED
    BY <1>1, <2>1, <2>2, <2>7, CoversStay
<1>6. CASE EnterFolder
  <2> DEFINE s == Stream(entry.to)
  <2>1. /\ stack' = Append(stack, s) /\ GoTo("read") /\ walk.state = "enter"
        /\ UNCHANGED <<db, skipped>>
    BY <1>6 DEF EnterFolder
  <2>2. s.cached
    BY DEF Stream
  <2> HIDE DEF s
  <2>3. /\ Len(stack') = Len(stack) + 1 /\ stack'[Len(stack) + 1] = s
        /\ \A f \in 1 .. Len(stack) : stack'[f] = stack[f]
    BY <1>1, <2>1, Push
  <2>4. /\ walk'.state = "read" /\ walk'.op = walk.op
        /\ walk'.recursively = walk.recursively
    BY <1>1, <2>1, Goes
  <2>5. ASSUME NEW f \in 1 .. Len(stack'), NEW j \in 1 .. stack'[f].at,
               Passed(f, j)'
        PROVE  Cov(walk.op, db, FrameYield(f, j)) /\ FrameYield(f, j)' = FrameYield(f, j)
    <3>1. ~stack'[f].cached /\ (j < stack'[f].at \/ f = Len(stack'))
      BY <2>5 DEF Passed
    <3>2. f \in 1 .. Len(stack) /\ stack'[f] = stack[f] /\ f # Len(stack')
      BY <1>1, <2>2, <2>3, <3>1
    <3>3. Passed(f, j)
      BY <3>1, <3>2 DEF Passed
    <3> QED
      BY <2>1, <2>4, <2>5, <3>2, <3>3 DEF CoverInv, FrameYield
  <2> QED
    BY <2>1, <2>4, <2>5 DEF CoverInv
<1>7. CASE ReadEntry
  <2> DEFINE s == NextEntry(Top)
             l == Len(stack)
  <2>1. /\ stack' = [stack EXCEPT ![l] = s] /\ GoTo("entry") /\ walk.state = "read"
        /\ UNCHANGED <<db, skipped>> /\ l > 0
    BY <1>7 DEF ReadEntry, HandleInv, StackOK
  <2>2. /\ walk'.state = "entry" /\ walk'.op = walk.op
        /\ walk'.recursively = walk.recursively
    BY <1>1, <2>1, Goes
  <2>3. s.dir = Top.dir /\ s.at = IF Top.cached THEN 1 ELSE Top.at + 1
    BY <1>2, <2>1 DEF NextEntry, Frame
  <2> HIDE DEF s
  <2>4. /\ Len(stack') = l
        /\ \A f \in 1 .. l : stack'[f] = IF f = l THEN s ELSE stack[f]
    BY <1>1, <2>1, Change
  <2>5. ASSUME NEW f \in 1 .. Len(stack'), NEW j \in 1 .. stack'[f].at,
               Passed(f, j)'
        PROVE  Cov(walk.op, db, FrameYield(f, j)) /\ FrameYield(f, j)' = FrameYield(f, j)
    <3>1. f \in 1 .. l /\ j < stack'[f].at /\ ~stack'[f].cached
      BY <2>2, <2>4, <2>5 DEF Passed
    <3>2. Passed(f, j) /\ j \in 1 .. stack[f].at /\ stack'[f].dir = stack[f].dir
      <4>1. CASE f = l
        <5>1. Top.at \in Int /\ j < s.at /\ stack[f] = Top /\ stack'[f] = s
          BY <1>2, <2>1, <2>4, <3>1, <4>1 DEF Top
        <5>2. ~Top.cached /\ j <= Top.at
          BY <2>3, <5>1
        <5> QED
          BY <2>1, <2>3, <4>1, <5>1, <5>2 DEF Passed
      <4>2. CASE f # l
        BY <2>4, <3>1, <4>2 DEF Passed
      <4> QED
        BY <4>1, <4>2
    <3>3. Cov(walk.op, db, FrameYield(f, j))
      BY <2>1, <2>5, <3>1, <3>2 DEF CoverInv
    <3> QED
      BY <2>1, <2>2, <3>2, <3>3 DEF FrameYield
  <2> QED
    BY <2>1, <2>2, <2>5 DEF CoverInv
<1>8. CASE ReadEnd
  <2> DEFINE s == [Top EXCEPT !.open = FALSE]
             l == Len(stack)
  <2>1. /\ stack' = [stack EXCEPT ![l] = s] /\ GoTo("close") /\ walk.state = "read"
        /\ UNCHANGED db /\ l > 0 /\ skipped \subseteq skipped'
    BY <1>8 DEF ReadEnd, HandleInv, StackOK, Top
  <2>2. /\ walk'.state = "close" /\ walk'.op = walk.op
        /\ walk'.recursively = walk.recursively
    BY <1>1, <2>1, Goes
  <2>3. s.dir = Top.dir /\ s.at = Top.at /\ s.cached = Top.cached
    BY <1>2, <2>1 DEF Frame
  <2> HIDE DEF s
  <2>4. /\ Len(stack') = l
        /\ \A f \in 1 .. l : stack'[f] = IF f = l THEN s ELSE stack[f]
    BY <1>1, <2>1, Change
  <2>5. \A f \in 1 .. l : /\ stack'[f].dir = stack[f].dir /\ stack'[f].at = stack[f].at
                          /\ stack'[f].cached = stack[f].cached
    BY <2>3, <2>4 DEF Top
  <2>6. ASSUME NEW f \in 1 .. Len(stack'), NEW j \in 1 .. stack'[f].at, Passed(f, j)'
        PROVE  Cov(walk.op, db, FrameYield(f, j)')
    <3>1. f \in 1 .. l /\ j \in 1 .. stack[f].at /\ stack'[f].dir = stack[f].dir
      BY <2>4, <2>5, <2>6
    <3>2. Passed(f, j)
      BY <2>1, <2>4, <2>5, <2>6, <3>1 DEF Passed
    <3>3. Cov(walk.op, db, FrameYield(f, j))
      BY <2>1, <3>1, <3>2 DEF CoverInv
    <3>4. FrameYield(f, j)' \subseteq FrameYield(f, j)
      BY <1>1, <2>1, <2>2, <3>1, FrameYieldLess
    <3> QED
      BY <3>3, <3>4, CovStays
  <2> QED
    BY <2>1, <2>2, <2>6 DEF CoverInv
<1>9. CASE CloseFolder
  <2> DEFINE l == Len(stack)
             state == IF l = 1 THEN "done" ELSE "read"
             n == MaxPath - l + 1
             H == HashesIn(Below(walk.op, walk.recursively, Top.dir, n, skipped), skipped)
  <2>1. /\ stack' = SubSeq(stack, 1, l - 1) /\ GoTo(state) /\ l > 0
        /\ walk.state = "close" /\ UNCHANGED <<db, skipped>>
    BY <1>9 DEF CloseFolder, HandleInv, StackOK
  <2>2. /\ walk'.state = state /\ walk'.op = walk.op
        /\ walk'.recursively = walk.recursively
        /\ HashesBelow(walk', skipped) = HashesBelow(walk, skipped)
    BY <1>1, <2>1, Goes
  <2>3. /\ Len(stack') = l - 1
        /\ \A f \in 1 .. Len(stack') : stack'[f] = stack[f]
    BY <1>1, <2>1, Pop
  \* Every entry of the folder has been passed, or it has broken off.
  <2>5. Cov(walk.op, db, H)
    <3>0. CASE Top.dir \in skipped
      <4>1. H = {}
        <5>1. n \in Int /\ Top.dir \notin Enterable(walk.op) \ skipped
          BY <1>1, <3>0
        <5> HIDE DEF n
        <5> QED
          BY <5>1, BelowNothing
      <4> HIDE DEF H
      <4> QED
        BY <4>1, CovNothing
    <3> SUFFICES ASSUME Top.dir \notin skipped PROVE Cov(walk.op, db, H)
      BY <3>0
    <3>1. ~Top.cached /\ Top.at = Len(Entries[Top.dir])
      BY <2>1 DEF EntryInv
    <3>2. ASSUME NEW j \in DOMAIN Entries[Top.dir]
          PROVE  Cov(walk.op, db, Yield(walk.op, walk.recursively, Entries[Top.dir][j], MaxPath - l, skipped))
      <4>1. j \in 1 .. stack[l].at /\ l \in 1 .. l
        BY <1>2, <2>1, <3>1 DEF Top
      <4>2. Passed(l, j)
        BY <2>1, <3>1 DEF Passed, Top
      <4>3. Cov(walk.op, db, FrameYield(l, j))
        BY <2>1, <4>1, <4>2 DEF CoverInv
      <4> QED
        BY <4>3 DEF FrameYield, Top
    <3>3. ASSUME NEW h \in H
          PROVE  \E j \in DOMAIN Entries[Top.dir] :
                   h \in Yield(walk.op, walk.recursively, Entries[Top.dir][j], MaxPath - l, skipped)
      <4>1. n \in Int /\ n - 1 = MaxPath - l /\ Top.dir \in Dirs
        BY <1>1, <1>2, <2>1
      <4> HIDE DEF n
      <4>2. h \in HashesIn(Below(walk.op, walk.recursively, Top.dir, n, skipped), skipped)
        BY <3>3
      <4>3. \E j \in DOMAIN Entries[Top.dir] :
              h \in Yield(walk.op, walk.recursively, Entries[Top.dir][j], n - 1, skipped)
        BY <4>1, <4>2, FolderYields
      <4> QED
        BY <4>1, <4>3
    <3> HIDE DEF H
    <3>4. \A h \in H : IF walk.op = "add" THEN h \in db ELSE h \notin db
      BY <3>2, <3>3 DEF Cov
    <3> QED
      BY <3>4 DEF Cov
  <2>6. state = "done" => Cov(walk'.op, db', HashesBelow(walk', skipped'))
    <3> SUFFICES ASSUME state = "done" PROVE Cov(walk.op, db, HashesBelow(walk, skipped))
      BY <2>1, <2>2
    <3>1. l = 1
      OBVIOUS
    <3>2. Top.dir = walk.root /\ n = MaxPath
      BY <1>1, <3>1 DEF CallInv, Top
    <3>3. HashesBelow(walk, skipped) = H
      BY <3>2 DEF HashesBelow
    <3> HIDE DEF H
    <3> QED
      BY <2>5, <3>3
  <2>7. ASSUME NEW f \in 1 .. Len(stack'), NEW j \in 1 .. stack'[f].at, Passed(f, j)'
        PROVE  Cov(walk.op, db, FrameYield(f, j)) /\ FrameYield(f, j)' = FrameYield(f, j)
    <3>1. f \in 1 .. l /\ f \in 1 .. l - 1 /\ stack'[f] = stack[f] /\ f # l
      BY <1>1, <2>3
    <3>2. Cov(walk.op, db, FrameYield(f, j))
      <4>1. CASE j < stack[f].at
        <5>1. Passed(f, j)
          BY <2>7, <3>1, <4>1 DEF Passed
        <5> QED
          BY <2>1, <3>1, <5>1 DEF CoverInv
      <4>2. CASE ~(j < stack[f].at)
        <5>1. f = Len(stack') /\ stack[f].at \in Int
          BY <2>7, <3>1, <4>2 DEF Passed, FrameInv
        <5>2. j = stack[f].at /\ f = l - 1 /\ f + 1 = l
          BY <1>1, <2>3, <3>1, <4>2, <5>1
        <5>3. Called(stack[f], Top.dir)
          BY <3>1, <5>2 DEF CallInv, Top
        <5>4. MaxPath - f = MaxPath - l + 1
          BY <1>1, <5>2
        <5>5. FrameYield(f, j) = H
          <6> DEFINE e == Entries[stack[f].dir][stack[f].at]
          <6>1. FrameYield(f, j) = Yield(walk.op, walk.recursively, e, n, skipped)
            BY <5>2, <5>4 DEF FrameYield
          <6>2. walk.recursively /\ Leads(e) /\ e.to = Top.dir
            BY <5>3 DEF Called
          <6> HIDE DEF e, n
          <6>3. Yield(walk.op, walk.recursively, e, n, skipped)
                  = HashesIn(Below(walk.op, walk.recursively, e.to, n, skipped), skipped)
            BY <6>2 DEF Yield, Leads
          <6> QED
            BY <6>1, <6>2, <6>3
        <5> HIDE DEF H
        <5> QED
          BY <2>5, <5>5
      <4> QED
        BY <4>1, <4>2
    <3> QED
      BY <2>1, <2>2, <3>1, <3>2 DEF FrameYield
  <2> HIDE DEF state
  <2> QED
    BY <2>1, <2>2, <2>6, <2>7 DEF CoverInv
<1> QED
  BY <1>3, <1>4, <1>5, <1>6, <1>7, <1>8, <1>9 DEF Walk
-----------------------------------------------------------------------------
(* The tool around the walk.                                               *)

\* The folder of a command is one that opens.
LineInv ==
  /\ DOMAIN values = {"pid", "address", "threads", "name", "folder", "files"}
  /\ flags \cap FolderCommands # {} => values.folder \in Dirs

PlacesOfTool ==
  {"parse", "commands", "dumps", "end", "exit", "loading", "dumping", "quitting"}
StepInv == step \in Nat \ {0} /\ pc \in PlacesOfTool

\* A walk is under way in a step of the commands, unless it has ended the tool.
WalkAt == walk.state # "idle" => pc = "exit" \/ (pc = "commands" /\ step <= Len(DbSteps))

\* Every other step of the commands saves what the one before has done.
Commands == {"gen", "genquick", "add", "clean", "remove"}
DbStepOK(n) ==
  LET s == DbSteps[n]
  IN  /\ s.what \in {"clear", "add", "remove", "hashes", "save"}
      /\ s.what = "save" <=> n % 2 = 0
      /\ s.what = "clear" => "clean" \in flags
      /\ s.what = "remove" => "remove" \in flags
      /\ s.what \in {"add", "remove"} => s.dir \in Dirs

LEMMA DbStepsAre ==
  ASSUME LineInv
  PROVE  /\ Len(DbSteps) \in Nat /\ Len(DbSteps) % 2 = 0
         /\ flags \cap Commands = {} => Len(DbSteps) = 0
         /\ \A n \in 1 .. Len(DbSteps) : DbStepOK(n)
<1> USE DEF DbStepOK
<1>1. CASE "clean" \in flags
  <2>1. DbSteps = <<Step("clear"), Step("save")>>
    BY <1>1 DEF DbSteps
  <2> QED
    BY <1>1, <2>1 DEF Step, Commands
<1>2. CASE "clean" \notin flags /\ "add" \in flags
  <2>1. DbSteps = <<Folder("add", values.folder, Deep), Step("save")>>
    BY <1>2 DEF DbSteps
  <2>2. values.folder \in Dirs
    BY <1>2 DEF LineInv, FolderCommands
  <2> QED
    BY <1>2, <2>1, <2>2 DEF Step, Folder, Commands
<1>3. CASE flags \cap {"clean", "add"} = {} /\ "remove" \in flags
  <2>1. DbSteps = <<Folder("remove", values.folder, Deep), Step("save")>>
    BY <1>3 DEF DbSteps
  <2>2. values.folder \in Dirs
    BY <1>3 DEF LineInv, FolderCommands
  <2> QED
    BY <1>3, <2>1, <2>2 DEF Step, Folder, Commands
<1>4. CASE flags \cap {"clean", "add", "remove"} = {} /\ "gen" \in flags
  <2>1. DbSteps = GenSteps
    BY <1>4 DEF DbSteps
  <2> DEFINE l == 2 + 2 * Len(GenFolders)
  <2>2. /\ Len(GenFolders) \in Nat /\ l \in Nat /\ l % 2 = 0
        /\ \A k \in 1 .. Len(GenFolders) : GenFolders[k] \in Dirs
    BY CommandLineAssumption
  <2>3. DOMAIN GenSteps = 1 .. l
    BY DEF GenSteps
  <2>4. Len(GenSteps) = l
    <3> DEFINE S == {GenSteps[n] : n \in 1 .. l}
    <3>1. GenSteps \in [1 .. l -> S]
      BY DEF GenSteps
    <3> HIDE DEF S, l
    <3> QED
      BY <2>2, <3>1, LenOfPath
  <2>5. ASSUME NEW n \in 1 .. l PROVE DbStepOK(n)
    <3>1. CASE n = 1
      BY <2>1, <2>5, <3>1 DEF GenSteps, Step
    <3>2. CASE n # 1 /\ n % 2 = 0
      BY <2>1, <2>5, <3>2 DEF GenSteps, Step
    <3>3. CASE n # 1 /\ n % 2 # 0
      <4>1. (n - 1) \div 2 \in 1 .. Len(GenFolders)
        BY <2>2, <2>5, <3>3
      <4>2. DbSteps[n] = Folder("add", GenFolders[(n - 1) \div 2], TRUE)
        BY <2>1, <2>5, <3>3 DEF GenSteps
      <4>3. GenFolders[(n - 1) \div 2] \in Dirs
        BY <2>2, <4>1
      <4> QED
        BY <3>3, <4>2, <4>3 DEF Folder
    <3> QED
      BY <3>1, <3>2, <3>3
  <2> QED
    BY <1>4, <2>1, <2>2, <2>4, <2>5 DEF Commands
<1>5. CASE flags \cap {"clean", "add", "remove", "gen"} = {} /\ "genquick" \in flags
  <2>1. DbSteps = <<Step("hashes"), Step("save")>>
    BY <1>5 DEF DbSteps
  <2> QED
    BY <1>5, <2>1 DEF Step, Commands
<1>6. CASE flags \cap {"clean", "add", "remove", "gen", "genquick"} = {}
  <2>1. DbSteps = << >>
    BY <1>6 DEF DbSteps
  <2> QED
    BY <1>6, <2>1
<1> QED
  BY <1>1, <1>2, <1>3, <1>4, <1>5, <1>6

\* Arguments that ask for two things at once are refused.
OneJob == \A a, b \in flags \cap Jobs : a = b

LEMMA SaneIsOneJob == Sane => OneJob
<1> SUFFICES ASSUME Sane, NEW a \in flags \cap Jobs, NEW b \in flags \cap Jobs, a # b
             PROVE  FALSE
  BY DEF OneJob
<1>1. IsFiniteSet(Jobs)
  <2>1. IsFiniteSet({"-pid"})
    BY FS_Singleton
  <2>2. IsFiniteSet({"-pid", "-p"})
    BY <2>1, FS_AddElement
  <2>3. IsFiniteSet({"-pid", "-p", "-system"})
    BY <2>2, FS_AddElement
  <2>4. IsFiniteSet({"-pid", "-p", "-system", "-closemon"})
    BY <2>3, FS_AddElement
  <2>5. IsFiniteSet({"gen"})
    BY FS_Singleton
  <2>6. IsFiniteSet({"gen", "genquick"})
    BY <2>5, FS_AddElement
  <2>7. IsFiniteSet({"gen", "genquick", "add"})
    BY <2>6, FS_AddElement
  <2>8. IsFiniteSet({"gen", "genquick", "add", "clean"})
    BY <2>7, FS_AddElement
  <2>9. Jobs = {"-pid", "-p", "-system", "-closemon"} \cup {"gen", "genquick", "add", "clean"}
    BY DEF Jobs
  <2> QED
    BY <2>4, <2>8, <2>9, FS_Union
<1>2. IsFiniteSet(flags \cap Jobs)
  BY <1>1, FS_Subset
<1>3. Cardinality({a, b}) = 2
  <2>1. IsFiniteSet({a}) /\ Cardinality({a}) = 1
    BY FS_Singleton
  <2> DEFINE A == {a}
  <2>2. {a, b} = A \cup {b} /\ b \notin A
    OBVIOUS
  <2> HIDE DEF A
  <2>3. Cardinality(A \cup {b}) = Cardinality(A) + 1
    BY <2>1, <2>2, FS_AddElement DEF A
  <2> QED
    BY <2>1, <2>2, <2>3 DEF A
<1>4. Cardinality({a, b}) <= Cardinality(flags \cap Jobs)
  BY <1>2, FS_Subset
<1>5. Cardinality(flags \cap Jobs) \in Nat /\ Cardinality(flags \cap Jobs) <= 1
  BY <1>2, FS_CardinalityType DEF Sane
<1> QED
  BY <1>3, <1>4, <1>5

\* The steps of a dump are those of what was asked for.
DumpStepOK(n) ==
  LET w == DumpSteps[n].what
  IN  /\ w \in {"region", "pid", "find", "ask", "dump", "collect", "system", "closemon"}
      /\ w = "pid" => "-pid" \in flags /\ "-a" \notin flags
      /\ w \in {"find", "ask", "dump", "collect"} => "-p" \in flags /\ "-pid" \notin flags
      /\ w = "system" => "-system" \in flags
      /\ w = "region" => "-pid" \in flags /\ "-a" \in flags
      /\ w = "closemon" => "-closemon" \in flags
      /\ w = "find" => n = 1
      /\ w = "ask" => n = 2
      /\ w = "dump" => n = 3
      /\ w = "collect" => n = 4
LEMMA DumpStepsAre ==
  ASSUME OneJob
  PROVE  /\ Len(DumpSteps) \in Nat
         /\ \A n \in 1 .. Len(DumpSteps) : DumpStepOK(n)
         /\ "-pid" \in flags /\ "-a" \notin flags => DumpSteps = <<Step("pid")>>
         /\ "-p" \in flags =>
              DumpSteps = <<Step("find"), Step("ask"), Step("dump"), Step("collect")>>
<1> USE DEF DumpStepOK, Step
<1>7. "-pid" \in flags => flags \cap {"-p", "-system", "-closemon"} = {}
  BY DEF OneJob, Jobs
<1>8. "-p" \in flags => flags \cap {"-pid", "-system", "-closemon"} = {}
  BY DEF OneJob, Jobs
<1>9. "-system" \in flags => flags \cap {"-pid", "-p", "-closemon"} = {}
  BY DEF OneJob, Jobs
<1>1. CASE "-pid" \in flags /\ "-a" \in flags
  <2>1. DumpSteps = <<Step("region")>>
    BY <1>1, <1>7, <1>8, <1>9 DEF DumpSteps
  <2> QED
    BY <1>1, <1>7, <2>1
<1>2. CASE "-pid" \in flags /\ "-a" \notin flags
  <2>1. DumpSteps = <<Step("pid")>>
    BY <1>2, <1>7, <1>8, <1>9 DEF DumpSteps
  <2> QED
    BY <1>2, <1>7, <2>1
<1>3. CASE "-pid" \notin flags /\ "-p" \in flags
  <2>1. DumpSteps = <<Step("find"), Step("ask"), Step("dump"), Step("collect")>>
    BY <1>3, <1>7, <1>8, <1>9 DEF DumpSteps
  <2> QED
    BY <1>3, <1>7, <2>1
<1>4. CASE "-pid" \notin flags /\ "-p" \notin flags /\ "-system" \in flags
  <2>1. DumpSteps = <<Step("system")>>
    BY <1>4, <1>7, <1>8, <1>9 DEF DumpSteps
  <2> QED
    BY <1>4, <1>7, <2>1
<1>5. CASE flags \cap {"-pid", "-p", "-system"} = {} /\ "-closemon" \in flags
  <2>1. DumpSteps = <<Step("closemon")>>
    BY <1>5, <1>7, <1>8, <1>9 DEF DumpSteps
  <2> QED
    BY <1>5, <1>7, <2>1
<1>6. CASE flags \cap {"-pid", "-p", "-system", "-closemon"} = {}
  <2>1. DumpSteps = << >>
    BY <1>6, <1>7, <1>8, <1>9 DEF DumpSteps
  <2> QED
    BY <1>6, <1>7, <2>1
<1> QED
  BY <1>1, <1>2, <1>3, <1>4, <1>5, <1>6

PlaceInv ==
  /\ LineInv /\ StepInv /\ WalkAt
  /\ pc \in {"commands", "dumps", "end"} => OneJob

LEMMA ParsePlace == ASSUME PlaceInv, Parse PROVE PlaceInv'
<1>1. walk.state = "idle" /\ pc = "parse"
  BY DEF PlaceInv, WalkAt, Parse, ParseFlag, ParseNumber, ParseText, ParseFolder, ParseDb,
     RefuseArgument, RefuseFlags, StartWork, LoadFails, LoadHangs, ArgumentsRead, Parsing
<1>2. walk' = walk /\ step' = step /\ pc' \in {"parse", "exit", "commands", "loading"}
  BY <1>1 DEF Parse, ParseFlag, ParseNumber, ParseText, ParseFolder, ParseDb, Parsed, workVars,
     RefuseArgument, RefuseFlags, StartWork, LoadFails, LoadHangs, Exit, Hang, WithDb, walkVars
<1>3. WalkAt' /\ StepInv'
  BY <1>1, <1>2 DEF WalkAt, StepInv, PlacesOfTool, PlaceInv
<1>4. LineInv'
  <2>1. CASE ParseFlag
    <3>1. Arg \notin FolderCommands /\ flags' = flags \cup {Arg}
      BY <2>1 DEF ParseFlag, Flags, FolderCommands
    <3>2. /\ DOMAIN values' = DOMAIN values /\ values'.folder = values.folder
      BY <2>1 DEF ParseFlag, PlaceInv, LineInv
    <3> QED
      BY <3>1, <3>2 DEF PlaceInv, LineInv
  <2>2. CASE ParseNumber
    <3>1. Arg \notin FolderCommands /\ flags' = flags \cup {Arg}
      BY <2>2 DEF ParseNumber, NumberOptions, FolderCommands
    <3>2. Arg \in {"-pid", "-a", "-t"}
      BY <2>2 DEF ParseNumber, NumberOptions
    <3> DEFINE n == Number[args[i + 1]]
    <3>3. values' \in {[values EXCEPT !.pid = n], [values EXCEPT !.address = n],
                       [values EXCEPT !.threads = n]}
      BY <2>2, <3>2 DEF ParseNumber
    <3> HIDE DEF n
    <3>4. /\ DOMAIN values' = DOMAIN values /\ values'.folder = values.folder
      BY <3>3 DEF PlaceInv, LineInv
    <3> QED
      BY <3>1, <3>4 DEF PlaceInv, LineInv
  <2>3. CASE ParseText
    <3>1. Arg \notin FolderCommands /\ flags' = flags \cup {Arg}
      BY <2>3 DEF ParseText, TextOptions, FolderCommands
    <3>2. /\ DOMAIN values' = DOMAIN values /\ values'.folder = values.folder
      BY <2>3 DEF ParseText, PlaceInv, LineInv
    <3> QED
      BY <3>1, <3>2 DEF PlaceInv, LineInv
  <2>4. CASE ParseFolder
    <3>1. /\ DOMAIN values' = DOMAIN values /\ values'.folder \in Dirs
      BY <2>4, CommandLineAssumption DEF ParseFolder, PlaceInv, LineInv
    <3> QED
      BY <3>1 DEF PlaceInv, LineInv
  <2>5. CASE ParseDb
    <3>1. flags' \cap FolderCommands = flags \cap FolderCommands /\ values' = values
      BY <2>5 DEF ParseDb, DbWords, FolderCommands
    <3> QED
      BY <3>1 DEF PlaceInv, LineInv
  <2>6. CASE RefuseArgument \/ RefuseFlags \/ StartWork \/ LoadFails \/ LoadHangs
    BY <2>6 DEF RefuseArgument, RefuseFlags, StartWork, LoadFails, LoadHangs, Exit, Hang, lineVars,
       PlaceInv, LineInv
  <2> QED
    BY <2>1, <2>2, <2>3, <2>4, <2>5, <2>6 DEF Parse
<1>5. pc' \in {"commands", "dumps", "end"} => OneJob'
  <2>1. CASE StartWork
    <3>1. OneJob /\ flags' = flags
      BY <2>1, SaneIsOneJob DEF StartWork, ArgumentsRead, lineVars
    <3> QED
      BY <3>1 DEF OneJob
  <2>2. CASE ~StartWork
    BY <1>1, <2>2 DEF Parse, ParseFlag, ParseNumber, ParseText, ParseFolder, ParseDb, Parsed,
       workVars, RefuseArgument, RefuseFlags, LoadFails, LoadHangs, Exit, Hang
  <2> QED
    BY <2>1, <2>2
<1> QED
  BY <1>3, <1>4, <1>5 DEF PlaceInv

\* In a step of the work no walk is under way.
LEMMA StepPlace ==
  ASSUME PlaceInv, NEW what, Doing(what)
  PROVE  /\ walk.state = "idle" /\ pc \in {"commands", "dumps"} /\ OneJob
         /\ pc = "commands" => step \in 1 .. Len(DbSteps) /\ DbSteps[step].what = what
                               /\ DbStepOK(step)
         /\ pc = "dumps" => step \in 1 .. Len(DumpSteps) /\ DumpSteps[step].what = what
                            /\ DumpStepOK(step)
<1>1. /\ walk.state = "idle" /\ pc \in {"commands", "dumps"} /\ step \in Nat \ {0}
      /\ step <= Len(Steps) /\ Steps[step].what = what /\ OneJob
  BY DEF Doing, Working, PlaceInv, StepInv
<1>2. CASE pc = "commands"
  <2>1. Steps = DbSteps /\ Len(DbSteps) \in Nat
    BY <1>2, DbStepsAre DEF Steps, PlaceInv
  <2> QED
    BY <1>1, <1>2, <2>1, DbStepsAre DEF PlaceInv
<1>3. CASE pc = "dumps"
  <2>1. Steps = DumpSteps /\ Len(DumpSteps) \in Nat
    BY <1>1, <1>3, DumpStepsAre DEF Steps
  <2> QED
    BY <1>1, <1>3, <2>1, DumpStepsAre
<1> QED
  BY <1>1, <1>2, <1>3

LEMMA ToolPlace == ASSUME PlaceInv, [Next]_vars PROVE PlaceInv'
<1>1. ASSUME UNCHANGED lineVars, step' \in Nat \ {0},
             pc' \in PlacesOfTool,
             pc' \in {"commands", "dumps", "end"} => pc \in {"commands", "dumps", "end"},
             walk'.state # "idle" => pc' = "exit" \/ (pc' = "commands" /\ step' <= Len(DbSteps))
      PROVE  PlaceInv'
  <2>1. LineInv' /\ (OneJob => OneJob') /\ DbSteps' = DbSteps
    BY <1>1 DEF lineVars, PlaceInv, LineInv, OneJob, DbSteps, GenSteps, Deep
  <2> QED
    BY <1>1, <2>1 DEF PlaceInv, StepInv, WalkAt
<1> USE DEF PlacesOfTool
<1>2. step \in Nat \ {0} /\ pc \in PlacesOfTool
  BY DEF PlaceInv, StepInv
\* A step of the work is done, and the next one follows.
<1>3. ASSUME NEW what, Doing(what), NEW s \in Nat \ {0}, GoOn(s), walk' = walk
      PROVE  PlaceInv'
  BY <1>1, <1>2, <1>3, StepPlace DEF GoOn
<1>4. CASE Parse
  BY <1>4, ParsePlace
<1>5. CASE ClearDatabase \/ SaveDatabase \/ AddSystemHashes
  <2>1. /\ \E what \in {"clear", "save", "hashes"} : Doing(what)
        /\ GoOn(step + 1) /\ walk' = walk
    BY <1>5 DEF ClearDatabase, SaveDatabase, AddSystemHashes, Done, WithDb, walkVars
  <2> QED
    BY <1>2, <1>3, <2>1
<1>6. CASE StartFolder
  <2>1. PICK what \in {"add", "remove"} : Doing(what)
    BY <1>6 DEF StartFolder
  <2>2. pc = "commands" /\ step <= Len(DbSteps)
    BY <2>1, StepPlace DEF DumpStepOK
  <2>3. UNCHANGED <<lineVars, workVars>>
    BY <1>6 DEF StartFolder
  <2> QED
    BY <1>1, <1>2, <2>2, <2>3 DEF workVars
<1>7. CASE WalkFolder
  <2>1. walk.state # "idle" /\ UNCHANGED <<lineVars, workVars>>
    BY <1>7 DEF WalkFolder, Walk, RefuseFolder, EnterFolder, FolderFails, ReadEntry, ReadEnd,
       CloseFolder, TakeFolder, SkipFolder, TakeFile, FileFails, Walking
  <2> QED
    BY <1>1, <1>2, <2>1 DEF workVars, PlaceInv, WalkAt
<1>8. CASE EndFolder
  <2>1. walk'.state = "idle" /\ GoOn(step + 1)
    BY <1>8 DEF EndFolder, NoWalk, Done
  <2> QED
    BY <1>1, <1>2, <2>1 DEF GoOn
<1>9. CASE FolderEndsTool \/ AnswerNo
  <2>1. Exit
    BY <1>9 DEF FolderEndsTool, AnswerNo
  <2> QED
    BY <1>1, <1>2, <2>1 DEF Exit
<1>15. CASE SystemHangs \/ QuitHangs
  <2>1. walk.state = "idle" /\ (Hang("dumping") \/ Hang("quitting"))
    BY <1>15 DEF SystemHangs, QuitHangs, Doing
  <2>2. UNCHANGED <<lineVars, step, walk>> /\ pc' \in {"dumping", "quitting"}
    BY <2>1 DEF Hang, walkVars
  <2> QED
    BY <1>1, <1>2, <2>1, <2>2
<1>10. CASE StartDumps
  <2>1. /\ pc = "commands" /\ ~(step <= Len(DbSteps)) /\ walk' = walk /\ pc' = "dumps" /\ step' = 1
        /\ UNCHANGED lineVars
    <3>1. Len(DbSteps) \in Nat
      BY DbStepsAre DEF PlaceInv
    <3> QED
      BY <1>2, <1>10, <3>1 DEF StartDumps, WithDb, Steps
  <2>2. walk.state = "idle"
    BY <2>1 DEF PlaceInv, WalkAt
  <2> QED
    BY <1>1, <2>1, <2>2
<1>11. CASE \/ DumpPid \/ DumpRegion \/ DumpSystem \/ AnswerYes \/ QuitMonitor
            \/ FindProcesses \/ EndMatches \/ \E k \in matches : DumpMatch(k)
  <2>1. /\ \E what \in {"pid", "region", "system", "ask", "closemon", "find", "dump"} : Doing(what)
        /\ GoOn(step + 1) \/ GoOn(step + 2)
        /\ walk' = walk
    BY <1>11 DEF DumpPid, DumpRegion, DumpSystem, AnswerYes, QuitMonitor, FindProcesses, EndMatches,
       DumpMatch, Done, walkVars
  <2> QED
    BY <1>2, <1>3, <2>1
<1>12. CASE \E k \in matches : CollectMatch(k)
  <2>1. Doing("collect") /\ GoOn(step - 1) /\ walk' = walk
    BY <1>12 DEF CollectMatch, WithDb
  <2>2. step = 4
    BY <2>1, StepPlace DEF DumpStepOK, DbStepOK
  <2> QED
    BY <1>3, <2>1, <2>2
<1>13. CASE Finish
  <2>1. UNCHANGED lineVars /\ step' = step /\ pc = "dumps" /\ pc' = "end" /\ walk' = walk
    BY <1>13 DEF Finish, walkVars
  <2> QED
    BY <1>1, <1>2, <2>1 DEF PlaceInv, WalkAt
<1>14. CASE (\E k \in DOMAIN Processes : ProcessEnds(k)) \/ Over \/ UNCHANGED vars
  <2>1. UNCHANGED <<lineVars, pc, step, walk>>
    BY <1>14 DEF ProcessEnds, Over, vars, walkVars, workVars
  <2> QED
    BY <1>1, <1>2, <2>1 DEF PlaceInv, WalkAt
<1> QED
  BY <1>4, <1>5, <1>6, <1>7, <1>8, <1>9, <1>10, <1>11, <1>12, <1>13, <1>14, <1>15
     DEF Next, Tool, DbCommand, Dump, User

WalkInv == HandleInv /\ FrameInv /\ CallInv /\ EntryInv /\ SoundInv /\ CoverInv

LEMMA ToolWalks == ASSUME PlaceInv, WalkInv, [Next]_vars PROVE WalkInv'
<1> SUFFICES FrameInv' /\ CallInv' /\ EntryInv' /\ SoundInv' /\ CoverInv'
  BY ToolKeeps DEF WalkInv
<1> USE DEF WalkInv
<1>1. CASE WalkFolder
  BY <1>1, WalkFits, WalkSound, WalkCovers DEF WalkFolder
<1>2. ASSUME UNCHANGED walkVars
      PROVE  FrameInv' /\ CallInv' /\ EntryInv' /\ SoundInv' /\ CoverInv'
  <2>1. UNCHANGED <<walk, stack, entry, handles, db, before, skipped>>
    BY <1>2 DEF walkVars
  <2>2. FrameInv' /\ CallInv' /\ EntryInv'
    BY <2>1 DEF FrameInv, CallInv, Called, EntryInv, Top, Enterable
  <2>3. SoundInv' /\ CoverInv'
    BY <2>1 DEF SoundInv, CoverInv, Passed, FrameYield
  <2> QED
    BY <2>2, <2>3
\* The hashes are changed while there is no walk.
<1>3. ASSUME walk.state = "idle", UNCHANGED <<walk, stack, entry, skipped>>
      PROVE  FrameInv' /\ CallInv' /\ EntryInv' /\ SoundInv' /\ CoverInv'
  <2>1. FrameInv' /\ CallInv' /\ EntryInv'
    BY <1>3 DEF FrameInv, CallInv, Called, EntryInv, Top, Enterable
  <2>2. SoundInv' /\ CoverInv'
    BY <1>3 DEF SoundInv, CoverInv
  <2> QED
    BY <2>1, <2>2
<1>4. CASE StartFolder
  <2>1. PICK what \in {"add", "remove"} : Doing(what) /\ Steps[step].what = what
    BY <1>4 DEF StartFolder, Doing
  <2>2. /\ walk.state = "idle" /\ pc = "commands" /\ DbStepOK(step) /\ Steps = DbSteps
        /\ DbSteps[step].what = what
    BY <2>1, StepPlace DEF DumpStepOK, PlaceInv, Steps
  <2> DEFINE d == DbSteps[step].dir
  <2>3. d \in Dirs
    BY <2>1, <2>2 DEF DbStepOK
  <2>4. /\ walk'.state = "enter" /\ walk'.root = d /\ walk'.op = what
        /\ entry'.to = d /\ before' = db /\ db' = db /\ stack' = stack /\ skipped' = {}
    BY <1>4, <2>1, <2>2 DEF StartFolder, BeginWalk, NoEntry
  <2>5. Len(stack) = 0
    BY <2>2 DEF EntryInv
  <2> HIDE DEF d
  <2>6. FrameInv' /\ CallInv'
    BY <2>4, <2>5, FolderAssumption DEF FrameInv, CallInv
  <2>7. EntryInv'
    BY <2>3, <2>4, <2>5 DEF EntryInv
  <2>8. SoundInv' /\ CoverInv'
    BY <2>1, <2>4, <2>5 DEF SoundInv, CoverInv
  <2> QED
    BY <2>6, <2>7, <2>8
<1>5. CASE EndFolder
  <2>1. walk'.state = "idle" /\ stack' = stack /\ walk.state = "done"
    BY <1>5 DEF EndFolder, NoWalk, Walking
  <2>2. Len(stack) = 0
    BY <2>1 DEF EntryInv
  <2>3. FrameInv' /\ CallInv'
    BY <2>1, <2>2, FolderAssumption DEF FrameInv, CallInv
  <2>4. EntryInv' /\ SoundInv' /\ CoverInv'
    BY <2>1, <2>2 DEF EntryInv, SoundInv, CoverInv
  <2> QED
    BY <2>3, <2>4
<1>6. CASE ClearDatabase \/ SaveDatabase \/ AddSystemHashes \/ \E k \in matches : CollectMatch(k)
  <2>1. walk.state = "idle" /\ UNCHANGED <<walk, stack, entry, skipped>>
    BY <1>6 DEF ClearDatabase, SaveDatabase, AddSystemHashes, CollectMatch, WithDb, Doing, walkVars
  <2> QED
    BY <1>3, <2>1
<1>7. CASE StartDumps \/ StartWork
  <2>1. UNCHANGED <<walk, stack, entry, skipped>>
    BY <1>7 DEF StartDumps, StartWork, WithDb
  <2>2. walk.state = "idle"
    <3>1. CASE StartWork
      BY <3>1 DEF StartWork, ArgumentsRead, PlaceInv, WalkAt
    <3>2. CASE StartDumps
      <4>1. Len(DbSteps) \in Nat /\ step \in Nat
        BY DbStepsAre DEF PlaceInv, StepInv
      <4>2. pc = "commands" /\ ~(step <= Len(DbSteps))
        BY <3>2, <4>1 DEF StartDumps, Steps
      <4> QED
        BY <4>2 DEF PlaceInv, WalkAt
    <3> QED
      BY <1>7, <3>1, <3>2
  <2> QED
    BY <1>3, <2>1, <2>2
<1>8. CASE Parse /\ ~StartWork
  <2>1. UNCHANGED walkVars
    BY <1>8 DEF Parse, ParseFlag, ParseNumber, ParseText, ParseFolder, ParseDb, Parsed,
       RefuseArgument, RefuseFlags, LoadFails, LoadHangs, Exit, Hang
  <2> QED
    BY <1>2, <2>1
<1>9. CASE \/ FolderEndsTool \/ DumpPid \/ DumpRegion \/ DumpSystem \/ SystemHangs \/ User
           \/ FindProcesses
           \/ EndMatches \/ Finish \/ (\E k \in matches : DumpMatch(k))
           \/ (\E k \in DOMAIN Processes : ProcessEnds(k)) \/ Over \/ UNCHANGED vars
  <2>1. UNCHANGED walkVars
    BY <1>9 DEF FolderEndsTool, DumpPid, DumpRegion, DumpSystem, SystemHangs, User, AnswerYes,
       AnswerNo, QuitMonitor, QuitHangs, FindProcesses, EndMatches, Finish, DumpMatch, ProcessEnds,
       Over, vars, Exit, Hang
  <2> QED
    BY <1>2, <2>1
<1> QED
  BY <1>1, <1>4, <1>5, <1>6, <1>7, <1>8, <1>9 DEF Next, Tool, DbCommand, Dump

LEMMA InitPlace == Init => PlaceInv /\ WalkInv
<1> SUFFICES ASSUME Init PROVE PlaceInv /\ WalkInv
  OBVIOUS
<1>1. PlaceInv
  <2>1. flags = {} /\ values = NoValues /\ pc = "parse" /\ step = 1 /\ walk.state = "idle"
    BY DEF Init, WalkInit, NoWalk
  <2>2. DOMAIN values = {"pid", "address", "threads", "name", "folder", "files"}
    BY <2>1 DEF NoValues
  <2>3. LineInv /\ StepInv /\ WalkAt
    BY <2>1, <2>2 DEF LineInv, StepInv, PlacesOfTool, WalkAt
  <2> QED
    BY <2>1, <2>3 DEF PlaceInv
<1>2. stack = << >> /\ walk.state = "idle" /\ Len(stack) = 0
  BY DEF Init, WalkInit, NoWalk
<1>3. HandleInv
  BY DEF Init, WalkInit, NoWalk, HandleInv, StackOK
<1>4. FrameInv /\ CallInv /\ EntryInv /\ SoundInv /\ CoverInv
  BY <1>2, FolderAssumption DEF FrameInv, CallInv, EntryInv, SoundInv, CoverInv
<1> QED
  BY <1>1, <1>3, <1>4 DEF WalkInv

LEMMA PlaceHolds == Spec => [](PlaceInv /\ WalkInv)
<1>1. Init => PlaceInv /\ WalkInv
  BY InitPlace
<1>2. (PlaceInv /\ WalkInv) /\ [Next]_vars => (PlaceInv /\ WalkInv)'
  BY ToolPlace, ToolWalks
<1> QED
  BY <1>1, <1>2, PTL DEF Spec

\* A walk that is over has added the hash of every program below its folder, or removed
\* it, but for what it could not open, and no other: whatever the disk looks like, links
\* that lead back included, and whatever the names on it.
THEOREM FolderIsExact == Spec => []FolderExact
<1>1. WalkInv => FolderExact
  <2> SUFFICES ASSUME WalkInv, walk.state = "done" PROVE FolderExact
    BY DEF FolderExact, Walking
  <2> DEFINE all == HashesBelow(walk, {})
             read == HashesBelow(walk, skipped)
  <2>1. /\ walk.op = "add" => before \subseteq db /\ db \subseteq before \cup all
        /\ walk.op # "add" => db \subseteq before /\ before \ all \subseteq db
    BY DEF WalkInv, SoundInv
  <2>2. Cov(walk.op, db, read)
    BY DEF WalkInv, CoverInv
  <2>3. FolderExact = (Walking("done") =>
            IF walk.op = "add"
            THEN before \cup read \subseteq db /\ db \subseteq before \cup all
            ELSE before \ all \subseteq db /\ db \subseteq before \ read)
    BY DEF FolderExact
  <2> HIDE DEF all, read
  <2> QED
    BY <2>1, <2>2, <2>3 DEF Cov
<1> QED
  BY <1>1, PlaceHolds, PTL
-----------------------------------------------------------------------------
(* The dumps.                                                              *)

AliveInv == ended = {} => alive = DOMAIN Processes

\* The files hold what is in memory but for what the step before the next save has done.
DiskInv ==
  /\ pc \in {"parse", "commands"} => dumped = {}
  /\ pc = "parse" => disk = disk0 /\ step = 1
  /\ pc = "commands" =>
       /\ step <= Len(DbSteps) + 1
       /\ walk.state = "idle" /\ step % 2 = 1 => db = disk
       /\ walk.state # "idle" => step % 2 = 1 /\ (walk.op # "add" => "remove" \in flags)

\* Without a command the files stay as they were; without one that takes hashes out, they
\* and the hashes in memory hold what they held.
KeptInv ==
  /\ pc # "exit" /\ flags \cap Commands = {} => disk = disk0
  /\ pc # "exit" /\ flags \cap {"clean", "remove"} = {} =>
       disk0 \subseteq disk /\ (pc = "commands" => disk0 \subseteq db)

LEMMA ToolAlive ==
  ASSUME [Next]_vars
  PROVE  disk0' = disk0 /\ (ended' # {} \/ UNCHANGED <<ended, alive>>)
<1>1. CASE \E k \in DOMAIN Processes : ProcessEnds(k)
  BY <1>1 DEF ProcessEnds
<1>2. CASE Parse
  BY <1>2 DEF Parse, ParseFlag, ParseNumber, ParseText, ParseFolder, ParseDb, Parsed,
     RefuseArgument, RefuseFlags, StartWork, LoadFails, LoadHangs, Exit, Hang, jobVars
<1>3. CASE DbCommand
  BY <1>3 DEF DbCommand, ClearDatabase, StartFolder, WalkFolder, EndFolder, FolderEndsTool,
     SaveDatabase, AddSystemHashes, StartDumps, Done, GoOn, Exit, jobVars
<1>4. CASE DumpPid \/ DumpRegion \/ FindProcesses \/ EndMatches \/ DumpSystem \/ SystemHangs
           \/ Finish
  BY <1>4 DEF DumpPid, DumpRegion, FindProcesses, EndMatches, DumpSystem, SystemHangs, Finish,
     Done, GoOn, Hang, jobVars
<1>5. CASE (\E k \in matches : DumpMatch(k) \/ CollectMatch(k)) \/ User
  BY <1>5 DEF DumpMatch, CollectMatch, User, AnswerYes, AnswerNo, QuitMonitor, QuitHangs, Done,
     GoOn, Exit, Hang, jobVars
<1>6. CASE Over \/ UNCHANGED vars
  BY <1>6 DEF Over, vars, jobVars
<1> QED
  BY <1>1, <1>2, <1>3, <1>4, <1>5, <1>6 DEF Next, Tool, Dump

\* A step of the walk changes the hashes by that of one file, and does not end the walk.
LEMMA WalkChanges ==
  ASSUME StackOK, Walk
  PROVE  /\ walk.state # "idle" /\ walk'.state # "idle" /\ walk'.op = walk.op
         /\ walk.op = "add" => db \subseteq db'
<1>1. CASE TakeFile
  <2>1. walk.state = "entry" /\ GoTo("read") /\ db' = AddFile(HashOf[entry.to])
    BY <1>1 DEF TakeFile, Walking
  <2> QED
    <3>1. walk.op = "add" => db \subseteq db'
      BY <2>1 DEF AddFile
    <3> QED
      BY <2>1, <3>1, Goes
<1>2. CASE ~TakeFile
  <2>1. /\ db' = db /\ walk.state # "idle"
        /\ \E s \in {"enter", "read", "entry", "close", "done"} : GoTo(s)
    BY <1>2 DEF Walk, RefuseFolder, EnterFolder, FolderFails, ReadEntry, ReadEnd, CloseFolder,
       TakeFolder, SkipFolder, FileFails, Return, Walking
  <2> QED
    BY <2>1, Goes
<1> QED
  BY <1>1, <1>2

LEMMA ToolDisk ==
  ASSUME PlaceInv, WalkInv, DiskInv, KeptInv, [Next]_vars
  PROVE  DiskInv' /\ KeptInv'
<1>1. disk0' = disk0
  BY ToolAlive
<1>2. step \in Nat /\ Len(DbSteps) \in Nat /\ Len(DbSteps) % 2 = 0
  BY DbStepsAre DEF PlaceInv, StepInv
<1>3. ASSUME UNCHANGED lineVars
      PROVE  DbSteps' = DbSteps /\ flags' = flags
  BY <1>3 DEF lineVars, DbSteps, GenSteps, Deep
<1>4. CASE Parse /\ ~StartWork
  <2>1. /\ pc = "parse" /\ pc' \in {"parse", "exit", "loading"}
        /\ UNCHANGED <<disk, dumped, step>>
    BY <1>4 DEF Parse, ParseFlag, ParseNumber, ParseText, ParseFolder, ParseDb, Parsed, Parsing,
       RefuseArgument, RefuseFlags, LoadFails, LoadHangs, ArgumentsRead, Exit, Hang, jobVars, workVars
  <2> QED
    BY <1>1, <2>1 DEF DiskInv, KeptInv
<1>5. CASE StartWork
  <2>1. /\ pc = "parse" /\ pc' = "commands" /\ db' = disk /\ UNCHANGED lineVars
        /\ UNCHANGED <<walk, disk, dumped, step>>
    BY <1>5 DEF StartWork, ArgumentsRead, WithDb, jobVars
  <2>2. walk.state = "idle"
    BY <2>1 DEF PlaceInv, WalkAt
  <2> QED
    BY <1>1, <1>2, <1>3, <2>1, <2>2 DEF DiskInv, KeptInv
<1>6. CASE ClearDatabase
  <2>1. /\ Doing("clear") /\ step' = step + 1 /\ UNCHANGED <<lineVars, pc>>
        /\ UNCHANGED <<walk, disk, dumped>>
    BY <1>6 DEF ClearDatabase, WithDb, Done, GoOn, jobVars
  <2>2. /\ pc = "commands" /\ step \in 1 .. Len(DbSteps) /\ walk.state = "idle"
        /\ "clean" \in flags /\ step % 2 # 0
    BY <2>1, StepPlace DEF DumpStepOK, DbStepOK
  <2>3. step' <= Len(DbSteps) + 1 /\ step' % 2 # 1
    BY <1>2, <2>1, <2>2
  <2> QED
    BY <1>1, <1>3, <2>1, <2>2, <2>3 DEF DiskInv, KeptInv, Commands
<1>7. CASE AddSystemHashes
  <2>1. /\ Doing("hashes") /\ step' = step + 1 /\ UNCHANGED <<lineVars, pc>>
        /\ UNCHANGED <<walk, disk, dumped>> /\ db \subseteq db'
    BY <1>7 DEF AddSystemHashes, WithDb, Done, GoOn, jobVars
  <2>2. /\ pc = "commands" /\ step \in 1 .. Len(DbSteps) /\ walk.state = "idle"
        /\ step % 2 # 0
    BY <2>1, StepPlace DEF DumpStepOK, DbStepOK
  <2>3. step' <= Len(DbSteps) + 1 /\ step' % 2 # 1
    BY <1>2, <2>1, <2>2
  <2> QED
    BY <1>1, <1>3, <2>1, <2>2, <2>3 DEF DiskInv, KeptInv
<1>8. CASE SaveDatabase
  <2>1. /\ Doing("save") /\ step' = step + 1 /\ UNCHANGED <<lineVars, pc>>
        /\ UNCHANGED <<walk, dumped, db>> /\ disk' = db
    BY <1>8 DEF SaveDatabase, Done, GoOn, walkVars
  <2>2. /\ pc = "commands" /\ step \in 1 .. Len(DbSteps) /\ walk.state = "idle"
        /\ flags \cap Commands # {}
    BY <2>1, StepPlace, DbStepsAre DEF DumpStepOK, DbStepOK, PlaceInv
  <2>3. step' <= Len(DbSteps) + 1
    BY <1>2, <2>1, <2>2
  <2> QED
    BY <1>1, <1>3, <2>1, <2>2, <2>3 DEF DiskInv, KeptInv
<1>9. CASE StartFolder
  <2>1. PICK what \in {"add", "remove"} : Doing(what) /\ Steps[step].what = what
    BY <1>9 DEF StartFolder, Doing
  <2>2. /\ pc = "commands" /\ DbStepOK(step) /\ DbSteps[step].what = what
    BY <2>1, StepPlace DEF DumpStepOK
  <2>3. /\ walk'.state = "enter" /\ walk'.op = what /\ UNCHANGED <<lineVars, pc>>
        /\ UNCHANGED <<step, disk, dumped, db>>
    BY <1>9, <2>1 DEF StartFolder, BeginWalk, jobVars, workVars
  <2>4. step % 2 = 1 /\ (what # "add" => "remove" \in flags)
    BY <1>2, <2>1, <2>2 DEF DbStepOK
  <2> QED
    BY <1>1, <1>3, <2>2, <2>3, <2>4 DEF DiskInv, KeptInv
<1>10. CASE WalkFolder
  <2>1. /\ walk.state # "idle" /\ walk'.state # "idle" /\ walk'.op = walk.op
        /\ walk.op = "add" => db \subseteq db'
    BY <1>10, WalkChanges DEF WalkFolder, WalkInv, HandleInv
  <2>2. UNCHANGED <<lineVars, pc>> /\ UNCHANGED <<step, disk, dumped>> /\ pc \in {"commands", "dumps"}
    BY <1>10 DEF WalkFolder, jobVars, workVars, Working
  <2>3. pc = "commands"
    BY <2>1, <2>2 DEF PlaceInv, WalkAt
  <2> QED
    BY <1>1, <1>3, <2>1, <2>2, <2>3 DEF DiskInv, KeptInv
<1>11. CASE EndFolder
  <2>1. /\ walk.state = "done" /\ walk'.state = "idle" /\ step' = step + 1
        /\ UNCHANGED <<lineVars, pc>> /\ UNCHANGED <<disk, dumped, db>> /\ pc \in {"commands", "dumps"}
    BY <1>11 DEF EndFolder, Walking, NoWalk, Done, GoOn, jobVars, Working
  <2>2. pc = "commands" /\ step <= Len(DbSteps)
    BY <2>1 DEF PlaceInv, WalkAt
  <2>3. step' <= Len(DbSteps) + 1 /\ step' % 2 # 1
    BY <1>2, <2>1, <2>2 DEF DiskInv
  <2> QED
    BY <1>1, <1>3, <2>1, <2>2, <2>3 DEF DiskInv, KeptInv
<1>12. CASE FolderEndsTool \/ AnswerNo
  BY <1>12 DEF FolderEndsTool, AnswerNo, Exit, DiskInv, KeptInv
\* The rest leaves the files alone, and comes after the commands or is no step of the tool.
<1>13. ASSUME UNCHANGED <<lineVars, disk>>, pc # "exit",
              pc' \in {"dumps", "end", "dumping", "quitting"}
       PROVE  DiskInv' /\ KeptInv'
  BY <1>1, <1>3, <1>13 DEF DiskInv, KeptInv
<1>14. CASE StartDumps \/ Finish
  BY <1>13, <1>14 DEF StartDumps, Finish, jobVars
<1>15. CASE \/ DumpPid \/ DumpRegion \/ DumpSystem \/ AnswerYes \/ QuitMonitor
            \/ FindProcesses \/ EndMatches \/ \E k \in matches : DumpMatch(k) \/ CollectMatch(k)
  <2>1. /\ \E what \in {"pid", "region", "system", "ask", "closemon", "find", "dump", "collect"} :
             Doing(what)
        /\ UNCHANGED <<lineVars, pc, disk>>
    BY <1>15 DEF DumpPid, DumpRegion, DumpSystem, AnswerYes, QuitMonitor, FindProcesses, EndMatches,
       DumpMatch, CollectMatch, Done, GoOn, jobVars
  <2>2. pc = "dumps"
    BY <2>1, StepPlace DEF DbStepOK
  <2> QED
    BY <1>13, <2>1, <2>2
<1>17. CASE SystemHangs \/ QuitHangs
  <2>1. UNCHANGED <<lineVars, disk>> /\ pc # "exit" /\ pc' \in {"dumping", "quitting"}
    BY <1>17 DEF SystemHangs, QuitHangs, Hang, Doing, Working
  <2> QED
    BY <1>13, <2>1
<1>16. CASE (\E k \in DOMAIN Processes : ProcessEnds(k)) \/ Over \/ UNCHANGED vars
  <2>1. UNCHANGED <<lineVars, pc, step, disk, dumped, walk, db>>
    BY <1>16 DEF ProcessEnds, Over, vars, walkVars, workVars, jobVars
  <2> QED
    BY <1>1, <1>3, <2>1 DEF DiskInv, KeptInv
<1> QED
  BY <1>4, <1>5, <1>6, <1>7, <1>8, <1>9, <1>10, <1>11, <1>12, <1>14, <1>15, <1>16, <1>17
     DEF Next, Tool, DbCommand, Dump, User

\* What is in memory when the dumps begin, but for NoHash.
HashesAt(k) == Processes[k].hashes \ {NoHash}
Held == IF "ignore" \in flags THEN {} ELSE disk

\* A dump is of one of the processes in K, each of their modules is in one, and none in
\* two.
DumpsOf(these, held, K) ==
  /\ \A d \in these : \E k \in K : \E h \in HashesAt(k) \ held : d = <<k, h>>
  /\ \A k \in K : \A h \in HashesAt(k) \ held : \E j \in K : <<j, h>> \in these
  /\ \A a, b \in K : \A h \in HashesAt(a) : <<a, h>> \in these /\ <<b, h>> \in these => a = b

LEMMA NoDumps == ASSUME NEW held PROVE DumpsOf({}, held, {})
BY DEF DumpsOf

\* The dump of one more process, while the hashes of the others are in memory.
LEMMA DumpsMore ==
  ASSUME NEW these, NEW held, NEW K, NEW k, k \notin K, DumpsOf(these, held, K),
         NEW hashes, hashes = held \cup UNION {HashesAt(j) : j \in K},
         NEW more, more = these \cup ({k} \X (HashesAt(k) \ hashes))
  PROVE  DumpsOf(more, held, K \cup {k})
<1>1. \A h : h \in hashes <=> h \in held \/ \E j \in K : h \in HashesAt(j)
  OBVIOUS
<1>2. \A a, h : <<a, h>> \in more <=>
                  <<a, h>> \in these \/ (a = k /\ h \in HashesAt(k) /\ h \notin hashes)
  OBVIOUS
<1>3. \A a, h : <<a, h>> \in these => a \in K /\ h \in HashesAt(a) /\ h \notin held
  BY DEF DumpsOf
<1>4. ASSUME NEW d \in more
      PROVE  \E j \in K \cup {k} : \E h \in HashesAt(j) \ held : d = <<j, h>>
  <2>1. CASE d \in these
    BY <2>1 DEF DumpsOf
  <2>2. CASE d \notin these
    <3>1. PICK h \in HashesAt(k) \ hashes : d = <<k, h>>
      BY <1>4, <2>2
    <3> QED
      BY <1>1, <3>1
  <2> QED
    BY <2>1, <2>2
<1>5. ASSUME NEW i0 \in K \cup {k}, NEW h \in HashesAt(i0) \ held
      PROVE  \E j \in K \cup {k} : <<j, h>> \in more
  <2>1. CASE \E j \in K : h \in HashesAt(j)
    <3>1. \E j \in K : <<j, h>> \in these
      BY <1>5, <2>1 DEF DumpsOf
    <3> QED
      BY <1>2, <3>1
  <2>2. CASE ~\E j \in K : h \in HashesAt(j)
    BY <1>1, <1>2, <1>5, <2>2
  <2> QED
    BY <2>1, <2>2
<1>6. ASSUME NEW a \in K \cup {k}, NEW b \in K \cup {k}, NEW h \in HashesAt(a),
             <<a, h>> \in more, <<b, h>> \in more
      PROVE  a = b
  <2>1. CASE <<a, h>> \in these /\ <<b, h>> \in these
    BY <1>3, <2>1 DEF DumpsOf
  <2>2. CASE <<a, h>> \in these /\ <<b, h>> \notin these
    BY <1>1, <1>2, <1>3, <1>6, <2>2
  <2>3. CASE <<a, h>> \notin these /\ <<b, h>> \in these
    BY <1>1, <1>2, <1>3, <1>6, <2>3
  <2>4. CASE <<a, h>> \notin these /\ <<b, h>> \notin these
    BY <1>2, <1>6, <2>4
  <2> QED
    BY <2>1, <2>2, <2>3, <2>4
<1> QED
  BY <1>4, <1>5, <1>6 DEF DumpsOf

\* The processes of which the dumps are written, and those whose hashes have been
\* taken in.
Dealt ==
  IF "-p" \in flags THEN
    IF step <= 2 THEN {}
    ELSE IF step = 4 THEN Wanted \ {k \in matches : ~Foremost(k)} ELSE Wanted \ matches
  ELSE IF step = 1 THEN {} ELSE Wanted
Collected == IF "-p" \in flags /\ step > 2 THEN Wanted \ matches ELSE {}

MatchInv ==
  "-p" \in flags => /\ step = 2 => matches = Wanted
                    /\ step > 2 => matches \subseteq Wanted
                    /\ step > 4 => matches = {}
Dumping == pc \in {"dumps", "end"} /\ ended = {} /\ "-system" \notin flags
DumpInv ==
  Dumping =>
    /\ pc = "end" => step > Len(DumpSteps)
    /\ MatchInv
    /\ db = Held \cup UNION {HashesAt(k) : k \in Collected}
    /\ DumpsOf(dumped, Held, Dealt)

LEMMA WantedOf ==
  ASSUME OneJob
  PROVE  /\ "-p" \notin flags /\ ("-pid" \notin flags \/ "-a" \in flags) => Wanted = {}
         /\ "-p" \notin flags /\ "-pid" \in flags /\ "-a" \notin flags =>
              Wanted = {k \in DOMAIN Processes : Processes[k].pid = values.pid}
         /\ "-p" \in flags => "-pid" \notin flags /\ Wanted =
              IF values.name \in DOMAIN MatchesOf
              THEN {k \in DOMAIN Processes : k > 1 /\ Processes[k].name \in MatchesOf[values.name]}
              ELSE {}
         /\ Wanted \subseteq DOMAIN Processes
<1>1. "-p" \in flags => "-pid" \notin flags
  BY DEF OneJob, Jobs
<1>2. (flags \cap {"-pid", "-a"} = {"-pid"}) <=> ("-pid" \in flags /\ "-a" \notin flags)
  OBVIOUS
<1> QED
  BY <1>1, <1>2 DEF Wanted

\* What is asked for stays what it is.
LEMMA SameWork ==
  ASSUME UNCHANGED lineVars
  PROVE  /\ flags' = flags /\ values' = values /\ Wanted' = Wanted /\ DumpSteps' = DumpSteps
         /\ OneJob' <=> OneJob
         /\ disk' = disk => Held' = Held
BY DEF lineVars, Wanted, DumpSteps, OneJob, Held

DumpWork == MatchInv /\ db = Held \cup UNION {HashesAt(k) : k \in Collected}
            /\ DumpsOf(dumped, Held, Dealt)

LEMMA ToolDumps ==
  ASSUME PlaceInv, AliveInv, DiskInv, DumpInv, [Next]_vars
  PROVE  DumpInv'
<1> SUFFICES ASSUME Dumping' PROVE (pc = "end" => step > Len(DumpSteps))' /\ DumpWork'
  BY DEF DumpInv, DumpWork
<1>1. ended = {} /\ alive = DOMAIN Processes /\ alive' = alive
  BY ToolAlive DEF AliveInv, Dumping
<1>2. step \in Nat \ {0} /\ (pc \in {"commands", "dumps", "end"} => OneJob)
  BY DEF PlaceInv, StepInv
\* A step of the dumps.
<1>3. ASSUME NEW what, Doing(what), UNCHANGED <<lineVars, pc>>,
             what \notin {"clear", "add", "remove", "hashes", "save"}
      PROVE  /\ pc = "dumps" /\ DumpStepOK(step) /\ DumpSteps[step].what = what /\ OneJob
             /\ step \in 1 .. Len(DumpSteps) /\ DumpWork
  <2>1. pc = "dumps"
    BY <1>3, StepPlace DEF DbStepOK
  <2>2. /\ DumpStepOK(step) /\ DumpSteps[step].what = what /\ OneJob
        /\ step \in 1 .. Len(DumpSteps)
    BY <1>3, <2>1, StepPlace
  <2>3. Dumping
    BY <1>1, <1>3, <2>1 DEF Dumping, lineVars
  <2> QED
    BY <2>1, <2>2, <2>3 DEF DumpInv, DumpWork
\* Nothing was asked for that the step could be about.
<1>4. ASSUME DumpWork, OneJob, "-p" \notin flags, "-pid" \notin flags \/ "-a" \in flags,
             UNCHANGED <<lineVars, disk, db, dumped>>
      PROVE  DumpWork'
  <2>1. Wanted = {} /\ Wanted' = {} /\ flags' = flags /\ Held' = Held
    BY <1>4, WantedOf, SameWork
  <2>2. Dealt = {} /\ Dealt' = {} /\ Collected = {} /\ Collected' = {}
    BY <1>4, <2>1 DEF Dealt, Collected
  <2> QED
    BY <1>4, <2>1, <2>2 DEF DumpWork, MatchInv
<1>5. CASE StartDumps
  <2>1. /\ pc = "commands" /\ ~(step <= Len(DbSteps)) /\ pc' = "dumps" /\ step' = 1
        /\ db' = IF "ignore" \in flags THEN {} ELSE db
        /\ UNCHANGED <<lineVars, disk, dumped>>
    BY <1>2, <1>5, DbStepsAre DEF StartDumps, WithDb, Steps, jobVars, PlaceInv
  <2>2. walk.state = "idle"
    BY <2>1 DEF PlaceInv, WalkAt
  <2>3. step % 2 = 1
    <3>1. /\ Len(DbSteps) \in Nat /\ Len(DbSteps) % 2 = 0
          /\ step <= Len(DbSteps) + 1 /\ ~(step <= Len(DbSteps))
      BY <2>1, DbStepsAre DEF DiskInv, PlaceInv
    <3> QED
      BY <1>2, <3>1
  <2>4. db = disk /\ dumped = {}
    BY <2>1, <2>2, <2>3 DEF DiskInv
  <2>5. Held' = Held /\ flags' = flags /\ db' = Held
    BY <2>1, <2>4, SameWork DEF Held
  <2>6. Dealt' = {} /\ Collected' = {} /\ MatchInv'
    BY <2>1 DEF Dealt, Collected, MatchInv
  <2> QED
    BY <2>1, <2>4, <2>5, <2>6, NoDumps DEF DumpWork
<1>6. CASE DumpPid
  <2>1. /\ Doing("pid") /\ step' = step + 1 /\ UNCHANGED <<lineVars, pc, disk, db>>
        /\ dumped' = dumped \cup UNION {{k} \X (HashesOf(k) \ db) : k \in Asked}
    BY <1>6 DEF DumpPid, DumpAll, Done, GoOn, walkVars
  <2>2. /\ pc = "dumps" /\ DumpStepOK(step) /\ DumpSteps[step].what = "pid" /\ OneJob
        /\ step \in 1 .. Len(DumpSteps) /\ DumpWork
    BY <1>3, <2>1
  <2>3. "-pid" \in flags /\ "-a" \notin flags /\ "-p" \notin flags
    BY <2>2, WantedOf DEF DumpStepOK
  <2>4. step = 1
    <3>1. DumpSteps = <<Step("pid")>>
      BY <2>2, <2>3, DumpStepsAre
    <3> QED
      BY <1>2, <2>2, <3>1
  <2>5. flags' = flags /\ Held' = Held /\ Wanted' = Wanted
    BY <2>1, SameWork
  <2>6. /\ Dealt = {} /\ Dealt' = Wanted /\ Collected = {} /\ Collected' = {} /\ MatchInv'
    BY <2>1, <2>3, <2>4, <2>5 DEF Dealt, Collected, MatchInv
  <2>7. dumped = {} /\ db = Held
    BY <2>2, <2>6 DEF DumpWork, DumpsOf
  <2>8. Asked = Wanted /\ \A k \in Wanted : HashesOf(k) = HashesAt(k)
    BY <1>1, <2>2, <2>3, WantedOf DEF Asked, HashesOf, HashesAt
  <2>9. \A a, b \in Wanted : a = b
    BY <2>2, <2>3, WantedOf, CommandLineAssumption
  <2>10. dumped' = UNION {{k} \X (HashesAt(k) \ Held) : k \in Wanted}
    BY <2>1, <2>7, <2>8
  <2>11. DumpsOf(dumped', Held, Wanted)
    <3>1. \A d \in dumped' : \E k \in Wanted : \E h \in HashesAt(k) \ Held : d = <<k, h>>
      BY <2>10
    <3>2. \A k \in Wanted : \A h \in HashesAt(k) \ Held : <<k, h>> \in dumped'
      BY <2>10
    <3> QED
      BY <2>9, <3>1, <3>2 DEF DumpsOf
  <2> QED
    BY <2>1, <2>2, <2>5, <2>6, <2>7, <2>11 DEF DumpWork
<1>7. CASE DumpRegion \/ QuitMonitor
  <2>1. PICK what \in {"region", "closemon"} : Doing(what)
    BY <1>7 DEF DumpRegion, QuitMonitor
  <2>2. UNCHANGED <<lineVars, pc>> /\ UNCHANGED <<disk, db, dumped>>
    BY <1>7 DEF DumpRegion, QuitMonitor, Done, GoOn, walkVars, jobVars
  <2>3. /\ pc = "dumps" /\ DumpStepOK(step) /\ DumpSteps[step].what = what /\ OneJob /\ DumpWork
    BY <1>3, <2>1, <2>2
  <2>4. "-p" \notin flags /\ ("-pid" \notin flags \/ "-a" \in flags)
    BY <2>1, <2>3 DEF DumpStepOK, OneJob, Jobs
  <2>5. DumpWork'
    BY <1>4, <2>2, <2>3, <2>4
  <2> QED
    BY <2>2, <2>3, <2>5
<1>8. CASE FindProcesses
  <2>1. /\ Doing("find") /\ matches' = Found /\ step' \in {step + 1, step + 2}
        /\ UNCHANGED <<lineVars, pc, disk, db, dumped>>
    BY <1>8 DEF FindProcesses, GoOn, jobVars, walkVars
  <2>2. /\ pc = "dumps" /\ DumpStepOK(step) /\ DumpSteps[step].what = "find" /\ OneJob /\ DumpWork
    BY <1>3, <2>1
  <2>3. "-p" \in flags /\ step = 1 /\ step' \in {2, 3}
    BY <2>1, <2>2 DEF DumpStepOK
  <2>4. flags' = flags /\ Held' = Held /\ Wanted' = Wanted
    BY <2>1, SameWork
  <2>5. Found = Wanted
    <3>1. Listed = {k \in DOMAIN Processes : k > 1}
      BY <1>1, CommandLineAssumption DEF Listed
    <3> QED
      BY <2>2, <2>3, <3>1, WantedOf DEF Found
  <2>6. MatchInv' /\ Dealt = {} /\ Dealt' = {} /\ Collected = {} /\ Collected' = {}
    BY <2>1, <2>3, <2>4, <2>5 DEF MatchInv, Dealt, Collected
  <2> QED
    BY <2>1, <2>2, <2>4, <2>6 DEF DumpWork
<1>9. CASE AnswerYes
  <2>1. /\ Doing("ask") /\ step' = step + 1
        /\ UNCHANGED <<lineVars, pc, matches, disk, db, dumped>>
    BY <1>9 DEF AnswerYes, Done, GoOn, jobVars, walkVars
  <2>2. /\ pc = "dumps" /\ DumpStepOK(step) /\ DumpSteps[step].what = "ask" /\ OneJob /\ DumpWork
    BY <1>3, <2>1
  <2>3. "-p" \in flags /\ step = 2 /\ step' = 3
    BY <2>1, <2>2 DEF DumpStepOK
  <2>4. flags' = flags /\ Held' = Held /\ Wanted' = Wanted
    BY <2>1, SameWork
  <2>5. matches = Wanted
    BY <2>2, <2>3 DEF DumpWork, MatchInv
  <2>6. MatchInv' /\ Dealt = {} /\ Dealt' = {} /\ Collected = {} /\ Collected' = {}
    BY <2>1, <2>3, <2>4, <2>5 DEF MatchInv, Dealt, Collected
  <2> QED
    BY <2>1, <2>2, <2>4, <2>6 DEF DumpWork
<1>10. ASSUME NEW k \in matches, DumpMatch(k)
       PROVE  pc' = "dumps" /\ DumpWork'
  <2>1. /\ Doing("dump") /\ Foremost(k) /\ step' = step + 1
        /\ UNCHANGED <<lineVars, pc, matches, disk, db>>
        /\ dumped' = dumped \cup UNION {{j} \X (HashesOf(j) \ db) : j \in {k}}
    BY <1>10 DEF DumpMatch, DumpAll, Done, GoOn, walkVars
  <2>2. /\ pc = "dumps" /\ DumpStepOK(step) /\ DumpSteps[step].what = "dump" /\ OneJob /\ DumpWork
    BY <1>3, <2>1
  <2>3. "-p" \in flags /\ step = 3 /\ step' = 4
    BY <2>1, <2>2 DEF DumpStepOK
  <2>4. flags' = flags /\ Held' = Held /\ Wanted' = Wanted
    BY <2>1, SameWork
  <2>5. matches \subseteq Wanted /\ Wanted \subseteq DOMAIN Processes /\ k \in alive
    BY <1>1, <2>2, <2>3, WantedOf DEF DumpWork, MatchInv
  <2>6. {j \in matches : ~Foremost(j)} = matches \ {k}
    BY <1>10, <2>1, <2>5, CommandLineAssumption DEF Foremost
  <2>7. {j \in matches : ~Foremost(j)}' = matches \ {k}
    BY <2>1, <2>6 DEF Foremost
  <2>8. /\ MatchInv' /\ Dealt = Wanted \ matches /\ Dealt' = (Wanted \ matches) \cup {k}
        /\ Collected = Wanted \ matches /\ Collected' = Wanted \ matches
    <3>1. MatchInv'
      BY <2>1, <2>3, <2>4, <2>5 DEF MatchInv
    <3>2. Dealt = Wanted \ matches /\ Collected = Wanted \ matches /\ Collected' = Wanted \ matches
      BY <2>1, <2>3, <2>4 DEF Dealt, Collected
    <3>3. Dealt' = Wanted \ (matches \ {k})
      BY <2>3, <2>4, <2>7 DEF Dealt
    <3> QED
      BY <1>10, <2>5, <3>1, <3>2, <3>3
  <2>9. DumpsOf(dumped', Held, Dealt')
    <3> DEFINE K == Wanted \ matches
               hashes == db
    <3>1. k \notin K /\ DumpsOf(dumped, Held, K)
          /\ db = Held \cup UNION {HashesAt(j) : j \in K}
      BY <1>10, <2>2, <2>8 DEF DumpWork
    <3>2. dumped' = dumped \cup ({k} \X (HashesAt(k) \ db))
      BY <2>1, <2>5 DEF HashesOf, HashesAt
    <3> HIDE DEF K
    <3>3. DumpsOf(dumped', Held, K \cup {k})
      BY <3>1, <3>2, DumpsMore
    <3> QED
      BY <2>8, <3>3 DEF K
  <2> QED
    BY <2>1, <2>2, <2>4, <2>8, <2>9 DEF DumpWork
<1>11. ASSUME NEW k \in matches, CollectMatch(k)
       PROVE  pc' = "dumps" /\ DumpWork'
  <2>1. /\ Doing("collect") /\ Foremost(k) /\ step' = step - 1 /\ matches' = matches \ {k}
        /\ UNCHANGED <<lineVars, pc, disk, dumped>> /\ db' = db \cup HashesOf(k)
    BY <1>11 DEF CollectMatch, GoOn, WithDb, jobVars
  <2>2. /\ pc = "dumps" /\ DumpStepOK(step) /\ DumpSteps[step].what = "collect" /\ OneJob /\ DumpWork
    BY <1>3, <2>1
  <2>3. "-p" \in flags /\ step = 4 /\ step' = 3
    BY <2>1, <2>2 DEF DumpStepOK
  <2>4. flags' = flags /\ Held' = Held /\ Wanted' = Wanted
    BY <2>1, SameWork
  <2>5. matches \subseteq Wanted /\ Wanted \subseteq DOMAIN Processes /\ k \in alive
    BY <1>1, <2>2, <2>3, WantedOf DEF DumpWork, MatchInv
  <2>6. {j \in matches : ~Foremost(j)} = matches \ {k}
    BY <1>11, <2>1, <2>5, CommandLineAssumption DEF Foremost
  <2>7. MatchInv'
    BY <2>1, <2>3, <2>4, <2>5 DEF MatchInv
  <2>8. Dealt = Wanted \ (matches \ {k}) /\ Dealt' = Dealt
    BY <2>1, <2>3, <2>4, <2>6 DEF Dealt
  <2>9. Collected' = Collected \cup {k}
    BY <1>11, <2>1, <2>3, <2>4, <2>5 DEF Collected
  <2>10. db' = Held \cup UNION {HashesAt(j) : j \in Collected'}
    <3>1. HashesOf(k) = HashesAt(k)
      BY <2>5 DEF HashesOf, HashesAt
    <3>2. db = Held \cup UNION {HashesAt(j) : j \in Collected}
      BY <2>2 DEF DumpWork
    <3> QED
      BY <2>1, <2>9, <3>1, <3>2
  <2> QED
    BY <2>1, <2>2, <2>4, <2>7, <2>8, <2>10 DEF DumpWork
<1>12. CASE EndMatches
  <2>1. /\ Doing("dump") /\ matches = {} /\ step' = step + 2
        /\ UNCHANGED <<lineVars, pc, matches, disk, db, dumped>>
    BY <1>12 DEF EndMatches, GoOn, jobVars, walkVars
  <2>2. /\ pc = "dumps" /\ DumpStepOK(step) /\ DumpSteps[step].what = "dump" /\ OneJob /\ DumpWork
    BY <1>3, <2>1
  <2>3. "-p" \in flags /\ step = 3 /\ step' = 5
    BY <2>1, <2>2 DEF DumpStepOK
  <2>4. flags' = flags /\ Held' = Held /\ Wanted' = Wanted
    BY <2>1, SameWork
  <2>5. MatchInv' /\ Dealt' = Dealt /\ Collected' = Collected
    BY <2>1, <2>3, <2>4 DEF MatchInv, Dealt, Collected
  <2> QED
    BY <2>1, <2>2, <2>4, <2>5 DEF DumpWork
<1>13. ASSUME UNCHANGED <<lineVars, step, matches, disk, db, dumped>>, DumpWork
       PROVE  DumpWork'
  <2>1. flags' = flags /\ Held' = Held /\ Wanted' = Wanted
    BY <1>13, SameWork
  <2> QED
    BY <1>13, <2>1 DEF DumpWork, MatchInv, Dealt, Collected, Foremost
<1>14. CASE Finish
  <2>1. /\ pc = "dumps" /\ step > Len(DumpSteps)
        /\ UNCHANGED <<lineVars, step, matches, disk, db, dumped>>
    BY <1>14 DEF Finish, Steps, jobVars, walkVars
  <2>2. Dumping
    BY <1>1, <2>1 DEF Dumping, lineVars
  <2>3. DumpWork'
    BY <1>13, <2>1, <2>2 DEF DumpInv, DumpWork
  <2> QED
    BY <2>1, <2>3, SameWork
<1>15. CASE Over \/ UNCHANGED vars
  <2>1. UNCHANGED <<lineVars, pc, step, matches, disk, db, dumped, ended>>
    BY <1>15 DEF Over, vars, workVars, jobVars, walkVars
  <2>2. Dumping
    BY <2>1 DEF Dumping, lineVars
  <2>3. DumpWork'
    BY <1>13, <2>1, <2>2 DEF DumpInv, DumpWork
  <2> QED
    BY <2>1, <2>2, <2>3, SameWork DEF DumpInv
\* What comes before the dumps, or ends the tool or stops it, or is not about what was
\* asked for.
<1>16. CASE Parse \/ AnswerNo \/ FolderEndsTool \/ SystemHangs \/ QuitHangs
  BY <1>16 DEF Parse, ParseFlag, ParseNumber, ParseText, ParseFolder, ParseDb, Parsed, Parsing,
     RefuseArgument, RefuseFlags, StartWork, LoadFails, LoadHangs, ArgumentsRead, AnswerNo,
     FolderEndsTool, SystemHangs, QuitHangs, Exit, Hang, workVars, Dumping
<1>17. CASE ClearDatabase \/ StartFolder \/ SaveDatabase \/ AddSystemHashes
  <2>1. \E what \in {"clear", "add", "remove", "save", "hashes"} : Doing(what)
    BY <1>17 DEF ClearDatabase, StartFolder, SaveDatabase, AddSystemHashes
  <2>2. pc = "commands"
    BY <2>1, StepPlace DEF DumpStepOK
  <2>3. pc' = pc
    BY <1>17 DEF ClearDatabase, StartFolder, SaveDatabase, AddSystemHashes, Done, GoOn, workVars
  <2> QED
    BY <2>2, <2>3 DEF Dumping
<1>18. CASE WalkFolder \/ EndFolder
  <2>1. walk.state # "idle" /\ pc' = pc /\ pc \in {"commands", "dumps"}
    BY <1>18 DEF WalkFolder, EndFolder, Walk, RefuseFolder, EnterFolder, FolderFails, ReadEntry,
       ReadEnd, CloseFolder, TakeFolder, SkipFolder, TakeFile, FileFails, Walking, Done, GoOn,
       workVars, Working
  <2> QED
    BY <2>1 DEF PlaceInv, WalkAt, Dumping
<1>19. CASE DumpSystem
  <2>1. Doing("system") /\ UNCHANGED <<lineVars, pc>>
    BY <1>19 DEF DumpSystem, Done, GoOn
  <2>2. "-system" \in flags
    BY <1>3, <2>1 DEF DumpStepOK
  <2> QED
    BY <2>1, <2>2 DEF Dumping, lineVars
<1>20. CASE \E k \in DOMAIN Processes : ProcessEnds(k)
  BY <1>20 DEF ProcessEnds, Dumping
<1> QED
  BY <1>5, <1>6, <1>7, <1>8, <1>9, <1>10, <1>11, <1>12, <1>14, <1>15, <1>16, <1>17, <1>18,
     <1>19, <1>20 DEF Next, Tool, DbCommand, Dump, User

DumpsInv == AliveInv /\ DiskInv /\ KeptInv /\ DumpInv

LEMMA ToolIsAsked ==
  ASSUME PlaceInv, DumpsInv, pc = "end", ended = {}, "-system" \notin flags
  PROVE  DumpsAsAsked
<1>1. OneJob /\ step \in Nat \ {0} /\ step > Len(DumpSteps) /\ MatchInv
      /\ DumpsOf(dumped, Held, Dealt)
  BY DEF PlaceInv, StepInv, DumpsInv, DumpInv, Dumping
<1>2. Dealt = Wanted
  <2>1. CASE "-p" \in flags
    <3>1. Len(DumpSteps) = 4
      BY <1>1, <2>1, DumpStepsAre
    <3>2. step > 4 /\ matches = {}
      BY <1>1, <2>1, <3>1 DEF MatchInv
    <3> QED
      BY <1>1, <2>1, <3>2 DEF Dealt
  <2>2. CASE "-p" \notin flags /\ "-pid" \in flags /\ "-a" \notin flags
    <3>1. Len(DumpSteps) = 1
      BY <1>1, <2>2, DumpStepsAre
    <3> QED
      BY <1>1, <2>2, <3>1 DEF Dealt
  <2>3. CASE "-p" \notin flags /\ ("-pid" \notin flags \/ "-a" \in flags)
    BY <1>1, <2>3, WantedOf DEF Dealt
  <2> QED
    BY <2>1, <2>2, <2>3
<1>3. DumpsOf(dumped, Held, Wanted)
  BY <1>1, <1>2
<1>4. Excluded = Held \cup {NoHash}
  BY DEF Excluded, Held
<1>5. \A d \in dumped : d[1] \in Wanted /\ d[2] \notin Excluded
  BY <1>3, <1>4 DEF DumpsOf, HashesAt
<1>6. ASSUME NEW k \in Wanted, NEW h \in Processes[k].hashes \ Excluded
      PROVE  \E j \in Wanted : {l \in Wanted : <<l, h>> \in dumped} = {j}
  <2>1. h \in HashesAt(k) \ Held
    BY <1>4, <1>6 DEF HashesAt
  <2>2. PICK j \in Wanted : <<j, h>> \in dumped
    BY <1>3, <2>1 DEF DumpsOf
  <2>3. h \in HashesAt(j)
    BY <1>3, <2>2 DEF DumpsOf
  <2>4. \A l \in Wanted : <<l, h>> \in dumped => l = j
    BY <1>3, <2>2, <2>3 DEF DumpsOf
  <2> QED
    BY <2>2, <2>4
<1>7. /\ flags \cap Commands = {} => disk = disk0
      /\ flags \cap {"clean", "remove"} = {} => disk0 \subseteq disk
  BY DEF DumpsInv, KeptInv
<1> QED
  BY <1>5, <1>6, <1>7 DEF DumpsAsAsked, Commands

\* When the tool comes to its end and no process has ended meanwhile, every module of
\* every process that was asked for is in exactly one dump, unless the database holds it
\* (with "-db ignore" it holds nothing), nothing else is in a dump, and the files of the
\* database are what the commands have made of them: for every command line that is
\* accepted and every list of processes.
THEOREM ToolDumpsAsAsked == Spec => []DumpsAsAsked
<1>1. Init => DumpsInv
  <2> SUFFICES ASSUME Init PROVE DumpsInv
    OBVIOUS
  <2>1. /\ pc = "parse" /\ step = 1 /\ disk = disk0 /\ dumped = {} /\ alive = DOMAIN Processes
    BY DEF Init
  <2>2. AliveInv /\ DiskInv /\ KeptInv
    BY <2>1 DEF AliveInv, DiskInv, KeptInv
  <2>3. DumpInv
    BY <2>1 DEF DumpInv, Dumping
  <2> QED
    BY <2>2, <2>3 DEF DumpsInv
<1>2. (PlaceInv /\ WalkInv) /\ DumpsInv /\ [Next]_vars => DumpsInv'
  <2> SUFFICES ASSUME PlaceInv, WalkInv, DumpsInv, [Next]_vars PROVE DumpsInv'
    OBVIOUS
  <2>1. AliveInv'
    BY ToolAlive DEF DumpsInv, AliveInv
  <2>2. DiskInv' /\ KeptInv'
    BY ToolDisk DEF DumpsInv
  <2>3. DumpInv'
    BY ToolDumps DEF DumpsInv
  <2> QED
    BY <2>1, <2>2, <2>3 DEF DumpsInv
<1>3. PlaceInv /\ DumpsInv => DumpsAsAsked
  <2> SUFFICES ASSUME PlaceInv, DumpsInv PROVE DumpsAsAsked
    OBVIOUS
  <2>1. CASE pc = "end" /\ ended = {} /\ "-system" \notin flags
    BY <2>1, ToolIsAsked
  <2>2. CASE ~(pc = "end" /\ ended = {} /\ "-system" \notin flags)
    BY <2>2 DEF DumpsAsAsked
  <2> QED
    BY <2>1, <2>2
<1> QED
  BY <1>1, <1>2, <1>3, PlaceHolds, PTL DEF Spec
=============================================================================
