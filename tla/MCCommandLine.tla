---------------------------- MODULE MCCommandLine ----------------------------
(* A small disk, a few processes and the command lines for CommandLine.       *)
EXTENDS CommandLine, TLC

\* The folder "top" holds a folder with a program, folders whose names are outside
\* the code page, with an 8.3 name and without, a link back to itself, and programs with
\* names of every sort.
Entry(kind, name, to) == [kind |-> kind, name |-> name, to |-> to]
Dots(d) == <<Entry("self", "plain", d), Entry("parent", "plain", "top")>>
TopEntries == Dots("top") \o
    <<Entry("file", "plain", "f1"), Entry("dir", "accented", "sub"), Entry("dir", "wide", "lost"),
      Entry("dir", "short", "odd"), Entry("file", "accented", "f3"), Entry("dir", "plain", "link"), Entry("file", "plain", "text")>>
MCEntries == ("top" :> TopEntries) @@ ("link" :> TopEntries) @@
             ("sub" :> Dots("sub") \o <<Entry("file", "plain", "f2")>>) @@
             ("lost" :> Dots("lost") \o <<Entry("file", "plain", "f4")>>) @@
             ("odd" :> Dots("odd") \o <<Entry("file", "short", "f5"), Entry("file", "wide", "f6")>>)
MCDirs == DOMAIN MCEntries
MCHashOf == [f \in {"f1", "f2", "f3", "f4", "f5", "f6", "text"} |->
    CASE f = "f1" -> 1 [] f = "f2" -> 2 [] f = "f3" -> 3 [] f = "f4" -> 4 [] f = "f5" -> 10
    [] f = "f6" -> 11 [] f = "text" -> 0]

Process(pid, name, hashes) == [pid |-> pid, name |-> name, hashes |-> hashes]
MCProcesses == <<Process(0, "idle", {}), Process(4, "chrome", {1, 5, 6}),
                 Process(8, "chrome", {0, 5, 7}), Process(12, "other", {2, 5, 8})>>
MCMatches == ("chrome" :> {"chrome"}) @@ (".*" :> {"idle", "chrome", "other"}) @@ ("other" :> {"other"})
MCNumber == ("4" :> 4) @@ ("0x8" :> 8) @@ ("0" :> 0) @@ ("-1" :> -1)

MCLines == {
    << >>, <<"-h", "-nh", "-v">>, <<"-x">>, <<"-pid">>, <<"-pid", "chrome">>,
    <<"-pid", "4">>, <<"-pid", "0x8", "-db", "ignore", "-nc">>, <<"-a", "4", "-pid", "0x8">>,
    <<"-a", "4">>, <<"-a">>, <<"-t", "0">>, <<"-t", "-1">>, <<"-t">>,
    <<"-t", "4", "-nt", "-system">>, <<"-closemon", "-o", "-g">>, <<"-o">>,
    <<"-p", "chrome", "-eprec">>, <<"-p", "other", "-nep">>, <<"-p", "(", "-ni">>, <<"-p">>,
    <<"-p", ".*", "-db", "ignore">>, <<"-pid", "4", "-p", "chrome">>, <<"-system", "-db", "gen">>,
    <<"-db", "gen">>, <<"-db", "genquick", "-c", "path">>, <<"-db", "clean">>, <<"-db">>,
    <<"-db", "add", "top">>, <<"-db", "add", "top", "-nr">>, <<"-db", "add", "link">>,
    <<"-db", "add", "none">>, <<"-db", "add">>, <<"-db", "what", "-g">>,
    <<"-db", "add", "odd", "-db", "remove", "sub">>, <<"-db", "add", "sub", "-db", "ignore">>,
    <<"-db", "remove", "top", "-pid", "4">>, <<"-db", "remove", "link", "-nr", "-p", ".*">>}
MCFolderOf == [d \in MCDirs |-> d]
MCGenFolders == <<"sub", "odd">>
MCDisks == {{}, {1, 3, 5, 9, 10}}
===============================================================================
