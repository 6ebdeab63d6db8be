-------------------------------- MODULE MCGates --------------------------------
(* Cyrius in which the scanner can lose its place; bundles of up to three     *)
(* lines, each a declaration of one of many forms; and trees of up to four    *)
(* files and manifest entries.                                                *)
EXTENDS Gates, BuildScan

MCReaderNames == {"cyr", "cyr_lines", "cyr_cond", "gates", "tree"}

Ones(S) == { <<t>> : t \in S }

\* Quotes and escapes of every kind; then what a line begins with.
CyrQuotes == Ones({"x", SP, LF, DQ, SQ, BS, "#"})
CyrLines ==
  Ones({"x", SP, LF, DQ, SQ, "(", ")"})
    \cup { <<"#", "io">>, <<"#", "assert">>, <<"#", "x">>, <<"#", "define", SP, "x">>,
           <<"#", "ifdef", SP, "x", LF>>, <<"#", "endif", LF>>, <<"include", SP, DQ>> }

\* Quotes in a region that the preprocessor skips, and code after it.
CyrCond ==
  Ones({"x", LF, DQ, SQ, BS})
    \cup { <<"#", "ifdef", SP, "x", LF>>, <<"#", "ifdef", SP, "x", LF, SQ, DQ, LF>>,
           <<"#", "endif", LF, "x", LF>> }

Args == { <<>>, <<"a">>, <<"a", ",", SP, "a">>, <<"a", "T", "<", "i", ",", "i", ">">>,
          <<"a", "=", "h", "(", "i", ",", "i", ")">>, <<"fp">> }
Marks == { <<>>, <<"public", SP>>, <<"pub", SP>> }
Decl(mark, name, args, end) ==
  mark \o <<"fn", SP, name, "(">> \o args \o <<")", "{}", end>>

Lines ==
  { Decl(m, "f", a, LF) : m \in Marks \ {<<"pub", SP>>}, a \in Args }
    \cup { Decl(<<"pub", SP>>, "f", a, LF) : a \in { <<"a">>, <<"fp">> } }
    \cup { Decl(m, "g", <<>>, e) : m \in Marks, e \in {LF, SP} }
    \cup { <<"private", LF>> \o Decl(<<"public", SP>>, "h", <<>>, LF) \o Decl(<<>>, "i", <<>>, LF) }
    \cup { <<"private", LF>>, <<"private", SP, ";", LF>>, <<"private", SP>>, <<LF>>,
           <<"#", SP>>, <<"#", "io", SP>>, <<"public", SP>>, <<"public", LF>>,
           <<"#", "derive", LF>>, <<"#", "define", SP, "x", LF>>,
           <<"enum", SP, "{}", LF>>, <<"var", SP, "x", ";", LF>>,
           <<"public", SP, "var", SP, "x", ";", LF>>, <<"pub", SP, "var", SP, "x", ";", LF>>,
           <<"var", SP, "x", "=", DQ>>, <<DQ, ";", LF>>,
           <<"fn", SP, "f", "<", "T", ">", "(", ")", "{}", LF>>,
           <<"public", SP, "fn", SP, "f", "(", "fn", "(", ")", ")", "{}", LF>>,
           <<"var", SP, "x", "=", DQ, LF, "private", LF, DQ, ";", LF>>,
           <<"var", SP, "x", "=", DQ, LF>> \o Decl(<<"public", SP>>, "f", <<>>, LF) \o <<DQ, ";", LF>> }

Path(top, sub, name, lang) == [top |-> top, sub |-> sub, name |-> name, lang |-> lang]
Main == Path("src", "", "main", "cyr")
Mod == Path("src", "", "mod", "cyr")
File(path, kind, text, includes) ==
  [what |-> "file", path |-> path, kind |-> kind, text |-> text, includes |-> includes]
Inc(form, path) == [form |-> form, path |-> path]
Entry(sec, key, list, value) ==
  [what |-> "entry", sec |-> sec, key |-> key, list |-> list, value |-> value]

\* Where an include may lead: every kind of place, in each form.
Places ==
  { Mod, Path("src", "linked", "mod", "cyr"), Path("src", "dots", "mod", "cyr"),
    Path("src", "", "data", "none"), Path("tests", "fixtures", "data", "none"),
    Path("tools", "", "mod", "cyr"), Path("/", "", "mod", "cyr"), Path("deps", "", "shim", "c") }
\* Headers: the system's, and two that are reached past it.
Beyond == { Path("src", "dots", "head", "c"), Path("/", "", "head", "c") }
Headers == Beyond \cup { Path("sys", "", "stdio", "c") }
Library == { Path("lib", "", m, "cyr") : m \in {"string", "bench", "process"} }

Includers ==
  { File(p, "file", "clean", {Inc("literal", q)}) : p \in {Main, Path("tests", "", "t", "cyr")}, q \in Places \cup Library }
    \cup { File(Main, "file", "clean", {Inc("computed", Mod)}) }
    \cup { File(Path("deps", "", "shim", "c"), "file", "clean", {Inc(form, q)}) :
             form \in {"literal", "system"}, q \in { Mod, Path("tests", "fixtures", "data", "none") } \cup Headers }
Targets ==
  { File(p, k, t, {}) : p \in Places, k \in {"file", "link"}, t \in {"clean", "finding"} }
    \cup { File(p, "file", "clean", {}) : p \in Beyond }
    \cup { File(Mod, "file", "fail", {}), File(Mod, "pipe", "clean", {}),
           File(Path("dist", "", "samvada", "cyr"), "file", "finding", {}),
           File(Path("dist", "", "samvada", "cyr"), "link", "clean", {}) }
ManifestItems ==
  { Entry("deps", "stdlib", TRUE, v) : v \in { <<"string">>, <<"string", "process">>, <<>>, <<"string", "string">> } }
    \cup { Entry("build", "entry", TRUE, <<p>>) : p \in { Main, Mod, Path("src", "dots", "mod", "cyr"), Path("tools", "", "mod", "cyr") } }
    \cup { Entry("lib", "modules", TRUE, <<Main, Mod>>), Entry("lib", "modules", FALSE, <<Mod>>),
           Entry("deps", "path", FALSE, <<>>), Entry("none", "x", FALSE, <<>>), Entry("build", "script", FALSE, <<>>) }
    \cup { [what |-> "table", sec |-> sec] : sec \in {"deps", "deps.NAME", "groups"} }
    \cup { [what |-> "unreadable"] }

MCAllowed == <<"string">>
MCDenied == {"process"}

MCPhrases ==
  [r \in MCReaderNames |->
     CASE r = "cyr" -> CyrQuotes
       [] r = "cyr_lines" -> CyrLines
       [] r = "cyr_cond" -> CyrCond
       [] r = "gates" -> Lines
       [] OTHER -> { <<Entry("deps", "stdlib", TRUE, <<"string">>), f>> : f \in Includers }
                     \cup { <<x>> : x \in Targets \cup ManifestItems }]
MCLongest == [r \in MCReaderNames |-> CASE r \in {"cyr", "cyr_cond"} -> 5 [] r = "cyr_lines" -> 4 [] OTHER -> 3]

Keys == ({"f"} \X (0 .. 2)) \cup ({"g", "h"} \X {0})
MCManifests ==
  UNION { [K -> {"clean", "leaks-fn-table"}] : K \in { S \in SUBSET Keys : Cardinality(S) \in 1 .. 3 } }
=============================================================================
