------------------------------ MODULE BuildScan ------------------------------
(***************************************************************************)
(* tools/security_scan.py: which files the scan reads and which includes,  *)
(* manifest entries and tree entries it refuses, against what the builds   *)
(* of the repository read. What the scan looks for inside a file is left   *)
(* out: the text of a file is "clean", has a "finding", or makes the       *)
(* scanner "fail".                                                         *)
(*                                                                         *)
(* A text is the repository: a sequence of files and of cyrius.cyml's      *)
(* entries. A path is [top, sub, name, lang]. With sub = "linked" it leads *)
(* through a symbolic link to a directory, with sub = "dots" through `..`  *)
(* out of the tree, and so does one that is absolute, with top = "/".      *)
(***************************************************************************)
EXTENDS Text

CONSTANTS Allowed,   \* the names in tools/stdlib_allowed.txt, in order
          Denied     \* DENIED_STDLIB

SCOPE == {"src", "tests", "deps"}
EXTRA_STDLIB == {"bench"}
MANIFEST_SECTIONS == {"package", "build", "lib", "deps"}
BUILD_KEYS == {"entry", "test", "output"}

Items(s, what) == { s[i] : i \in { j \in DOMAIN s : s[j].what = what } }
Count(s, S) == Cardinality({ i \in DOMAIN s : s[i] \in S })

Files(s) == Items(s, "file")
FilesAt(s, p) == { f \in Files(s) : f.path = p }

\* lib/ is not tracked, and what is in dist/ is the bundle, in Cyrius.
Item == UNION { ToSet(p) : p \in Phrases["tree"] }

ASSUME TreePhrases ==
  "tree" \in Readers =>
    /\ Phrases["tree"] \subseteq Seq(Item)
    /\ \A f \in Item : f.what = "file" =>
         f.path.top # "lib" /\ (f.path.top = "dist" => f.path.lang = "cyr")

\* The bench harness's module is none of those that are denied.
ASSUME ExtraAllowed == EXTRA_STDLIB \cap Denied = {}

-----------------------------------------------------------------------------
\* exists: a Cyrius file that is none itself a symbolic link.
Exists(s, p) == p.lang = "cyr" /\ \E f \in FilesAt(s, p) : f.kind = "file"

\* include_problem and c_include_problem: an include is not refused.
IncludeOk(s, inc, stdlib) ==
  /\ inc.form = "literal" /\ inc.path.sub # "dots"
  /\ inc.path.top \in {"src", "lib", "tests"} /\ inc.path.lang = "cyr"
  /\ IF inc.path.top = "lib" THEN inc.path.sub = "" /\ inc.path.name \in stdlib
     ELSE Exists(s, inc.path)

\* A plain name of a header, in angle brackets.
CIncludeOk(inc) ==
  /\ inc.form = "system" /\ inc.path.lang = "c"
  /\ inc.path.top # "/" /\ inc.path.sub # "dots"

\* scan_text finds nothing, and does not fail.
TextClean(s, f, stdlib) ==
  /\ f.text = "clean"
  /\ \A inc \in f.includes :
       IF f.path.lang = "c" THEN CIncludeOk(inc) ELSE IncludeOk(s, inc, stdlib)

\* manifest_problems: the files that an entry may name.
NamesScanned(s, e, tops) ==
  e.list /\ \A p \in ToSet(e.value) : p.sub # "dots" /\ p.top \in tops /\ Exists(s, p)

EntryOk(s, e) ==
  CASE e.sec = "none" -> FALSE
    [] e.sec = "deps" -> e.key = "stdlib"
    [] e.sec = "build" /\ e.key \in {"entry", "test"} -> NamesScanned(s, e, {"src", "tests"})
    [] e.sec = "build" /\ e.key \notin {"entry", "test"} -> e.key \in BUILD_KEYS
    [] e.sec = "lib" /\ e.key = "modules" -> NamesScanned(s, e, {"src"})
    [] OTHER -> TRUE

Stdlib(s) == UNION { ToSet(e.value) : e \in { x \in Items(s, "entry") :
                       x.sec = "deps" /\ x.key = "stdlib" /\ x.list } }

StdlibOk(e) ==
  LET mods == ToSet(e.value) IN
  /\ e.list /\ Len(e.value) = Cardinality(mods) /\ mods \cap Denied = {}
  /\ mods = ToSet(Allowed) /\ IsInjective(Allowed)

ManifestOk(s) ==
  LET stdlib == { e \in Items(s, "entry") : e.sec = "deps" /\ e.key = "stdlib" } IN
  /\ Items(s, "unreadable") = {}
  /\ \A t \in Items(s, "table") : t.sec \in MANIFEST_SECTIONS /\ Count(s, {t}) = 1
  /\ \A e \in Items(s, "entry") :
       /\ EntryOk(s, e)
       /\ Count(s, { x \in Items(s, "entry") : x.sec = e.sec /\ x.key = e.key }) = 1
  /\ stdlib # {} /\ \A e \in stdlib : StdlibOk(e)

\* Mutant: a link to a directory is only not followed.
LinkedIgnored(s) == {}

\* The walk stops at a link to a directory, with a finding.
Linked(s) == { f \in Files(s) : f.path.top \in SCOPE /\ f.path.sub = "linked" }

Walked(s) == { f \in Files(s) : f.path.top \in SCOPE /\ f.path.sub \notin {"linked", "dots"} }

\* scan_tree: a file that is walked gives no finding.
FileClean(s, f, stdlib) ==
  /\ f.kind = "file"
  /\ IF f.path.lang = "none" THEN f.path.top = "tests" /\ f.path.sub = "fixtures"
     ELSE TextClean(s, f, stdlib)

BundleOk(s, stdlib) ==
  \A f \in Files(s) : f.path.top = "dist" => f.kind = "file" /\ TextClean(s, f, stdlib)

\* security_scan.py exits 0.
ScanClean(s) ==
  LET stdlib == EXTRA_STDLIB \cup Stdlib(s) IN
  /\ ManifestOk(s)
  /\ BundleOk(s, stdlib)
  /\ Linked(s) = {}
  /\ \A f \in Walked(s) : FileClean(s, f, stdlib)

-----------------------------------------------------------------------------
(* What the builds read: <<file, as>> is a file read as code of a language. *)
(* cycc and gcc follow symbolic links; no path that a directory lists has   *)
(* `..` in it.                                                              *)

Roots(s) ==
  { <<f, "cyr">> : f \in { x \in Files(s) :
      \/ x.path.top = "dist"
      \/ x.path.top = "tests" /\ x.path.lang = "cyr" /\ x.path.sub # "dots"
      \/ \E e \in Items(s, "entry") :
           /\ <<e.sec, e.key>> \in {<<"build", "entry">>, <<"build", "test">>, <<"lib", "modules">>}
           /\ x.path \in ToSet(e.value) } }
  \cup { <<f, "c">> : f \in { x \in Files(s) : x.path.top = "deps" /\ x.path.lang = "c" /\ x.path.sub # "dots" } }

\* A system header is none of the repository's, unless `..` or an absolute
\* path leads to it.
Includes(s, r) ==
  { <<f, r[2]>> : f \in { x \in Files(s) : \E inc \in r[1].includes :
                            x.path = inc.path /\ (inc.form # "system" \/ x.path.sub = "dots" \/ x.path.top = "/") } }

BuildReads(s) ==
  LET Step[n \in 0 .. Len(s)] ==
        IF n = 0 THEN Roots(s)
        ELSE Step[n - 1] \cup UNION { Includes(s, r) : r \in Step[n - 1] }
  IN  Step[Len(s)]

\* Library modules that are read, by name or by an include of a file read.
Modules(s) ==
  Stdlib(s) \cup { inc.path.name : inc \in { i \in UNION { r[1].includes : r \in BuildReads(s) } :
                                              i.form = "literal" /\ i.path.top = "lib" } }

\* Entries that make a build read code that no path in the repository names.
Pulled(s) ==
  { t \in Items(s, "table") : t.sec \in {"deps.NAME", "groups", "test"} }
    \cup { e \in Items(s, "entry") : e.sec \in {"deps", "none"} /\ e.key # "stdlib" }

(* When the scan of the tree is clean, everything the builds read has been  *)
(* scanned, as the language it is compiled as: nothing comes in through a   *)
(* link, a path that leaves the tree, a data file, a manifest entry or a    *)
(* library module outside of the list.                                      *)
BuildScanned ==
  reader = "tree" =>
    ((\A f, g \in Files(src) : f.path = g.path => f = g) /\ ScanClean(src) =>
       /\ \A r \in BuildReads(src) :
            r[1].path.top # "lib" =>
              /\ r[1] \in Walked(src) \/ r[1].path.top = "dist"
              /\ r[1].kind = "file" /\ r[1].text = "clean" /\ r[1].path.lang = r[2]
       /\ Modules(src) \subseteq (ToSet(Allowed) \cup EXTRA_STDLIB) \ Denied
       /\ Pulled(src) = {})
=============================================================================
