----------------------------- MODULE MCStateSync -----------------------------
(* StateSync on a document of thirteen lines and two or three suites.       *)
EXTENDS StateSync

MCVersions == {"1", "2", "3"}      \* CHANGELOG.md has no heading for "3"

Other(runners, pin, slots, declared, size, fixtures) ==
  [runners |-> runners, uses |-> {<<"checkout", pin>>}, slots |-> slots, declared |-> declared,
   kind |-> TRUE, size |-> size, fixtures |-> fixtures, manifest |-> {"f"}]

Good == Other({"u24"}, "sha", 2, 2, 16, {"f"})
MCOthers ==
  { Other({"u24"}, "tag", 2, 2, 16, {"f"}), Other({"u24", "matrix"}, "sha", 2, 2, 16, {"f"}),
    Other({"u24"}, "sha", 2, 3, 16, {"f"}), Other({"u24"}, "sha", 2, 2, 24, {"f"}),
    Other({"u24"}, "sha", 2, 2, 16, {"f", "g"}) }

T(p, f, n) == [passed |-> p, failed |-> f, total |-> n]
Outcome(ts, rc) == [tallies |-> ts, rc |-> rc, hangs |-> FALSE]
MCOutcomes ==
  { Outcome(<<T(2, 0, 2)>>, 0), Outcome(<<T(1, 1, 2), T(3, 0, 3)>>, 0), Outcome(<<T(2, 0, 2)>>, 1),
    Outcome(<<T(2, 0, 2), T(3, 0, 3)>>, 0), Outcome(<<>>, 1),
    [tallies |-> <<>>, rc |-> 0, hangs |-> TRUE] }

MCStart ==
  [tree |-> [version |-> "1", released |-> {"1", "2"}, other |-> Good,
             suites |-> ("a" :> Outcome(<<T(1, 0, 1)>>, 0)) @@ ("b" :> Outcome(<<T(1, 0, 1)>>, 0))],
   file |-> << <<"text", "p">>, <<"narr", "1">>,
               <<"begin", "version">>, <<"version", "1">>, <<"end", "version">>,
               <<"begin", "glance">>, <<"end", "glance">>,
               <<"begin", "tests">>, <<"total", 2, 2>>, <<"row", "b", 1, "bee">>,
               <<"row", "a", 1, "ay">>, <<"end", "tests">>, <<"text", "r">> >>]

MCRank == [r \in {"a", "b", "c"} |-> IF r = "a" THEN 1 ELSE IF r = "b" THEN 2 ELSE 3]
\* A person takes the document apart, or the tree changes under it.
MCLines ==
  { <<"begin", "version">>, <<"end", "version">>, <<"end", "other">>, <<"narr", "2">>,
    <<"row", "a", 7, "again">>, <<"cr", <<"text", "s">>>> }
MCCovers == {""}
MCNone == {}
MCCrOnly == { <<"cr", <<"text", "s">>>> }
=============================================================================
