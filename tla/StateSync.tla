------------------------------ MODULE StateSync ------------------------------
(***************************************************************************)
(* tools/state_sync.py: the facts that can be read off the tree are        *)
(* generated into marked blocks of docs/development/state.md; the prose,   *)
(* the Covers column of the tests table, its row order and the narrative   *)
(* acknowledgement are written by hand. People edit the tree and the       *)
(* document; the tool runs with or without --check, takes as long as every *)
(* test suite takes, and may be killed.                                    *)
(*                                                                         *)
(* A document is a sequence of lines, each a tuple whose first element     *)
(* says what the tool takes it for: <<"begin", block>>, <<"end", block>>,  *)
(* <<"narr", version>>, <<"row", suite, count, covers>>, a generated line, *)
(* <<"text", t>>, or <<"cr", l>> for the line l ended by CR LF, not LF.    *)
(***************************************************************************)
EXTENDS Integers, Sequences, FiniteSets, SequencesExt, FiniteSetsExt, TLC

CONSTANTS
  Versions,     \* what VERSION may hold
  Others,       \* what the other files the tool reads may say
  Outcomes,     \* what running a suite may do
  Start0,       \* the document and the tree at first
  NewLines,     \* lines a person may insert
  NewCovers,    \* what a person may write in a Covers cell
  Rank,         \* the order of the suites' paths
  Cuts,         \* how many lines a write that fails may have written
  MaxEdits,     \* how many edits people make, between two runs or during one
  Concurrent,   \* whether they edit while the tool runs
  MarkerInBlock \* whether they put the narrative marker inside a block

BLOCKS == {"version", "glance", "tests"}
UNDESCRIBED == "undescribed"

VARIABLES
  tree,    \* [version, released, other, suites]
  file,    \* state.md
  pc,      \* where run() is
  check,   \* --check was given
  text,    \* what it read of state.md
  facts,   \* what gather() has read so far
  todo,    \* suites it has still to run
  new,     \* the regenerated document, while it is being written
  prior,   \* history: the file when the tool last opened it to write
  exit,    \* the exit status of the last run; -1: none yet, or killed
  edits,   \* edits made so far
  touched  \* something was edited since the last run began

runvars == <<pc, check, text, facts, todo, new>>
vars == <<tree, file, runvars, prior, exit, edits, touched>>

-----------------------------------------------------------------------------
(* Facts.                                                                   *)

\* run_suite and parse_tally: the assert count, 0 for an error. A suite may
\* print several tallies; the last one counts, a failure in any refuses.
Tally(o) ==
  IF o.hangs \/ o.tallies = <<>> THEN 0
  ELSE LET t == Last(o.tallies) IN
       IF o.rc # 0 \/ (\E i \in DOMAIN o.tallies : o.tallies[i].failed # 0)
                   \/ t.passed # t.total
       THEN 0 ELSE t.total

\* parse_workflow: a runs-on that is not one plain label is an error, and
\* there must be one; an action not pinned by a commit is counted as loose.
WorkflowsRead(o) == o.runners # {} /\ "matrix" \notin o.runners
Loose(o) == Cardinality({ u \in o.uses : u[2] # "sha" })

\* parse_ffi: every samvada_slot_* fn must read as `{ return N; }`, one of
\* them the kind slot, and eight bytes of each make the table's size.
FfiRead(o) ==
  /\ o.slots = o.declared
  /\ o.kind
  /\ o.slots * 8 = o.size

\* gather() up to the suites; each fact must be found exactly once.
FactsRead(t) ==
  /\ t.version \in t.released
  /\ WorkflowsRead(t.other)
  /\ FfiRead(t.other)
  /\ t.other.fixtures = t.other.manifest

Gathered(t) ==
  [version |-> t.version, runners |-> t.other.runners, loose |-> Loose(t.other),
   slots |-> t.other.slots, fixtures |-> Cardinality(t.other.manifest)]

-----------------------------------------------------------------------------
(* The document.                                                            *)

None == <<>>

\* A marker that blocks() refuses where it stands.
Misplaced(s, l) ==
  \/ l[2] \notin BLOCKS
  \/ l[1] = "begin" /\ (s.open # None \/ l[2] \in DOMAIN s.found)
  \/ l[1] = "end" /\ (s.open = None \/ s.open[1] # l[2])

\* blocks() over the markers: the body of each block, as the first line of
\* it and the line after it.
Marker(d, s, i) ==
  CASE s.bad \/ d[i][1] \notin {"begin", "end"} -> s
    [] OTHER ->
       IF Misplaced(s, d[i]) THEN [s EXCEPT !.bad = TRUE]
       ELSE IF d[i][1] = "begin" THEN [s EXCEPT !.open = <<d[i][2], i + 1>>]
       ELSE [s EXCEPT !.open = None, !.found = @ @@ (d[i][2] :> <<s.open[2], i>>)]

Scanned(d) ==
  LET Step(s, i) == Marker(d, s, i)
  IN  FoldLeft(Step, [found |-> <<>>, open |-> None, bad |-> FALSE],
               [i \in DOMAIN d |-> i])

BlocksFound(d) == LET s == Scanned(d) IN ~s.bad /\ s.open = None /\ DOMAIN s.found = BLOCKS
Blocks(d) == Scanned(d).found
Body(d, name) == SubSeq(d, Blocks(d)[name][1], Blocks(d)[name][2] - 1)

IsRow(l) == l[1] = "row"
Listed(rows) == [i \in DOMAIN rows |-> rows[i][2]]
Total(counts) == FoldFunctionOnSet(+, 0, counts, DOMAIN counts)

\* Mutant: the suites' own order replaces the one chosen by hand.
TableSorted(f, old) ==
  LET rows  == SelectSeq(old, IsRow)
      here  == SetToSortSeq(DOMAIN f.counts, LAMBDA a, b : Rank[a] < Rank[b])
      Covers(r) ==
        LET was == { i \in DOMAIN rows : rows[i][2] = r /\ rows[i][4] # "" }
        IN  IF was = {} THEN UNDESCRIBED ELSE rows[CHOOSE i \in was : TRUE][4]
  IN  [i \in DOMAIN here |-> <<"row", here[i], f.counts[here[i]], Covers(here[i])>>]

\* The tests table: the rows of suites that still exist, in their order and
\* with their Covers cells, then the suites without a row.
Table(f, old) ==
  LET rows  == SelectSeq(old, IsRow)
      IsHere(r) == r \in DOMAIN f.counts
      kept  == SelectSeq(Listed(rows), IsHere)
      added == SetToSortSeq(DOMAIN f.counts \ ToSet(kept), LAMBDA a, b : Rank[a] < Rank[b])
      Covers(r) ==
        LET was == { i \in DOMAIN rows : rows[i][2] = r /\ rows[i][4] # "" }
        IN  IF was = {} THEN UNDESCRIBED ELSE rows[CHOOSE i \in was : TRUE][4]
      here == kept \o added
  IN  [i \in DOMAIN here |-> <<"row", here[i], f.counts[here[i]], Covers(here[i])>>]

Render(name, f, old) ==
  CASE name = "version" -> <<<<"version", f.known.version>>>>
    [] name = "glance"  -> <<<<"glance", f.known, Total(f.counts), Cardinality(DOMAIN f.counts)>>>>
    [] name = "tests"   ->
         <<<<"total", Total(f.counts), Cardinality(DOMAIN f.counts)>>>> \o Table(f, old)

Narratives(d) == { i \in DOMAIN d : d[i][1] = "narr" }

\* read(): the file is opened in text mode, where CR LF is read as LF.
AsRead(d) == [i \in DOMAIN d |-> IF d[i][1] = "cr" THEN d[i][2] ELSE d[i]]

\* What sync() and render() refuse. Nothing that read() returned has the CR
\* that is looked for first.
Refused(d) ==
  \/ \E i \in DOMAIN d : d[i][1] = "cr"
  \/ Cardinality(Narratives(d)) # 1
  \/ ~BlocksFound(d)
  \/ BlocksFound(d) /\ ~IsInjective(Listed(SelectSeq(Body(d, "tests"), IsRow)))

\* sync(): every block regenerated, from the last to the first.
Synced(d, f) ==
  LET last_first == SetToSortSeq(BLOCKS, LAMBDA a, b : Blocks(d)[a][1] > Blocks(d)[b][1])
      Put(n, name) == SubSeq(n, 1, Blocks(d)[name][1] - 1) \o Render(name, f, Body(d, name))
                        \o SubSeq(n, Blocks(d)[name][2], Len(n))
  IN  FoldLeft(Put, d, last_first)

\* Mutant: an undescribed suite is not reported.
ProblemsNarrative(d, n, f) == \E i \in Narratives(d) : d[i][2] # f.known.version

\* What keeps the snapshot stale even after a regeneration.
Problems(d, n, f) ==
  \/ \E i \in Narratives(d) : d[i][2] # f.known.version
  \/ \E i \in DOMAIN Body(n, "tests") :
       IsRow(Body(n, "tests")[i]) /\ Body(n, "tests")[i][4] = UNDESCRIBED

-----------------------------------------------------------------------------
(* run()                                                                    *)

Idle == pc = "idle"
NoFacts == [known |-> <<>>, counts |-> <<>>]

Reset == text' = <<>> /\ facts' = NoFacts /\ todo' = <<>> /\ new' = <<>>
Ends(status) == pc' = "idle" /\ exit' = status /\ Reset /\ UNCHANGED <<check, prior>>

Start(c) ==
  /\ Idle
  /\ pc' = "read" /\ check' = c /\ exit' = -1 /\ touched' = FALSE
  /\ UNCHANGED <<tree, file, text, facts, todo, new, prior, edits>>

\* read(root, STATE) is evaluated first, before gather() is called.
ReadState ==
  /\ pc = "read"
  /\ text' = AsRead(file) /\ pc' = "facts"
  /\ UNCHANGED <<tree, file, check, facts, todo, new, prior, exit, edits, touched>>

\* gather() up to the list of suites, which must not be empty.
ReadFacts ==
  /\ pc = "facts" /\ FactsRead(tree) /\ DOMAIN tree.suites # {}
  /\ facts' = [NoFacts EXCEPT !.known = Gathered(tree)]
  /\ todo' = SetToSortSeq(DOMAIN tree.suites, LAMBDA a, b : Rank[a] < Rank[b])
  /\ pc' = "suites"
  /\ UNCHANGED <<tree, file, check, text, new, prior, exit, edits, touched>>

Unreadable ==
  /\ pc = "facts" /\ (~FactsRead(tree) \/ DOMAIN tree.suites = {})
  /\ Ends(2)
  /\ UNCHANGED <<tree, file, edits, touched>>

Passes(r) == r \in DOMAIN tree.suites /\ Tally(tree.suites[r]) > 0

RunSuite ==
  /\ pc = "suites" /\ todo # <<>> /\ Passes(Head(todo))
  /\ facts' = [facts EXCEPT !.counts = @ @@ (Head(todo) :> Tally(tree.suites[Head(todo)]))]
  /\ todo' = Tail(todo)
  /\ UNCHANGED <<tree, file, pc, check, text, new, prior, exit, edits, touched>>

SuiteFails ==
  /\ pc = "suites" /\ todo # <<>> /\ ~Passes(Head(todo))
  /\ Ends(2)
  /\ UNCHANGED <<tree, file, edits, touched>>

Gather == pc = "suites" /\ todo = <<>>

Refuse ==
  /\ Gather /\ Refused(text)
  /\ Ends(2)
  /\ UNCHANGED <<tree, file, edits, touched>>

Status(n) == IF Problems(text, n, facts) \/ (check /\ n # text) THEN 1 ELSE 0

\* Nothing to write, or --check.
Compare ==
  /\ Gather /\ ~Refused(text)
  /\ LET n == Synced(text, facts) IN
     /\ check \/ n = text
     /\ Ends(Status(n))
  /\ UNCHANGED <<tree, file, edits, touched>>

\* open(.., "w") empties the file; the text follows.
OpenState ==
  /\ Gather /\ ~Refused(text) /\ ~check /\ Synced(text, facts) # text
  /\ new' = Synced(text, facts)
  /\ prior' = file /\ file' = <<>> /\ pc' = "write"
  /\ UNCHANGED <<tree, check, text, facts, todo, exit, edits, touched>>

WriteState ==
  /\ pc = "write"
  /\ file' = new
  /\ Ends(Status(new))
  /\ UNCHANGED <<tree, edits, touched>>

\* The write fails part-way: any exception is an error.
WriteFails ==
  /\ pc = "write"
  /\ \E n \in Cuts : n < Len(new) /\ file' = SubSeq(new, 1, n)
  /\ Ends(2)
  /\ UNCHANGED <<tree, edits, touched>>

Killed ==
  /\ ~Idle
  /\ Ends(-1)
  /\ UNCHANGED <<tree, file, edits, touched>>

Run ==
  \/ ReadState \/ ReadFacts \/ Unreadable \/ RunSuite \/ SuiteFails
  \/ Refuse \/ Compare \/ OpenState \/ WriteState \/ WriteFails

-----------------------------------------------------------------------------
(* People. A kill or a failed write is followed by restoring the file from  *)
(* the repository, which is an edit like any other.                         *)

\* The suites are what a run spends its time on.
MayEdit == (Idle \/ (Concurrent /\ pc = "suites")) /\ edits < MaxEdits

Inside(d) ==
  LET found == Blocks(d) IN UNION { found[name][1] .. found[name][2] - 1 : name \in DOMAIN found }

\* The narrative marker is in no block.
InProse(d) == Narratives(d) \cap Inside(d) = {}

InsertLine ==
  \E i \in 1 .. Len(file) + 1, l \in NewLines : file' = InsertAt(file, i, l)

DeleteLine == \E i \in DOMAIN file : file' = RemoveAt(file, i)

\* A line is written anew, with the end it had.
Rewritten(d, i, l) == [d EXCEPT ![i] = IF @[1] = "cr" THEN <<"cr", l>> ELSE l]

Describe ==
  \E i \in DOMAIN file, c \in NewCovers :
    LET l == AsRead(file)[i] IN
    l[1] = "row" /\ file' = Rewritten(file, i, [l EXCEPT ![4] = c])

Acknowledge ==
  \E i \in Narratives(AsRead(file)), v \in Versions : file' = Rewritten(file, i, <<"narr", v>>)

\* An editor, or a checkout, that ends every line in CR LF.
Convert == file' = [i \in DOMAIN file |-> <<"cr", AsRead(file)[i]>>]

EditState ==
  /\ MayEdit
  /\ InsertLine \/ DeleteLine \/ Describe \/ Acknowledge \/ Convert
  /\ MarkerInBlock \/ InProse(AsRead(file'))
  /\ edits' = edits + 1 /\ touched' = TRUE
  /\ UNCHANGED <<tree, runvars, prior, exit>>

ChangeTree ==
  /\ MayEdit
  /\ \/ \E v \in Versions : tree' = [tree EXCEPT !.version = v]
     \/ \E o \in Others : tree' = [tree EXCEPT !.other = o]
     \/ \E r \in DOMAIN Rank, o \in Outcomes : tree' = [tree EXCEPT !.suites = (r :> o) @@ @]
     \/ \E r \in DOMAIN tree.suites :
          tree' = [tree EXCEPT !.suites = Restrict(@, DOMAIN @ \ {r})]
  /\ edits' = edits + 1 /\ touched' = TRUE
  /\ UNCHANGED <<file, runvars, prior, exit>>

Init ==
  /\ tree = Start0.tree /\ file = Start0.file
  /\ pc = "idle" /\ check = FALSE /\ text = <<>> /\ facts = NoFacts /\ todo = <<>> /\ new = <<>>
  /\ prior = <<>> /\ exit = -1 /\ edits = 0 /\ touched = TRUE

Next == Run \/ (\E c \in BOOLEAN : Start(c)) \/ Killed \/ EditState \/ ChangeTree

Spec == Init /\ [][Next]_vars

-----------------------------------------------------------------------------
(* What a current snapshot is, said without the tool: every fact of the     *)
(* tree can be read, every suite passes, and each block holds what the tree *)
(* says, each suite once and described, under the acknowledged version.     *)
(* How its lines end says nothing about the tree: see CrRefused.            *)

Document == AsRead(file)

Marks(d) == SelectSeq(d, LAMBDA l : l[1] \in {"begin", "end"})
Paired(d) ==
  \E order \in { q \in [1 .. 3 -> BLOCKS] : IsInjective(q) } :
    Marks(d) = FlattenSeq([i \in 1 .. 3 |-> <<<<"begin", order[i]>>, <<"end", order[i]>>>>])

Clean(o) == /\ ~o.hangs /\ o.rc = 0 /\ o.tallies # <<>>
            /\ \A i \in DOMAIN o.tallies : o.tallies[i].failed = 0
Asserts(o) == Last(o.tallies).total
Sum == LET S == DOMAIN tree.suites IN
       MapThenSumSet(LAMBDA r : Asserts(tree.suites[r]), S)

Between(d, name) ==
  SubSeq(d, SelectInSeq(d, LAMBDA l : l = <<"begin", name>>) + 1,
            SelectInSeq(d, LAMBDA l : l = <<"end", name>>) - 1)

Truthful ==
  LET rows == Tail(Between(Document, "tests"))
      n    == Cardinality(DOMAIN tree.suites)
      o    == tree.other
  IN  /\ Between(Document, "version") = <<<<"version", tree.version>>>>
      /\ Between(Document, "glance") =
           <<<<"glance",
              [version |-> tree.version, runners |-> o.runners, slots |-> o.declared,
               loose |-> Cardinality({ u \in o.uses : u[2] = "tag" }),
               fixtures |-> Cardinality(o.fixtures)],
              Sum, n>>>>
      /\ Between(Document, "tests")[1] = <<"total", Sum, n>>
      /\ Len(rows) = n
      /\ \A r \in DOMAIN tree.suites :
           \E i \in DOMAIN rows : rows[i][2] = r /\ rows[i][3] = Asserts(tree.suites[r])

Described ==
  \A l \in ToSet(Between(Document, "tests")) : l[1] = "row" => l[4] \notin {"", UNDESCRIBED}
AcknowledgedFor(v) == \E i \in Narratives(Document) : Document[i][2] = v

Sound ==
  /\ tree.version \in tree.released /\ tree.other.fixtures = tree.other.manifest
  /\ tree.other.slots = tree.other.declared
  /\ \A r \in DOMAIN tree.suites : Clean(tree.suites[r])
  /\ Paired(Document) /\ Cardinality(Narratives(Document)) = 1

Finished == Idle /\ exit # -1 /\ ~touched

(* Exit 0 means that the file on disk is current: it tells the truth about  *)
(* the tree, every suite is described, and it is acknowledged for VERSION.  *)
(* Exit 1 means stale and nothing worse; after a rewrite what is left is    *)
(* only what a person must do (state_sync.py:38-41).                        *)
Current == Sound /\ Truthful /\ Described /\ AcknowledgedFor(tree.version)
StatusIsTrue ==
  Finished => /\ exit = 0 => Current
              /\ exit = 1 => Sound /\ ~Current /\ (check \/ Truthful)

\* What is written by hand in a document: the lines outside the blocks, and
\* the Covers cells of the suites there are, in their order.
Outside(d) ==
  LET inside == Inside(d)
      at     == SelectSeq([i \in DOMAIN d |-> i], LAMBDA i : i \notin inside)
  IN  [k \in DOMAIN at |-> d[at[k]]]
Cells(d) ==
  LET rows == SelectSeq(Between(d, "tests"), LAMBDA l :
                /\ l[1] = "row" /\ l[2] \in DOMAIN tree.suites
                /\ l[4] \notin {"", UNDESCRIBED})
  IN  [i \in DOMAIN rows |-> <<rows[i][2], rows[i][4]>>]

(* A rewrite leaves what is written by hand as it stood in the file when it *)
(* was opened (state_sync.py:16: kept across regenerations), except that    *)
(* its lines then all end in LF.                                            *)
HandKept ==
  [][ WriteState =>
        /\ Outside(file') = Outside(AsRead(prior))
        /\ Cells(file') = Cells(AsRead(prior)) ]_vars

(* What the tool's message (state_sync.py:331-332: state.md is LF-only) and *)
(* its self-test (:450) claim: a state.md with CR LF in it is an error.     *)
CrRefused == Finished /\ (\E i \in DOMAIN file : file[i][1] = "cr") => exit = 2
=============================================================================
