-------------------------------- MODULE Gates --------------------------------
(***************************************************************************)
(* tools/surface_check.py and tools/boundary_check.py with the declaration *)
(* parser they share (tools/cyr_scan.py): what they let pass of a consumer *)
(* bundle, against what cycc gives a consumer of it. A manifest maps name  *)
(* and arity, <<name, n>>, to its rule.                                    *)
(***************************************************************************)
EXTENDS CyrScan

CONSTANT Manifests   \* the manifests to try

Pub == {"pub", "public"}
Blanks == {SP, LF}
Punct == Blanks \cup {DQ, SQ, BS, "#", "(", ")", "<", ">", ",", ";", "=", "{}", "&", "."}
LeakyParam == {"table", "fn_table", "fntable", "slot", "fp", "fnptr"}
TopWords == {"fn", "var", "const", "enum", "struct", "union", "impl"}
Opens == {"(", "<"}
Closes == {")", ">"}

\* The next place from i on that is not blank.
Past(code, i) == CHOOSE k \in i .. Len(code) + 1 :
                   /\ \A j \in i .. k - 1 : code[j] \in Blanks
                   /\ k > Len(code) \/ code[k] \notin Blanks
TokenAt(code, i) == IF i <= Len(code) THEN code[i] ELSE "end"

\* Nothing but blanks is before it on its line.
LeadsLine(s, i) == \A j \in 1 .. i - 1 : s[j] = SP \/ \E k \in j .. i - 1 : s[k] = LF

FnTokens(code) == { i \in DOMAIN code : code[i] = "fn" /\ (i = 1 \/ code[i - 1] \notin {"&", "."}) }

\* Mutant: `public` alone is known, not its synonym.
PublicTokensOnly(code) == { i \in DOMAIN code : code[i] = "public" }

PublicTokens(code) == { i \in DOMAIN code : code[i] \in Pub }

\* FN_HEAD: where `fn name (` is written, whatever is before it: the `fn`,
\* the name and the bracket.
FnHeads(code) ==
  LET Place(i, name) == <<i, name, Past(code, name + 1)>> IN
  { h \in { Place(i, Past(code, i + 1)) : i \in FnTokens(code) } :
      /\ h[2] > h[1] + 1 /\ TokenAt(code, h[2]) \notin Punct \cup {"end"}
      /\ TokenAt(code, h[3]) = "(" }

Least(S) == IF S = {} THEN 0 ELSE Min(S)

\* The `fn` at i has a public token before it.
MarkedPublic(code, i) == \E p \in PublicTokens(code) : p < i - 1 /\ Past(code, p + 1) = i

\* _close_paren: where the `(` at k is closed; 0 if it is not.
CloseParen(code, k) ==
  LET Depth[j \in k .. Len(code)] ==
        (IF j = k THEN 0 ELSE Depth[j - 1])
          + (CASE code[j] = "(" -> 1 [] code[j] = ")" -> -1 [] OTHER -> 0)
  IN  Least({ j \in k .. Len(code) : Depth[j] = 0 })

\* arity: the parameters, by the commas outside of brackets.
Arity(args) ==
  LET Put2(a, t) ==
        LET depth == IF t \in Opens THEN a.depth + 1
                     ELSE IF t \in Closes /\ a.depth > 0 THEN a.depth - 1 ELSE a.depth
        IN  IF t = "," /\ a.depth = 0 THEN [depth |-> 0, n |-> a.n + a.seg, seg |-> 0]
            ELSE [depth |-> depth, n |-> a.n, seg |-> IF t \in Blanks THEN a.seg ELSE 1]
      Sum2(a) == a.n + a.seg
  IN  Sum2(FoldLeft(Put2, [depth |-> 0, n |-> 0, seg |-> 0], args))

(* fn_decls: the declarations; none of them may be of a form that the       *)
(* parser does not understand, so every `fn` and public token is counted.   *)
Declared(code, h, e) ==
  [at |-> h[1], public |-> MarkedPublic(code, h[1]), name |-> code[h[2]], closed |-> e # 0,
   args |-> IF e = 0 THEN <<>> ELSE SubSeq(code, h[3] + 1, e - 1)]

Decls(code) == { Declared(code, h, CloseParen(code, h[3])) : h \in FnHeads(code) }

\* Mutant: what looks like no declaration is passed over.
ParsableLoose(code, decls) == \A d \in decls : d.closed

Parsable(code, decls) ==
  /\ \A d \in decls : d.closed
  /\ Cardinality(FnTokens(code)) = Cardinality(decls)
  /\ Cardinality(PublicTokens(code)) = Cardinality({ d \in decls : d.public })

\* private_first: a line of its own holds the marker, before any declaration.
Markers(code) ==
  { i \in DOMAIN code : /\ code[i] = "private" /\ LeadsLine(code, i)
                        /\ LET rest == SelectSeq(Cut(code, i + 1, Find(code, {LF}, i, Len(code) + 1)),
                                                 LAMBDA t : t # SP)
                           IN  rest \in {<<>>, <<";">>} }

PrivateFirst(code) ==
  \E m \in Markers(code) : \A i \in DOMAIN code : code[i] \in TopWords => m < i

\* bundle_problems: what no manifest row covers, in s and in w, its scan.
BundleProblems(s, w) ==
  { i \in DOMAIN s : s[i] = "#" /\ TokenAt(s, i + 1) \in {"derive", "define"} /\ LeadsLine(s, i) }
    \cup { i \in DOMAIN s : w.out[i] = "enum" }
    \cup w.hazards

Key(d) == <<d.name, Arity(d.args)>>
Leaks(args) == ToSet(args) \cap LeakyParam # {}

(* surface_check.py: the public declarations parse_bundle returns, none if *)
(* it refuses the bundle, and what main compares of them.                  *)
ParseBundle(s, w, decls) ==
  IF PrivateFirst(w.out) /\ Parsable(w.out, decls) /\ BundleProblems(s, w) = {}
  THEN { d \in decls : d.public } ELSE {}

SurfaceClean(found, want) ==
  /\ found # {}
  /\ { Key(d) : d \in found } = DOMAIN want
  /\ \A d \in found : want[Key(d)] = "clean" => ~Leaks(d.args)

-----------------------------------------------------------------------------
(* cycc: the declarations of a file, and what a consumer of it can reach.   *)

Unparsed == [ok |-> FALSE, private |-> FALSE, fns |-> {}, others |-> {}]

\* Where the list that opens at i closes, and how many parameters it has.
ListEnd(t, i) ==
  Least({ k \in i .. Len(t) : t[k] \in Closes /\ Cardinality({ j \in i .. k : t[j] \in Opens })
                                                  = Cardinality({ j \in i .. k : t[j] \in Closes }) })
Params(t, i, e) ==
  IF e = i + 1 THEN 0
  ELSE 1 + Cardinality({ c \in i + 1 .. e - 1 : t[c] = "," /\
             Cardinality({ j \in i + 1 .. c : t[j] \in Opens })
               = Cardinality({ j \in i + 1 .. c : t[j] \in Closes }) })

(* One declaration of t, at i: where it ends, and r with it. Its keyword is *)
(* at d and its parameters, if it is a function, are from open to e.        *)
Function(t, d, open, e, seen, r) ==
  IF /\ TokenAt(t, d) = "fn" /\ TokenAt(t, d + 1) \notin Punct /\ e # 0
     /\ TokenAt(t, e + 1) = "{}" /\ \A f \in r.fns : f.name # t[d + 1]
  THEN <<e + 2, [r EXCEPT !.fns = @ \cup
          {[name |-> t[d + 1], reach |-> seen, arity |-> Params(t, open, e),
            args |-> SubSeq(t, open + 1, e - 1),
            plain |-> open = d + 2 /\ "fn" \notin ToSet(SubSeq(t, open + 1, e - 1))]}]>>
  ELSE <<Len(t) + 1, Unparsed>>

Variable(t, d, semi, seen, r) ==
  IF semi <= Len(t) /\ \A k \in d + 1 .. semi : t[k] \notin TopWords
  THEN <<semi + 1, [r EXCEPT !.others = IF seen THEN @ \cup {"var"} ELSE @]>>
  ELSE <<Len(t) + 1, Unparsed>>

Open(t, d) == IF TokenAt(t, d + 2) = "<" THEN ListEnd(t, d + 2) + 1 ELSE d + 2
List(t, d, open, seen, r) ==
  Function(t, d, open, IF TokenAt(t, open) = "(" THEN ListEnd(t, open) ELSE 0, seen, r)

Keyword(t, d, seen, r) ==
  CASE TokenAt(t, d) = "var" -> Variable(t, d, Find(t, {";"}, d, Len(t) + 1), seen, r)
    [] TokenAt(t, d) = "enum" /\ TokenAt(t, d + 1) = "{}" ->
         <<d + 2, [r EXCEPT !.others = @ \cup {"enum"}]>>
    [] OTHER -> List(t, d, Open(t, d), seen, r)

Declaration(t, i, r) ==
  CASE t[i] = "private" ->
         <<IF TokenAt(t, i + 1) = ";" THEN i + 2 ELSE i + 1, [r EXCEPT !.private = TRUE]>>
    [] t[i] \in Pub -> Keyword(t, i + 1, TRUE, r)
    [] OTHER -> Keyword(t, i, ~r.private, r)

RECURSIVE Unit0(_, _)
Unit0(t, at) == IF at[1] > Len(t) THEN at[2] ELSE Unit0(t, Declaration(t, at[1], at[2]))

\* A file as cycc compiles it, from its reading c of the file's tokens. A
\* #define is a flag in its consumer, too.
UnitOf(s, c) ==
  LET flags == IF \E i \in c.hash : TokenAt(s, i + 1) = "define" /\ LeadsLine(s, i) THEN {"flag"} ELSE {}
      Put2(t, i) == IF i \in c.code THEN Append(t, s[i]) ELSE t
  IN  IF ~c.ok THEN Unparsed
      ELSE Unit0(FoldLeft(Put2, <<>>, [i \in DOMAIN s |-> i]),
                 <<1, [ok |-> TRUE, private |-> FALSE, fns |-> {}, others |-> flags]>>)

Unit(s) == UnitOf(s, Cycc(s))

Reached(u) == { f \in u.fns : f.reach }

\* ok.cyr calls each of these with so many arguments, and compiles.
Compiles(u, calls) ==
  u.ok /\ \A c \in calls : \E f \in Reached(u) : f.name = c[1] /\ f.arity = c[2]

\* The names in bad.cyr that cycc calls private to their file.
PrivateTo(u, names) == { n \in names : \E f \in u.fns : f.name = n /\ ~f.reach }

-----------------------------------------------------------------------------
(* boundary_check.py: the names of the public declarations, none if the    *)
(* bundle or one of the two builds is not as it should be; main compares    *)
(* them with the manifest.                                                  *)
Boundary(w, decls, u) ==
  LET public   == { d \in decls : d.public }
      internal == { d.name : d \in decls \ public }
  IN  IF /\ w.hazards = {} /\ Parsable(w.out, decls) /\ internal # {}
         /\ Compiles(u, { Key(d) : d \in public })
         /\ PrivateTo(u, internal) = internal
      THEN { d.name : d \in public } ELSE {}

Names(want) == { k[1] : k \in DOMAIN want }
BoundaryClean(public, want) == public # {} /\ public = Names(want)

\* For what cycc makes of the bundle (u, reached) and the gate of it (w to found).
FrozenFor(u, w, decls, found, reached) ==
  u.ok =>
    /\ found = {} \/ \A want \in Manifests :
         SurfaceClean(found, want) =>
           /\ u.others = {} /\ DOMAIN want = reached
           /\ \A f \in Reached(u) : want[<<f.name, f.arity>>] = "clean" => ~Leaks(f.args)
    /\ (/\ PrivateFirst(w.out) /\ BundleProblems(src, w) = {}
        /\ u.others = {} /\ reached # {} /\ \A f \in u.fns : f.plain)
       => SurfaceClean(found, [k \in reached |-> "leaks-fn-table"])

(* A bundle that compiles and passes the surface gate gives a consumer the  *)
(* functions of the manifest, with its parameters, and nothing else, and no *)
(* function table where the manifest says clean. A bundle of plain private  *)
(* and public functions behind its marker passes with the manifest that     *)
(* says what it is.                                                         *)
SurfaceFrozen ==
  reader = "gates" =>
    \A u \in {Unit(src)}, w \in {Scan(src)} : \A decls \in {Decls(w.out)} :
      FrozenFor(u, w, decls, ParseBundle(src, w, decls), { <<f.name, f.arity>> : f \in Reached(u) })

\* For what cycc makes of the bundle (u) and the gate finds public in it.
HoldsFor(u, decls, public) ==
  public = {} \/ \A want \in Manifests :
    BoundaryClean(public, want) =>
      /\ { f.name : f \in Reached(u) } = Names(want)
      /\ \A f \in u.fns : ~f.reach => \E d \in decls : d.name = f.name /\ ~d.public

(* A bundle that passes the boundary gate has every function that the       *)
(* manifest does not name refused to a consumer: the gate called them all.  *)
BoundaryHolds ==
  reader = "gates" =>
    \A u \in {Unit(src)}, w \in {Scan(src)} : \A decls \in {Decls(w.out)} :
      HoldsFor(u, decls, Boundary(w, decls, u))
=============================================================================
