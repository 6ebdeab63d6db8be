------------------------------- MODULE CyrScan -------------------------------
(***************************************************************************)
(* tools/cyr_scan.py: how the CI gates read Cyrius. _walk blanks comments  *)
(* and the insides of literals, keeps every line feed, and reports as a    *)
(* hazard what the compiler itself reads two ways. It is compared with the *)
(* compiler's own reading (Cycc).                                          *)
(*                                                                         *)
(* A token is one character, or a word that the rules know; "x" stands for *)
(* every other word. Positions are 1-based, and an end is exclusive.       *)
(***************************************************************************)
EXTENDS Text

SP == "SP"
DQ == "DQ"
SQ == "SQ"
BS == "BS"

\* The attribute words; `(` may end one of the second kind.
AttrWords == {"io", "assert"}
AttrParen == {"assert"}
Words == AttrWords \cup {"define", "include", "ifdef", "endif", "x"}

Cut(s, i, e) == SubSeq(s, i, e - 1)
Blank(s) == [i \in DOMAIN s |-> IF s[i] = LF THEN LF ELSE SP]

\* The first place from i on, before n, with a token of S; else n.
Find(s, S, i, n) == Min({ k \in i .. n - 1 : s[k] \in S } \cup {n})

-----------------------------------------------------------------------------
(* The scanner.                                                             *)

\* Mutant: `(` may end any attribute word.
AttrAtParen(s, i, n) ==
  /\ i + 1 < n /\ s[i + 1] \in AttrWords
  /\ i + 2 < n => s[i + 2] \in {SP, LF, "("}

\* attr_word: the `#` at i spells an attribute.
AttrAt(s, i, n) ==
  /\ i + 1 < n /\ s[i + 1] \in AttrWords
  /\ i + 2 < n => \/ s[i + 2] \in {SP, LF}
                  \/ s[i + 2] = "(" /\ s[i + 1] \in AttrParen

\* _macro_body: where the body of a function-like #define starts; 0 for none.
MacroBody(s, i, eol, n) ==
  LET name == Find([k \in DOMAIN s |-> IF s[k] = SP THEN SP ELSE "word"], {"word"}, i + 3, eol)
      par  == Find(s, {"(", SP}, name, eol)
      e    == Find(s, {")"}, par, eol)
  IN  IF ~(i + 2 < n /\ s[i + 1] = "define" /\ s[i + 2] = SP) \/ par = eol \/ s[par] # "("
      THEN 0
      ELSE IF e = eol THEN eol ELSE e + 1

\* _cyr_char_end: the lexer's two literals, else the preprocessor's reading,
\* up to the next unescaped quote or the line's end.
CharEnd(s, i, n) ==
  LET Rest[j \in i + 1 .. n + 1] ==
        IF j >= n THEN n
        ELSE IF s[j] = LF THEN j
        ELSE IF s[j] = SQ THEN j + 1
        ELSE IF s[j] # BS THEN Rest[j + 1]
        ELSE IF j + 1 < n /\ s[j + 1] = LF THEN j + 1 ELSE Rest[j + 2]
  IN  IF i + 2 < n /\ s[i + 1] # BS /\ s[i + 2] = SQ
      THEN [end |-> i + 3, hazard |-> s[i + 1] \in {SQ, LF}]
      ELSE IF i + 3 < n /\ s[i + 1] = BS /\ s[i + 2] # LF /\ s[i + 3] = SQ
      THEN [end |-> i + 4, hazard |-> FALSE]
      ELSE [end |-> Rest[i + 1], hazard |-> FALSE]

\* _string_end: past the closing quote, and whether there is one.
StringEnd(s, i, n) ==
  LET Close[j \in i + 1 .. n + 1] ==
        IF j >= n THEN n
        ELSE IF s[j] = DQ THEN j
        ELSE Close[IF s[j] = BS THEN j + 2 ELSE j + 1]
      e == Close[i + 1]
  IN  [end |-> IF e < n THEN e + 1 ELSE n, closed |-> e < n]

(* A walk: where it is, whether only blanks precede on the line, its text,  *)
(* the `#` it met in code, the string literals, and the hazards.            *)
Walk0(i, bol) == [i |-> i, bol |-> bol, out |-> <<>>, found |-> {}, strings |-> {}, hazards |-> {}]

Put(w, text, i) == [w EXCEPT !.i = i, !.out = @ \o text]

Comment(s, n, w) ==
  LET eol == Find(s, {LF}, w.i, n)
      v   == IF w.i + 1 < eol /\ s[w.i + 1] \in Words THEN [w EXCEPT !.found = @ \cup {w.i}] ELSE w
  IN  Put(v, Blank(Cut(s, w.i, eol)), eol)

Attribute(s, n, w) ==
  [Put(w, Blank(Cut(s, w.i, w.i + 2)), w.i + 2) EXCEPT !.bol = FALSE, !.found = @ \cup {w.i}]

\* An include at column 0: the name is raw to its first quote, the rest dropped.
Include(s, n, w) ==
  LET eol == Find(s, {LF}, w.i, n)
      q   == Find(s, {DQ}, w.i + 3, n)
  IN  IF q > eol \/ q = n
      THEN [Put(w, Blank(Cut(s, w.i, eol)), eol) EXCEPT !.hazards = @ \cup {w.i}]
      ELSE [Put(w, <<"include", SP, DQ>> \o Blank(Cut(s, w.i + 3, q)) \o <<DQ>>
                     \o Blank(Cut(s, q + 1, eol)), eol)
              EXCEPT !.strings = @ \cup {<<w.i + 2, q + 1>>}]

Char(s, n, w) ==
  LET c == CharEnd(s, w.i, n)
  IN  [Put(w, Blank(Cut(s, w.i, c.end)), c.end)
         EXCEPT !.bol = FALSE, !.hazards = IF c.hazard THEN @ \cup {w.i} ELSE @]

\* Mutant: a string that is still open is not reported.
StringQuiet(s, n, w) ==
  LET e == StringEnd(s, w.i, n)
  IN  [Put(w, <<DQ>> \o Blank(Cut(s, w.i + 1, IF e.closed THEN e.end - 1 ELSE e.end))
                \o (IF e.closed THEN <<DQ>> ELSE <<>>), e.end)
         EXCEPT !.bol = FALSE, !.strings = @ \cup {<<w.i, e.end>>}]

String(s, n, w) ==
  LET e == StringEnd(s, w.i, n)
  IN  [Put(w, <<DQ>> \o Blank(Cut(s, w.i + 1, IF e.closed THEN e.end - 1 ELSE e.end))
                \o (IF e.closed THEN <<DQ>> ELSE <<>>), e.end)
         EXCEPT !.bol = FALSE, !.strings = @ \cup {<<w.i, e.end>>},
                !.hazards = IF e.closed THEN @ ELSE @ \cup {w.i}]

Plain(s, w) ==
  [Put(w, <<s[w.i]>>, w.i + 1)
     EXCEPT !.bol = IF s[w.i] = LF THEN TRUE ELSE @ /\ s[w.i] = SP]

(* _walk from w.i to n. A function-like #define has its body walked on its  *)
(* own, to the end of the line; top is false in such a body.                *)
RECURSIVE Walk(_, _, _, _)
Walk(s, n, top, w) ==
  LET i   == w.i
      eol == Find(s, {LF}, i, n)
      mac == IF w.bol /\ top THEN MacroBody(s, i, eol, n) ELSE 0
  IN  IF i >= n THEN w
      ELSE Walk(s, n, top,
        IF s[i] = "#" /\ AttrAt(s, i, n) THEN Attribute(s, n, w)
        ELSE IF s[i] = "#" /\ mac # 0 THEN
          [Walk(s, eol, FALSE, [Put(w, Blank(Cut(s, i, mac)), mac) EXCEPT !.bol = FALSE])
             EXCEPT !.bol = w.bol, !.found = @ \cup {i}]
        ELSE IF s[i] = "#" THEN Comment(s, n, w)
        ELSE IF /\ s[i] = "include" /\ top /\ (i = 1 \/ s[i - 1] = LF)
                /\ i + 2 < n /\ s[i + 1] = SP /\ s[i + 2] = DQ THEN Include(s, n, w)
        ELSE IF s[i] = SQ THEN Char(s, n, w)
        ELSE IF s[i] = DQ THEN String(s, n, w)
        ELSE Plain(s, w))

Scan(s) == Walk(s, Len(s) + 1, TRUE, Walk0(1, TRUE))

\* What strip() keeps as code: neither blank nor a literal's quotes.
Kept(s) == LET r == Scan(s) IN { i \in DOMAIN s : r.out[i] = s[i] /\ s[i] \notin {LF, SP, DQ} }
Strings(s) == UNION { p[1] + 1 .. p[2] - 2 : p \in Scan(s).strings }

-----------------------------------------------------------------------------
(* The compiler (cycc 6.7.18), as the tool's documentation describes it: a  *)
(* preprocessor that consumes whole lines and tracks literals only to know  *)
(* whether a line begins in one, and a lexer that reads what is left.       *)

\* One token of code, of a string or of a comment, to either of them.
Read(m, t, attr) ==
  CASE m = "code"   -> IF t = "#" /\ ~attr THEN "comment" ELSE IF t = DQ THEN "string" ELSE m
    [] m = "comment" -> IF t = LF THEN "code" ELSE m
    [] m = "string" -> IF t = BS THEN "escaped" ELSE IF t = DQ THEN "code" ELSE m
    [] m = "escaped" -> "string"
    [] OTHER -> m

\* To the preprocessor a character ends at the next quote or with the line.
PP(m, t, attr) ==
  CASE m = "code" /\ t = SQ -> "char"
    [] m = "char" -> IF t = BS THEN "charescaped" ELSE IF t \in {SQ, LF} THEN "code" ELSE m
    [] m = "charescaped" -> IF t = LF THEN "code" ELSE "char"
    [] OTHER -> Read(m, t, attr)

\* To the lexer it is one character or escape, or an error.
Lex(m, t, attr) ==
  CASE m = "code" /\ t = SQ -> "char"
    [] m = "char"    -> IF t = BS THEN "charescaped" ELSE "charclose"
    [] m = "charescaped" -> IF t = LF THEN "error" ELSE "charclose"
    [] m = "charclose" -> IF t = SQ THEN "code" ELSE "error"
    [] OTHER -> Read(m, t, attr)

\* A `#` spells an attribute, by LEXATTRWORD and LEXATTRBOUND.
IsAttr(s, i) ==
  /\ s[i] = "#" /\ i < Len(s) /\ s[i + 1] \in AttrWords
  /\ i + 1 = Len(s) \/ s[i + 2] \in {SP, LF} \/ (s[i + 2] = "(" /\ s[i + 1] \in AttrParen)

Lead(s, a) == CHOOSE k \in a .. Len(s) + 1 :
                /\ \A j \in a .. k - 1 : s[j] = SP
                /\ k = Len(s) + 1 \/ s[k] # SP
Starts(s, k, words) == k + Len(words) - 1 <= Len(s) /\ SubSeq(s, k, k + Len(words) - 1) = words

Eol(s, a) == Find(s, {LF}, a, Len(s) + 1)

\* Where the body of `#define name(..) body` begins, if it is one.
BodyStarts(s, k, e) ==
  { q + 1 : q \in { j \in k + 4 .. e - 1 : s[j] = ")" /\ \E p \in k + 3 .. j - 1 :
      /\ s[p] = "(" /\ \A i \in p .. j - 1 : s[i] # ")"
      /\ \A i \in k + 3 .. p - 1 : s[i] # "(" /\ (s[i] = SP => i < Lead(s, k + 3)) } }

Reading0 == [pp |-> "code", lx |-> "code", off |-> 0, ok |-> TRUE, cond |-> FALSE,
             code |-> {}, strings |-> {}, hash |-> {}]

\* One token, to both; in a false region the lexer sees nothing.
Token(s, r, i) ==
  LET t    == s[i]
      attr == IsAttr(s, i)
      next == Lex(r.lx, t, attr)
      name == i > 1 /\ IsAttr(s, i - 1)
  IN  [r EXCEPT
        !.pp = PP(@, t, attr),
        !.lx = IF r.off > 0 THEN @ ELSE next,
        !.ok = @ /\ (r.off > 0 \/ next # "error"),
        !.code = IF /\ r.off = 0 /\ r.lx = "code" /\ ~name
                    /\ t \notin {LF, SP, DQ, SQ, "#"} THEN @ \cup {i} ELSE @,
        !.hash = IF /\ r.off = 0 /\ r.lx = "code" /\ t = "#"
                    /\ i < Len(s) /\ s[i + 1] \in Words THEN @ \cup {i} ELSE @,
        !.strings = IF r.off = 0 /\ (r.lx = "escaped" \/ (r.lx = "string" /\ t # DQ))
                    THEN @ \cup {i} ELSE @]

Tokens(s, r, a, e) ==
  LET One(q, i) == Token(s, q, i) IN FoldLeft(One, r, [j \in 1 .. e - a |-> a + j - 1])

\* The body is compiled on its own wherever it is called.
Define(s, r, k, e) ==
  LET b == CHOOSE b \in BodyStarts(s, k, e) : TRUE
      m == Tokens(s, Reading0, b, e)
      d == [r EXCEPT !.hash = @ \cup {k}]
  IN  IF r.off > 0 THEN r
      ELSE IF BodyStarts(s, k, e) = {} THEN d
      ELSE [d EXCEPT !.code = @ \cup m.code, !.strings = @ \cup m.strings,
                     !.hash = @ \cup m.hash, !.ok = @ /\ m.ok]

Line(s, r, a) ==
  LET e == Eol(s, a)
      k == Lead(s, a)
      q == Find(s, {DQ}, a + 3, e)
      Directive(w) == Starts(s, k, <<"#", w>>) /\ (k + 2 <= Len(s) => s[k + 2] \in {SP, LF})
      consumed ==
        CASE Starts(s, a, <<"include", SP, DQ>>) ->
               [r EXCEPT !.ok = @ /\ q < e, !.code = @ \cup {a}, !.strings = @ \cup (a + 3 .. q - 1)]
          [] Starts(s, k, <<"#", "define", SP>>) -> Define(s, r, k, e)
          [] Directive("ifdef") -> [r EXCEPT !.off = @ + 1, !.cond = TRUE, !.hash = @ \cup {k}]
          [] Directive("endif") -> [r EXCEPT !.off = @ - 1, !.ok = @ /\ r.off > 0, !.hash = @ \cup {k}]
          [] OTHER -> Reading0
      lf == IF e <= Len(s) THEN e + 1 ELSE e
  IN  IF r.pp = "code" /\ consumed # Reading0 THEN Tokens(s, consumed, e, lf)
      ELSE Tokens(s, r, a, lf)

Cycc(s) ==
  LET starts == SelectSeq([i \in 1 .. Len(s) + 1 |-> i], LAMBDA i : i = 1 \/ s[i - 1] = LF)
      One(r, a) == Line(s, r, a)
      r == FoldLeft(One, Reading0, starts)
  IN  [r EXCEPT !.ok = @ /\ r.lx \in {"code", "comment"} /\ r.off >= 0]

-----------------------------------------------------------------------------
\* The alphabets of quotes, of what a line begins with, and of quotes in
\* regions that are not compiled.
CyrReaders == {"cyr", "cyr_lines", "cyr_cond"}

(* A source that no hazard is reported for and that compiles is read as it  *)
(* is compiled: nothing that cycc takes for code or for a string's text is  *)
(* hidden from a gate, and outside false #ifdef regions nothing is added.   *)
ReadAsCompiled ==
  reader \in CyrReaders =>
    LET c    == Cycc(src)
        w    == Scan(src)
        kept == Kept(src)
        text == Strings(src)
    IN  /\ Len(w.out) = Len(src) /\ \A i \in DOMAIN src : (src[i] = LF) <=> (w.out[i] = LF)
        /\ c.ok /\ w.hazards = {} =>
             /\ c.code \subseteq kept /\ c.strings \subseteq text
             /\ c.hash \subseteq w.found
             /\ c.cond \/ (kept \subseteq c.code /\ text \subseteq c.strings /\ w.found \subseteq c.hash)

(* Each file is scanned on its own, and that is enough: what cycc compiles  *)
(* of two files, one included ahead of the other, is seen in one of them,   *)
(* unless a hazard is reported for one. (A file that ends in the middle of  *)
(* a character literal is not a file that compiles.)                        *)
ScannedApart ==
  reader \in CyrReaders =>
    LET c == Cycc(src) IN
    \A k \in { i \in DOMAIN src : src[i] = LF } :
      LET a == SubSeq(src, 1, k - 1)
          b == SubSeq(src, k + 1, Len(src))
      IN  /\ c.ok /\ Scan(a).hazards = {} /\ Scan(b).hazards = {}
          /\ Cycc(a).lx \in {"code", "comment", "string", "escaped"}
          => c.code \subseteq Kept(a) \cup { k + i : i \in Kept(b) }
=============================================================================
