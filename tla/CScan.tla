-------------------------------- MODULE CScan --------------------------------
(***************************************************************************)
(* tools/cyr_scan.py: how the CI gates read C. normalize_c ends lines as   *)
(* gcc does and joins spliced ones, keeping line numbers; _walk then blanks *)
(* comments and the insides of literals. Both are compared with the C      *)
(* compiler's translation phases.                                          *)
(*                                                                         *)
(* "x" stands for a letter, "R" for a raw-string prefix, "1" for a digit   *)
(* and "#include<" for the start of an include of a header name.           *)
(***************************************************************************)
EXTENDS CyrScan

Alnum == {"x", "R", "1"}

-----------------------------------------------------------------------------
(* normalize_c                                                              *)

UnixEnds(s) ==
  LET Unix(out, i) == IF s[i] # CR THEN Append(out, s[i])
                      ELSE IF i < Len(s) /\ s[i + 1] = LF THEN out ELSE Append(out, LF)
  IN  FoldLeft(Unix, <<>>, [i \in DOMAIN s |-> i])

LineEnds(n) == [k \in 1 .. n |-> LF]

\* Mutant: a line end that is removed is put back at once.
JoinedEarly(s) ==
  LET Join[i \in 1 .. Len(s) + 1] ==
        IF i > Len(s) THEN <<>>
        ELSE IF s[i] = BS /\ i < Len(s) /\ s[i + 1] = LF THEN <<LF>> \o Join[i + 2]
        ELSE <<s[i]>> \o Join[i + 1]
  IN  Join[1]

\* Backslash, blanks and a line end are removed; the line ends that went
\* are put back after the next one that stays.
Joined(s) ==
  LET n == Len(s)
      Join[i \in 1 .. n + 1, pending \in 0 .. n] ==
        LET j == CHOOSE k \in i + 1 .. n + 1 :
                   (k > n \/ s[k] # SP) /\ \A m \in i + 1 .. k - 1 : s[m] = SP
        IN  IF i > n THEN LineEnds(pending)
            ELSE IF s[i] = BS /\ j <= n /\ s[j] = LF THEN Join[j + 1, pending + 1]
            ELSE IF s[i] = LF THEN <<LF>> \o LineEnds(pending) \o Join[i + 1, 0]
            ELSE <<s[i]>> \o Join[i + 1, pending]
  IN  Join[1, 0]

NormalizeC(s) == Joined(UnixEnds(s))

-----------------------------------------------------------------------------
(* _walk for C                                                              *)

\* _c_digit_sep: a quote inside a number.
DigitSep(s, i) ==
  LET start == CHOOSE k \in 1 .. i : /\ \A j \in k .. i - 1 : s[j] \in Alnum \cup {".", SQ}
                                     /\ k = 1 \/ s[k - 1] \notin Alnum \cup {".", SQ}
  IN  /\ i < Len(s) /\ s[i + 1] \in Alnum
      /\ start < i
      /\ s[start] = "1" \/ (s[start] = "." /\ start + 1 < i /\ s[start + 1] = "1")

\* Mutant: the delimiter is left out of what ends the string.
RawClosesAnywhere(s, delim, k) ==
  { e + 2 : e \in { j \in k + 1 .. Len(s) - 1 : Cut(s, j, j + 2) = <<")", DQ>> } }

\* Past each `)delim"` that is after k.
RawCloses(s, delim, k) ==
  LET m == Len(delim) + 2 IN
  { e + m : e \in { j \in k + 1 .. Len(s) + 1 - m : Cut(s, j, j + m) = <<")">> \o delim \o <<DQ>> } }

\* _c_raw_end: past the end of the raw string that opens at i; 0 for none.
RawEnd(s, i) ==
  LET n     == Len(s) + 1
      k     == Find(s, {"("}, i + 1, n)
      delim == Cut(s, i + 1, k)
      ends  == RawCloses(s, delim, k)
  IN  IF \/ i = 1 \/ s[i - 1] # "R" \/ (i > 2 /\ s[i - 2] \in Alnum)
         \/ k = n \/ ToSet(delim) \cap {SP, BS, ")", LF, DQ} # {} \/ ends = {}
      THEN 0
      ELSE Min(ends)

\* _string_end: a literal ends at its quote, or at the line's end.
CStringEnd(s, i) ==
  LET n == Len(s) + 1
      Close[j \in i + 1 .. n + 1] ==
        IF j >= n THEN [end |-> n, closed |-> FALSE]
        ELSE IF s[j] = s[i] THEN [end |-> j + 1, closed |-> TRUE]
        ELSE IF s[j] = BS THEN Close[j + 2]
        ELSE IF s[j] = LF THEN [end |-> j, closed |-> FALSE] ELSE Close[j + 1]
  IN  Close[i + 1]

Header(s, w) ==
  LET e == Find(s, {LF}, w.i, Len(s) + 1)
      k == Find(s, {">"}, w.i, e)
  IN  [Put(w, <<"#include<">> \o Blank(Cut(s, w.i + 1, k)) \o (IF k = e THEN <<>> ELSE <<">">>),
           IF k = e THEN e ELSE k + 1) EXCEPT !.bol = FALSE]

LineComment(s, w) ==
  LET e == Find(s, {LF}, w.i, Len(s) + 1) IN Put(w, Blank(Cut(s, w.i, e)), e)

BlockComment(s, w) ==
  LET n == Len(s) + 1
      e == Min({ k + 2 : k \in { j \in w.i + 2 .. n - 2 : s[j] = "*" /\ s[j + 1] = "/" } } \cup {n})
  IN  Put(w, Blank(Cut(s, w.i, e)), e)

Literal(s, w) ==
  LET raw == IF s[w.i] = DQ THEN RawEnd(s, w.i) ELSE 0
      e   == IF raw # 0 THEN [end |-> raw, closed |-> TRUE] ELSE CStringEnd(s, w.i)
      q   == <<s[w.i]>>
  IN  [Put(w, q \o Blank(Cut(s, w.i + 1, IF e.closed THEN e.end - 1 ELSE e.end))
                \o (IF e.closed THEN q ELSE <<>>), e.end) EXCEPT !.bol = FALSE]

RECURSIVE CWalk(_, _)
CWalk(s, w) ==
  LET i == w.i IN
  IF i > Len(s) THEN w
  ELSE CWalk(s,
    IF s[i] = "#include<" /\ w.bol THEN Header(s, w)
    ELSE IF Starts(s, i, <<"/", "/">>) THEN LineComment(s, w)
    ELSE IF Starts(s, i, <<"/", "*">>) THEN BlockComment(s, w)
    ELSE IF s[i] = DQ \/ (s[i] = SQ /\ ~DigitSep(s, i)) THEN Literal(s, w)
    ELSE Plain(s, w))

CStripped(s) == CWalk(s, Walk0(1, TRUE)).out
CKept(s, out) == { i \in DOMAIN s : out[i] = s[i] /\ s[i] \notin {LF, SP, DQ, SQ} }

-----------------------------------------------------------------------------
(* The C compiler: preprocessing tokens, each as long as it can be.         *)

\* Where the token at i ends, what kind it is, and whether it is complete.
Tok(k, e, ok) == [kind |-> k, end |-> e, ok |-> ok]

Run(s, i, S) == CHOOSE k \in i .. Len(s) + 1 :
                  (\A j \in i .. k - 1 : s[j] \in S) /\ (k = Len(s) + 1 \/ s[k] \notin S)

\* A pp-number goes on with letters, digits and dots, and with a quote that
\* one of the first two follows.
NumberEnd(s, i) ==
  CHOOSE k \in i + 1 .. Len(s) + 1 :
    LET In(j) == \/ s[j] \in Alnum \cup {"."}
                 \/ s[j] = SQ /\ j < Len(s) /\ s[j + 1] \in Alnum
    IN  (\A j \in i .. k - 1 : In(j)) /\ (k = Len(s) + 1 \/ ~In(k))

\* A literal ends at its quote, on its line; an escape is two characters.
LiteralEnd(s, i) ==
  LET Escaped[j \in i .. Len(s)] == j > i + 1 /\ s[j - 1] = BS /\ ~Escaped[j - 1]
  IN  { k \in i + 1 .. Len(s) :
          s[k] = s[i] /\ ~Escaped[k] /\ \A j \in i + 1 .. k - 1 : s[j] # LF }

\* The delimiter of the raw string whose quote is at i may hold a quote, too;
\* it ends where the delimiter comes again.
Delimiter(s, i) == Cut(s, i + 1, Find(s, {"("}, i + 1, Len(s) + 1))

RawEnds(s, i) ==
  LET d == Delimiter(s, i) IN
  { e \in i + 2 * Len(d) + 3 .. Len(s) :
      /\ ToSet(d) \cap {SP, BS, ")", LF} = {}
      /\ Cut(s, e - Len(d) - 1, e + 1) = <<")">> \o d \o <<DQ>> }

RawToken(s, i) ==
  LET E == RawEnds(s, i + 1) IN
  IF E = {} THEN Tok("raw", Len(s) + 1, FALSE)
  ELSE Tok(IF DQ \in ToSet(Delimiter(s, i + 1)) THEN "quoted" ELSE "raw", Min(E) + 1, TRUE)

Token1(s, i, bol) ==
  CASE s[i] = "#include<" /\ bol ->
         LET e == Find(s, {LF}, i, Len(s) + 1)
         IN  Tok("header", Find(s, {">"}, i, e) + 1, Find(s, {">"}, i, e) < e)
    [] Starts(s, i, <<"/", "/">>) -> Tok("space", Find(s, {LF}, i, Len(s) + 1), TRUE)
    [] Starts(s, i, <<"/", "*">>) ->
         LET E == { k \in i + 2 .. Len(s) - 1 : s[k] = "*" /\ s[k + 1] = "/" }
         IN  IF E = {} THEN Tok("space", Len(s) + 1, FALSE) ELSE Tok("space", Min(E) + 2, TRUE)
    [] Starts(s, i, <<"R", DQ>>) -> RawToken(s, i)
    [] s[i] \in {"x", "R"} -> Tok("word", Run(s, i, Alnum), TRUE)
    [] s[i] = "1" \/ (s[i] = "." /\ i < Len(s) /\ s[i + 1] = "1") -> Tok("number", NumberEnd(s, i), TRUE)
    [] s[i] \in {SQ, DQ} ->
         IF LiteralEnd(s, i) = {} THEN Tok("literal", i + 1, FALSE)
         ELSE Tok("literal", Min(LiteralEnd(s, i)) + 1, TRUE)
    [] OTHER -> Tok(IF s[i] = SP THEN "space" ELSE IF s[i] = LF THEN "newline"
                   ELSE IF s[i] = "." THEN "word" ELSE "other", i + 1, TRUE)

\* A number directly behind a literal, a name or a dot, or a literal behind a
\* number: no C program has one, save behind the dots of a GNU case range.
Adjacent(last, t) ==
  \/ t = "number" /\ last \in {"literal", "word"}
  \/ t = "literal" /\ last = "number"

RECURSIVE Gcc(_, _, _)
Gcc(s, i, r) ==
  IF i > Len(s) THEN r
  ELSE
    LET t    == Token1(s, i, r.bol)
        span == i .. t.end - 1
    IN  Gcc(s, t.end,
         [ok   |-> r.ok /\ t.ok /\ ~Adjacent(r.last, t.kind),
          quoted |-> r.quoted \/ t.kind = "quoted",
          last |-> t.kind,
          bol  |-> t.kind = "newline" \/ (t.kind = "space" /\ r.bol),
          code |-> r.code \cup
            CASE t.kind \in {"word", "number", "other"} -> span
              [] t.kind = "header" -> {i, t.end - 1}
              [] t.kind \in {"raw", "quoted"} -> {i}
              [] OTHER -> {} ])

Compiled(s) == Gcc(s, 1, [ok |-> TRUE, quoted |-> FALSE, last |-> "newline", bol |-> TRUE, code |-> {}])

-----------------------------------------------------------------------------
(* What gcc takes for code in a lexically complete C file is kept for the   *)
(* gates, and nothing else is: no comment, literal, digit separator, raw    *)
(* string or header name makes the reader lose its place. A raw string with *)
(* a quote in its delimiter is not known to it (cyr_scan.py:238).           *)
CReadAsCompiled ==
  reader \in {"c", "c_raw", "c_comments"} =>
    LET g   == Compiled(src)
        out == CStripped(src)
    IN
    /\ Len(out) = Len(src)
    /\ g.ok /\ ~g.quoted => { i \in CKept(src, out) : src[i] # SQ } = { i \in g.code : src[i] # SQ }

\* The line a place of a normalised text is on.
LineIn(s, i) == 1 + Cardinality({ j \in 1 .. i - 1 : s[j] = LF })

(* A finding's line number is right: what normalize_c leaves is, in order,  *)
(* what the file holds outside splices, and each character of it is on the  *)
(* line where its logical line begins in the file.                          *)
LinesKept ==
  reader = "c_lines" =>
    LET u == UnixEnds(src)
        n == NormalizeC(src)
        spliced == { e \in DOMAIN u : u[e] = LF /\ \E b \in 1 .. e - 1 :
                       u[b] = BS /\ \A j \in b + 1 .. e - 1 : u[j] = SP }
        here == SetToSortSeq({ i \in DOMAIN u : u[i] = "x" }, <)
        there == SetToSortSeq({ i \in DOMAIN n : n[i] = "x" }, <)
        Begin(i) == Max({0} \cup { e \in 1 .. i - 1 : u[e] = LF /\ e \notin spliced }) + 1
    IN  /\ Len(here) = Len(there)
        /\ \A k \in DOMAIN here : LineIn(n, there[k]) = LineIn(u, Begin(here[k]))
        /\ LineIn(n, Len(n) + 1) = LineIn(u, Len(u) + 1)
=============================================================================
