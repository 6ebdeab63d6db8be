------------------------------- MODULE MCReaders -------------------------------
(* Alphabets in which the readers can lose their place.                      *)
EXTENDS CScan, DbusAuth, DbusSys, DbusUnmarshal

MCReaderNames == {"c", "c_raw", "c_comments", "c_lines", "decode", "sasl", "wire", "fields", "ctrl", "cmsgs"}

Ones(S) == { <<t>> : t \in S }

CTexts == Ones({"x", "1", ".", "/", "*", SQ, DQ, BS, LF, SP, "(", ")"})
            \cup { <<"R", DQ>>, <<"#include<">>, <<">">> }
\* Raw strings with and without a delimiter, whole and not, and what may be
\* in one or after it.
CRawTexts ==
  Ones({"x", DQ, LF}) \cup { <<"R", DQ, "x", "(">>, <<"R", DQ, "(">>, <<"R", DQ, DQ, "(">>,
                            <<")", "x", DQ>>, <<")", DQ>>,
                            <<"/", "*">> }
\* Comments of both kinds, and the quotes that may be in one.
CCommentTexts == Ones({"x", "/", DQ, SQ, LF}) \cup { <<"/", "*">>, <<"*", "/">>, <<"/", "/">> }
CLineTexts == Ones({"x", SP, LF, CR, BS})

Field1(c, s, v) == [code |-> c, sig |-> s, val |-> v]
\* No fields; u; o and g; s and u; u and a type the decoder leaves out.
FieldLists ==
  { <<>>, <<Field1(5, <<117>>, 1)>>,
    <<Field1(1, <<111>>, <<47>>), Field1(8, <<103>>, <<117>>)>>,
    <<Field1(7, <<115>>, <<58, 49, 46, 50>>), Field1(5, <<117>>, 1)>>,
    <<Field1(5, <<117>>, 3), Field1(10, <<121>>, 9)>> }
Messages ==
  [le : BOOLEAN, type : {2}, serial : {258}, fields : FieldLists, body : {<<>>, <<7, 7, 7>>}]

\* What a server sends: whole lines and pieces of them.
ServerTexts ==
  Ones({CR, LF, "x", "OK", "guid", "AGREE", "close"})
    \cup { <<"OK", "guid", CR, LF>>, <<"DATA", CR, LF>>, <<"AGREE", CR, LF>>,
           <<"ERROR", CR, LF>>, <<"REJECTED", CR, LF>> }

\* The starts of header fields, right and wrong, lengths, and bytes.
WireBytes ==
  { <<c[1], 1, c[2], 0>> : c \in { <<5, 117>>, <<1, 111>>, <<8, 103>>, <<10, 121>>,
                                   <<10, 120>>, <<5, 115>>, <<10, 97>> } }
    \cup { <<n, 0, 0, 0>> : n \in {0, 1, 3} } \cup { <<5, 2, 117, 117>>, <<0, 0, 0, 1>> }
    \cup Ones({0, 47})

\* Header fields of every type, well-formed and not.
Fields1 ==
  { Field1(c, <<117>>, 258) : c \in {2, 5, 9} }
    \cup { Field1(1, <<111>>, v) : v \in { <<47>>, <<47, 97>>, <<47, 47>>, <<>> } }
    \cup { Field1(c, <<115>>, v) : c \in {2, 5, 10}, v \in { <<>>, <<97>>, <<97, 0>> } }
    \cup { Field1(8, <<103>>, v) : v \in { <<>>, <<104, 98>>, <<0>> } }
    \cup { Field1(c, <<121>>, 1) : c \in {0, 10} }
    \cup { Field1(10, <<113>>, 1), Field1(10, <<116>>, 1) }

\* Control messages' lengths, right and wrong, kinds, and descriptors.
CtrlWords ==
  { <<n, 0>> : n \in {15, 16, 20, 23, 40} }
    \cup { <<16, 1>>, <<16, -1>>, <<1, 1>>, <<1, 2>>, <<1, 4>>, <<7>>, <<-1>> }
Cmsgs ==
  [level : {1}, type : {1}, n : 0 .. 3]
    \cup { [level |-> 1, type |-> 4, n |-> 1], [level |-> 1, type |-> 2, n |-> 3],
           [level |-> 41, type |-> 1, n |-> 1] }

MCPhrases ==
  [r \in MCReaderNames |->
     CASE r = "c" -> CTexts
       [] r = "c_raw" -> CRawTexts
       [] r = "c_comments" -> CCommentTexts
       [] r = "c_lines" -> CLineTexts
       [] r = "decode" -> Ones(Messages)
       [] r = "sasl" -> ServerTexts
       [] r = "wire" -> WireBytes
       [] r = "fields" -> Ones(Fields1)
       [] r = "ctrl" -> CtrlWords
       [] OTHER -> Ones(Cmsgs)]

MCLongest ==
  [r \in MCReaderNames |->
     CASE r = "decode" -> 2
       [] r \in {"c_raw", "c_comments"} -> 5
       [] r = "c_lines" -> 6
       [] r = "fields" -> 3
       [] OTHER -> 4]
=============================================================================
