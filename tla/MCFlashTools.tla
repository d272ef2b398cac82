---------------------------- MODULE MCFlashTools ---------------------------
(* Small files over a small memory: words 0 and 4, a word at 16, one at 65536. *)
EXTENDS FlashTools

Data(o, bytes) == [type |-> "data", offset |-> o, data |-> bytes]
Segment(v) == [type |-> "segment", value |-> v]
Linear(v) == [type |-> "linear", value |-> v]
Eof == [type |-> "eof"]
Start == [type |-> "start"]

Words == {0, 4, 16, 65536}
MCFactory == [a \in {w + k : w \in Words, k \in 0 .. 3} |-> 7]

\* Two words in two records, the usual file.
Plain == <<Data(0, <<1, 2>>), Data(2, <<3, 4, 5, 6, 7>>), Start, Eof>>
Tiny == <<Data(5, <<8>>), Eof>>
\* Unaligned, under two kinds of base, with a base that ends the other.
Based == <<Segment(1), Data(1, <<1, 2>>), Linear(1), Data(2, <<3, 4>>), Segment(0), Data(3, <<5, 6>>), Eof>>
\* The second record takes back a byte of the first; what follows EOF is not read.
Overlap == <<Data(0, <<1, 2, 3>>), Data(4, <<9>>), Data(2, <<4, 5>>), Eof, Data(0, <<6>>)>>
NoEof == <<Data(0, <<1>>)>>
NoData == <<Linear(1), Eof>>
Beyond == <<Data(0, <<1, 2>>), Linear(25), Data(0, <<3>>), Eof>>
Bad == <<Data(0, <<1>>), [type |-> "bad"], Eof>>
Unknown == <<Data(4, <<1>>), [type |-> "other"], Eof>>

MCShelf == {{Plain, Tiny}, {Based}, {Overlap}, {NoEof}, {NoData}, {Beyond}, {Bad}, {Unknown}}
=============================================================================
