------------------------------ MODULE HexImage ------------------------------
(***************************************************************************)
(* What an Intel HEX file means, and how the repository's flashing tools   *)
(* read one.  The WebUSB page and the npm application build a map of whole *)
(* words; the console and the command-line tool build a list of segments.  *)
(*                                                                         *)
(* A file is a sequence of records                                         *)
(*    [type |-> "data", offset |-> o, data |-> <<b1, b2, ...>>]            *)
(*    [type |-> "segment" (02) or "linear" (04), value |-> v]              *)
(*    [type |-> "eof" (01)], "start" (03 and 05, skipped by every tool),   *)
(*    "other" (a type no tool supports), "bad" (a checksum or a digit is   *)
(*    wrong: every tool throws).                                           *)
(* A memory is a function from byte addresses to bytes.                    *)
(***************************************************************************)
EXTENDS Integers, SequencesExt, Listing

CONSTANTS
    ChunkWords,  \* words of a chunk of the word map: IMAGE_CHUNK_BYTES / 4
    BlockWords,  \* words the npm tool's RAM stub copies at once: bufferBytes / 4
    WriteChunk   \* bytes the direct writers send before they go on

ASSUME ChunksAreSome == {ChunkWords, BlockWords, WriteChunk} \subseteq Nat \ {0}

Bytes == 0 .. 255

\* The records a file is made of.
HexRecord ==
    [type : {"data"}, offset : Nat, data : Seq(Bytes)]
    \cup [type : {"segment", "linear"}, value : Nat]
    \cup [type : {"eof", "start", "other", "bad"}]

WordOf(a) == a - (a % 4)
Span(base, data) == base .. base + Len(data) - 1

(* ------------------------- what the file means ------------------------- *)

\* The records that count: those before the first end-of-file record.
Body(file) ==
    LET ends == {i \in DOMAIN file : file[i].type = "eof"}
    IN  IF ends = {} THEN file ELSE SubSeq(file, 1, Min(ends) - 1)

\* The address record in force at record i decides the upper address bits.
BaseAt(body, i) ==
    LET above == {j \in 1 .. i - 1 : body[j].type \in {"segment", "linear"}}
    IN  IF above = {} THEN 0
        ELSE LET r == body[Max(above)]
             IN  r.value * (IF r.type = "linear" THEN 65536 ELSE 16)

RecordSpan(body, i) ==
    IF body[i].type = "data" THEN Span(BaseAt(body, i) + body[i].offset, body[i].data) ELSE {}

\* The memory the file describes: at each address, the last record's byte.
Meaning(file) ==
    LET body == Body(file)
        Writer(a) == Max({i \in DOMAIN body : a \in RecordSpan(body, i)})
    IN  [a \in UNION {RecordSpan(body, i) : i \in DOMAIN body} |->
            LET i == Writer(a)
            IN  body[i].data[a - BaseAt(body, i) - body[i].offset + 1]]

\* Two records of the file give one address different bytes.
Contradicts(file) ==
    LET body == Body(file)
    IN  \E i \in DOMAIN body : \E a \in RecordSpan(body, i) :
            body[i].data[a - BaseAt(body, i) - body[i].offset + 1] # Meaning(file)[a]

Override(mem, part) ==
    [a \in DOMAIN mem |-> IF a \in DOMAIN part THEN part[a] ELSE mem[a]]

(* --------------- the word map of the page and the npm tool ------------- *)

\* FLASH_LIMITS: RRAM and the user information block.
Flashable(w) == w + 4 <= 1560576 \/ (w >= 16764928 /\ w + 4 <= 16769024)

\* Mutant: of two records for one word the first wins.
PutWords_FirstWins(words, base, data) ==
    [a \in DOMAIN words \cup {WordOf(b) + k : b \in Span(base, data), k \in 0 .. 3} |->
        IF a \in DOMAIN words THEN words[a]
        ELSE IF a \in Span(base, data) THEN data[a - base + 1] ELSE 255]

\* A record sets its bytes; a word it is the first to touch starts as 0xFFFFFFFF.
PutWords(words, base, data) ==
    [a \in DOMAIN words \cup {WordOf(b) + k : b \in Span(base, data), k \in 0 .. 3} |->
        IF a \in Span(base, data) THEN data[a - base + 1]
        ELSE IF a \in DOMAIN words THEN words[a] ELSE 255]

WordRecord(s, r) ==
    IF s.at # "reading" THEN s
    ELSE CASE r.type = "data" ->
                IF \A a \in Span(s.upper + r.offset, r.data) : Flashable(WordOf(a))
                THEN [s EXCEPT !.words = PutWords(@, s.upper + r.offset, r.data)]
                ELSE [s EXCEPT !.at = "rejected"]
           [] r.type = "eof" -> [s EXCEPT !.at = "ended"]
           [] r.type = "segment" -> [s EXCEPT !.upper = r.value * 16]
           [] r.type = "linear" -> [s EXCEPT !.upper = r.value * 65536]
           [] r.type = "start" -> s
           [] OTHER -> [s EXCEPT !.at = "rejected"]

\* The words in address order, cut where they are not contiguous and every n words.
Cut(words, n) ==
    LET run(w)  == Max({v \in DOMAIN words : v <= w /\ v % 4 = 0 /\ v - 1 \notin DOMAIN words})
        starts  == {w \in DOMAIN words : w % 4 = 0 /\ ((w - run(w)) % (4 * n)) = 0}
        size(w) == Cardinality({v \in DOMAIN words : v \in w .. w + 4 * n - 1 /\ run(WordOf(v)) = run(w)})
        Chunk(w) == [address |-> w, data |-> [i \in 1 .. size(w) |-> words[w + i - 1]]]
        order   == InOrder(starts)
    IN  [i \in DOMAIN order |-> Chunk(order[i])]

Reading == [words |-> <<>>, upper |-> 0, at |-> "reading"]
Rejected == [ok |-> FALSE, parts |-> <<>>]
Parsed(parts) == [ok |-> TRUE, parts |-> parts]

PageParse(file) ==
    LET s == FoldLeft(WordRecord, Reading, file)
    IN  IF s.at # "ended" \/ DOMAIN s.words = {} THEN Rejected
        ELSE Parsed(Cut(s.words, ChunkWords))

\* The npm tool's parser is the page's, without its check of truncated records.
NpmParse(file) ==
    LET s == FoldLeft(WordRecord, Reading, file)
    IN  IF s.at # "ended" \/ DOMAIN s.words = {} THEN Rejected
        ELSE Parsed(Cut(s.words, ChunkWords))

\* Each chunk is handed to the stub in blocks of at most n words.
NpmBlocks(chunks, n) ==
    LET Blocks(c) == [i \in 1 .. (Len(c.data) + 4 * n - 1) \div (4 * n) |->
            [address |-> c.address + 4 * n * (i - 1),
             data    |-> SubSeq(c.data, 4 * n * (i - 1) + 1, Min({4 * n * i, Len(c.data)}))]]
    IN  FlattenSeq([i \in DOMAIN chunks |-> Blocks(chunks[i])])

(* ------------ the segments of the console and the command line --------- *)

\* A data record extends the segment before it when it continues it.
AddSegment(segments, address, data) ==
    LET n == Len(segments)
    IN  IF n > 0 /\ segments[n].address + Len(segments[n].data) = address
        THEN [segments EXCEPT ![n].data = @ \o data]
        ELSE Append(segments, [address |-> address, data |-> data])

SegmentRecord(s, r) ==
    IF s.at # "reading" THEN s
    ELSE CASE r.type = "data" ->
                LET base == IF s.linear # 0 THEN s.linear * 65536 ELSE s.segment * 16
                IN  [s EXCEPT !.segments = AddSegment(@, base + r.offset, r.data)]
           [] r.type = "eof" -> [s EXCEPT !.at = "ended"]
           [] r.type = "segment" -> [s EXCEPT !.segment = r.value, !.linear = 0]
           [] r.type = "linear" -> [s EXCEPT !.linear = r.value, !.segment = 0]
           [] r.type = "start" -> s
           [] OTHER -> [s EXCEPT !.at = "rejected"]

\* No address is refused, and a file without data is an image of no segments.
ConsoleParse(file) ==
    LET s == FoldLeft(SegmentRecord,
                 [segments |-> <<>>, linear |-> 0, segment |-> 0, at |-> "reading"], file)
    IN  IF s.at = "ended" THEN Parsed(s.segments) ELSE Rejected

CliParse(file) ==
    LET s == FoldLeft(SegmentRecord,
                 [segments |-> <<>>, linear |-> 0, segment |-> 0, at |-> "reading"], file)
    IN  IF s.at = "ended" THEN Parsed(s.segments) ELSE Rejected

\* The pieces of at most WriteChunk bytes in which a segment is written and verified.
Pieces(segment) ==
    [i \in 1 .. (Len(segment.data) + WriteChunk - 1) \div WriteChunk |->
        [address |-> segment.address + WriteChunk * (i - 1),
         data    |-> SubSeq(segment.data, WriteChunk * (i - 1) + 1,
                            Min({WriteChunk * i, Len(segment.data)}))]]

(* ------------------- words on the bus, bytes in the file ---------------- *)

\* Mutant: the bytes around the record are not read first.
PatchWord_Padded(mem, w, address, data) ==
    [a \in DOMAIN mem |->
        IF a \notin w .. w + 3 THEN mem[a]
        ELSE IF a \in Span(address, data) THEN data[a - address + 1] ELSE 255]

\* A word is read, the count bytes that belong to the data replaced, and written back.
PatchWord(mem, w, address, data) ==
    LET word == [k \in 0 .. 3 |-> IF w + k \in Span(address, data)
                                  THEN data[w + k - address + 1] ELSE mem[w + k]]
    IN  [a \in DOMAIN mem |-> IF a \in w .. w + 3 THEN word[a - w] ELSE mem[a]]

\* Unaligned head and tail by read-modify-write, whole words in between.
WriteBytes(mem, address, data) ==
    LET words == {WordOf(a) : a \in Span(address, data)}
    IN  [a \in DOMAIN mem |->
            IF WordOf(a) \in words THEN PatchWord(mem, WordOf(a), address, data)[a] ELSE mem[a]]

ReadBytes(mem, address, n) == [i \in 1 .. n |-> mem[address + i - 1]]

\* Every word of the piece is there to be read and written.
Present(mem, piece) ==
    \A a \in Span(piece.address, piece.data) : WordOf(a) .. WordOf(a) + 3 \subseteq DOMAIN mem
=============================================================================
