----------------------------- MODULE MCXzStream -----------------------------
(***************************************************************************)
(* Members of one or two blocks made by a small encoder, with copies that  *)
(* go round the end of the dictionary; and each of them cut short or       *)
(* spoilt in one byte.                                                     *)
(***************************************************************************)
EXTENDS XzStream
Sym(k, v) == [k |-> k, v |-> v]
Num(v) == Sym("num", v)
Lit(v) == [k |-> "lit", v |-> v, n |-> 1]
Match(dist, len) == [k |-> "match", v |-> 9, dist |-> dist, len |-> len, n |-> 2]
Rep(which, len) == [k |-> "rep", v |-> 9, which |-> which, len |-> len, n |-> 1]
Short == [k |-> "short", v |-> 9, which |-> 0, n |-> 1]
RECURSIVE OpBytes(_)
OpBytes(ops) == IF ops = << >> THEN << >>
                ELSE <<Head(ops)>> \o [i \in 1 .. Head(ops).n - 1 |-> Sym("more", 0)] \o OpBytes(Tail(ops))
LzmaChunk(control, ops, size) ==
    LET body == OpBytes(ops)
        packed == RcInit + Len(body)
    IN  <<Num(control), Num(0), Num(size - 1), Num(0), Num(packed - 1)>>
        \o (IF control >= 192 THEN <<Num(0)>> ELSE << >>)
        \o [i \in 1 .. RcInit |-> Sym("more", 0)] \o body
PlainChunk(control, data) ==
    <<Num(control), Num(0), Num(Len(data) - 1)>> \o [i \in DOMAIN data |-> Num(data[i])]
Zeros(n) == [i \in 1 .. n |-> Num(0)]
Pad(n) == Zeros((Align - (n % Align)) % Align)
CrcDigits(crc, n) == [i \in 1 .. n |-> Sym("crc", CrcDigit(crc, i - 1))]
BlockOf(check, size, chunks, data, known) ==
    LET body == FoldLeft(LAMBDA a, c : a \o c, << >>, chunks) \o <<Num(0)>>
    IN  [bytes |-> <<Sym("size", 4), Num(IF known THEN Len(body) ELSE Unknown),
                     Num(IF known THEN Len(data) ELSE Unknown), Sym("lzma2", size)>>
                   \o body \o Pad(Len(body)) \o CrcDigits(FoldLeft(CrcAdd, 0, data), CheckLength(check)),
         unpadded |-> 4 + Len(body) + CheckLength(check), data |-> data]
RECURSIVE Vli(_)
Vli(v) == IF v < VliBase THEN <<Num(v)>> ELSE <<Num(VliBase + (v % VliBase))>> \o Vli(v \div VliBase)
StreamOf(check, blocks) ==
    LET records == FoldLeft(LAMBDA a, r : a \o Vli(r.unpadded) \o Vli(Len(r.data)), << >>, blocks)
        index == <<Num(0)>> \o Vli(Len(blocks)) \o records
        padded == index \o Pad(Len(index))
    IN  <<Sym("magic", 0), Num(check), Num(0)>>
        \o FoldLeft(LAMBDA a, r : a \o r.bytes, << >>, blocks)
        \o padded \o CrcDigits(FoldLeft(LAMBDA c, e : CrcAdd(c, e.v), 0, padded), CrcLength)
        \o <<Num(Len(padded) \div Align), Num(check), Sym("magic", 0)>>
Plaintext(blocks) == FoldLeft(LAMBDA a, r : a \o r.data, << >>, blocks)
Intact(check, blocks) ==
    [bytes |-> StreamOf(check, blocks), declared |-> Len(StreamOf(check, blocks)),
     contents |-> Plaintext(blocks), sound |-> TRUE]

\* abcab abab b c, with a dictionary of four: the copies go round its end.
Wraps == LzmaChunk(224, <<Lit(1), Lit(2), Lit(3), Match(2, 2), Match(1, 4), Short, Rep(1, 2)>>, 12)
WrapsData == <<1, 2, 3, 1, 2, 1, 2, 1, 2, 1, 1, 2>>
Blocks(check) == <<BlockOf(check, 4, <<Wraps, PlainChunk(2, <<4, 6>>)>>, WrapsData \o <<4, 6>>, TRUE),
                   BlockOf(check, 3, <<PlainChunk(1, <<7, 8, 9, 7>>), LzmaChunk(192, <<Match(1, 5)>>, 5)>>,
                           <<7, 8, 9, 7, 9, 7, 9, 7, 9>>, FALSE)>>
Base == {Intact(0, << >>)} \cup {Intact(c, Blocks(c)) : c \in {0, 1, 4}}
Cut(mm) == {[mm EXCEPT !.bytes = SubSeq(@, 1, n), !.declared = n + short, !.sound = FALSE] : short \in 0 .. 1, n \in 0 .. Len(mm.bytes) - 1}
Spoilt(mm) == {[mm EXCEPT !.bytes[i] = Sym("junk", 77), !.sound = FALSE] : i \in {j \in DOMAIN mm.bytes : mm.bytes[j].k # "more"}}
MCMembers == Base \cup UNION {Cut(Intact(c, Blocks(c))) \cup Spoilt(Intact(c, Blocks(c))) : c \in {1}}
             \cup {[mm EXCEPT !.declared = @ + 1, !.bytes = Append(@, Num(0))] : mm \in Base}
=============================================================================
