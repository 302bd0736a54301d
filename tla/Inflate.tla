-------------------------------- MODULE Inflate --------------------------------
(***************************************************************************)
(* Decompressing a gzip member: src/gu_gzip.c.                             *)
(*                                                                         *)
(* Abstractions.  A byte has ByteBits bits, a length field is one byte,    *)
(* and the alphabets are as small as the constants say: literals below     *)
(* EndSymbol, lengths above it, code lengths up to MaxBits and behind them *)
(* the three run symbols.  The CRC32 is a smaller checksum.                *)
(***************************************************************************)
EXTENDS Integers, Sequences, SequencesExt, FiniteSetsExt

CONSTANTS
    GzMembers,   \* members to choose from, with what they should give
    ByteBits,    \* 8
    MaxBits,     \* MAXBITS
    EndSymbol,   \* 256
    MaxLitCodes, \* 286
    LBase, LExt, DBase, DExt,    \* lbase, lext, dbase, dext
    FixedLit, FixedDist,         \* the code lengths of fixed_tables
    ClOrder,     \* order
    ClBits,      \* 3
    ClLeast,     \* 4, and the bits of hlit, hdist and hclen
    HlitBits, HdistBits, HclenBits,
    Runs         \* base and extra bits of the symbols 16, 17 and 18

ASSUME InflateSizes == {ByteBits, MaxBits, EndSymbol} \subseteq Nat \ {0}

VARIABLES gz, inflated
gzVars == <<gz, inflated>>

NotInflated == [done |-> FALSE, ok |-> FALSE, out |-> << >>]
InflateInit == gz \in GzMembers /\ inflated = NotInflated

------------------------------------------------------------------------------
(* Bits                                                                      *)

\* getbits: least significant bit first, from bytes that are read as needed.
BitsOf(bytes) ==
    [i \in 1 .. Len(bytes) * ByteBits |->
        (bytes[(i - 1) \div ByteBits + 1] \div 2 ^ ((i - 1) % ByteBits)) % 2]
Weigh(bits) == FoldLeft(LAMBDA v, i : v + bits[i] * 2 ^ (i - 1), 0, [i \in DOMAIN bits |-> i])
Got(ok, v, br) == [ok |-> ok, v |-> v, br |-> br]
GetBits(br, need) ==
    IF br.pos + need > Len(br.bits) THEN Got(FALSE, 0, br)
    ELSE Got(TRUE, Weigh(SubSeq(br.bits, br.pos + 1, br.pos + need)), [br EXCEPT !.pos = @ + need])

\* getbits several times over, until one of them fails
Take(got, g) == IF got.ok /\ g.ok THEN Got(TRUE, Append(got.v, g.v), g.br) ELSE Got(FALSE, got.v, got.br)
GetAll(br, widths) == FoldLeft(LAMBDA got, w : Take(got, GetBits(got.br, w)), Got(TRUE, << >>, br), widths)

\* byte_align: the rest of the byte that was begun is dropped.
ByteAlign(br) == [br EXCEPT !.pos = ((@ + ByteBits - 1) \div ByteBits) * ByteBits]

------------------------------------------------------------------------------
(* Huffman codes                                                             *)

\* Mutant: symbols of one length are taken in order of appearance in reverse.
SymbolsReversed(lens) ==
    LET used == SelectSeq([i \in DOMAIN lens |-> i], LAMBDA i : lens[i] # 0)
    IN  SortSeq(used, LAMBDA a, b : lens[a] < lens[b] \/ (lens[a] = lens[b] /\ a > b))

\* huff_build: how many codes of each length, and the symbols by length and value;
\* left is the room that the code leaves.
SymbolOrder(lens) ==
    LET used == SelectSeq([i \in DOMAIN lens |-> i], LAMBDA i : lens[i] # 0)
    IN  SortSeq(used, LAMBDA a, b : lens[a] < lens[b] \/ (lens[a] = lens[b] /\ a < b))
Count(lens, n) == Cardinality({i \in DOMAIN lens : lens[i] = n})
RECURSIVE LeftAfter(_, _)
LeftAfter(lens, n) == IF n = 0 THEN 1 ELSE 2 * LeftAfter(lens, n - 1) - Count(lens, n)
HuffBuild(lens) ==
    [ok |-> \/ \A i \in DOMAIN lens : lens[i] = 0
            \/ \A n \in 1 .. MaxBits : LeftAfter(lens, n) >= 0,
     count |-> [n \in 1 .. MaxBits |-> Count(lens, n)],
     symbol |-> SymbolOrder(lens)]

\* huff_decode: bit by bit, code in v; first and index belong to the codes of this length.
NextBit(b) == [GetBits(b.br, 1) EXCEPT !.v = @ + 2 * b.v]
RECURSIVE DecodeFrom(_, _, _, _, _)
DecodeFrom(b, h, n, first, index) ==
    CASE n > MaxBits \/ ~b.ok -> [b EXCEPT !.ok = FALSE]
      [] n <= MaxBits /\ b.ok /\ b.v >= first /\ b.v - first < h.count[n] ->
            [b EXCEPT !.v = h.symbol[index + @ - first + 1] - 1]
      [] OTHER -> DecodeFrom(NextBit(b), h, n + 1, 2 * (first + h.count[n]), index + h.count[n])
HuffDecode(br, h) == DecodeFrom(GetBits(br, 1), h, 1, 0, 0)

------------------------------------------------------------------------------
(* Tables                                                                    *)

\* The loop of dynamic_tables: lengths, and runs of the last length or of zeros.
RECURSIVE ReadLens(_, _, _, _)
RECURSIVE AddLens(_, _, _, _)
RECURSIVE AddRun(_, _, _, _, _)
ReadLens(br, ch, total, lens) ==
    IF Len(lens) >= total THEN Got(TRUE, lens, br) ELSE AddLens(HuffDecode(br, ch), ch, total, lens)
AddLens(s, ch, total, lens) ==
    CASE ~s.ok -> s
      [] s.ok /\ s.v <= MaxBits -> ReadLens(s.br, ch, total, Append(lens, s.v))
      [] OTHER -> AddRun(GetBits(s.br, Runs[s.v - MaxBits].bits), s.v - MaxBits, ch, total, lens)
AddRun(extra, k, ch, total, lens) ==
    IF ~extra.ok \/ (k = 1 /\ lens = << >>) \/ Len(lens) + Runs[k].base + extra.v > total
    THEN [extra EXCEPT !.ok = FALSE]
    ELSE ReadLens(extra.br, ch, total,
                  lens \o [i \in 1 .. Runs[k].base + extra.v |-> IF k = 1 THEN Last(lens) ELSE 0])

NoTables == [ok |-> FALSE]
FromCodes(lens, litlen, dist) ==
    IF lens.v[EndSymbol + 1] = 0 \/ ~litlen.ok \/ ~dist.ok THEN NoTables
    ELSE [ok |-> TRUE, br |-> lens.br, litlen |-> litlen, dist |-> dist]
FromLens(lens, nlit) ==
    IF ~lens.ok THEN NoTables
    ELSE FromCodes(lens, HuffBuild(SubSeq(lens.v, 1, nlit)), HuffBuild(SubSeq(lens.v, nlit + 1, Len(lens.v))))
FromClens(br, ch, nlit, ndist) ==
    IF ~ch.ok THEN NoTables ELSE FromLens(ReadLens(br, ch, nlit + ndist, << >>), nlit)

\* the lengths of the code for lengths come in an order of their own
Permuted(v) ==
    [i \in DOMAIN ClOrder |->
        FoldLeft(LAMBDA l, k : IF ClOrder[k] = i - 1 THEN v[k] ELSE l, 0, [k \in DOMAIN v |-> k])]
FromCounts(n) ==
    IF ~n.ok \/ n.v[1] + EndSymbol + 1 > MaxLitCodes THEN NoTables
    ELSE LET clens == GetAll(n.br, [i \in 1 .. n.v[3] + ClLeast |-> ClBits])
         IN  IF ~clens.ok THEN NoTables
             ELSE FromClens(clens.br, HuffBuild(Permuted(clens.v)), n.v[1] + EndSymbol + 1, n.v[2] + 1)
DynamicTables(br) == FromCounts(GetAll(br, <<HlitBits, HdistBits, HclenBits>>))

------------------------------------------------------------------------------
(* Blocks                                                                    *)

\* The copy of inflate_codes: what it has just written can be copied again.
RECURSIVE CopyFrom(_, _, _)
CopyFrom(out, distance, n) ==
    IF n = 0 THEN out ELSE CopyFrom(Append(out, out[Len(out) - distance + 1]), distance, n - 1)

\* inflate_codes
Block1(ok, br, out) == [ok |-> ok, br |-> br, out |-> out]
BadBlock == Block1(FALSE, 0, << >>)
RECURSIVE InflateCodes(_, _, _, _)
RECURSIVE InflateSymbol(_, _, _, _)
RECURSIVE InflateLength(_, _, _, _, _)
RECURSIVE InflateDistance(_, _, _, _, _)
RECURSIVE InflateCopy(_, _, _, _, _, _)
InflateCodes(br, t, out, cap) == InflateSymbol(HuffDecode(br, t.litlen), t, out, cap)
InflateSymbol(s, t, out, cap) ==
    CASE ~s.ok -> BadBlock
      [] s.ok /\ s.v < EndSymbol ->
            IF Len(out) >= cap THEN BadBlock ELSE InflateCodes(s.br, t, Append(out, s.v), cap)
      [] s.ok /\ s.v = EndSymbol -> Block1(TRUE, s.br, out)
      [] OTHER -> IF s.v - EndSymbol > Len(LBase) THEN BadBlock
                  ELSE InflateLength(GetBits(s.br, LExt[s.v - EndSymbol]), LBase[s.v - EndSymbol], t, out, cap)
InflateLength(extra, base, t, out, cap) ==
    IF ~extra.ok THEN BadBlock
    ELSE InflateDistance(HuffDecode(extra.br, t.dist), base + extra.v, t, out, cap)
InflateDistance(d, length, t, out, cap) ==
    IF ~d.ok \/ d.v >= Len(DBase) THEN BadBlock
    ELSE InflateCopy(GetBits(d.br, DExt[d.v + 1]), DBase[d.v + 1], length, t, out, cap)
InflateCopy(extra, base, length, t, out, cap) ==
    IF ~extra.ok \/ base + extra.v > Len(out) \/ length > cap - Len(out) THEN BadBlock
    ELSE InflateCodes(extra.br, t, CopyFrom(out, base + extra.v, length), cap)

\* A stored block: its length, the complement of that, and the bytes.
StoredBytes(h, out, cap) ==
    IF ~h.ok \/ h.v[1] + h.v[2] # 2 ^ ByteBits - 1 \/ h.v[1] > cap - Len(out) THEN BadBlock
    ELSE LET data == GetAll(h.br, [k \in 1 .. h.v[1] |-> ByteBits])
         IN  IF data.ok THEN Block1(TRUE, data.br, out \o data.v) ELSE BadBlock
StoredBlock(br, out, cap) == StoredBytes(GetAll(ByteAlign(br), <<ByteBits, ByteBits>>), out, cap)

\* inflate_raw: what follows the final block is not looked at.
FixedTables(br) == [ok |-> TRUE, br |-> br, litlen |-> HuffBuild(FixedLit), dist |-> HuffBuild(FixedDist)]
CodedBlock(t, out, cap) == IF t.ok THEN InflateCodes(t.br, t, out, cap) ELSE BadBlock
OneBlock(br, type, out, cap) ==
    CASE type = 0 -> StoredBlock(br, out, cap)
      [] type = 1 -> CodedBlock(FixedTables(br), out, cap)
      [] type = 2 -> CodedBlock(DynamicTables(br), out, cap)
      [] OTHER -> BadBlock
RECURSIVE InflateBlocks(_, _, _)
RECURSIVE AfterBlock(_, _, _)
InflateBlocks(br, out, cap) ==
    LET h == GetAll(br, <<1, 2>>)
    IN  IF h.ok THEN AfterBlock(OneBlock(h.br, h.v[2], out, cap), h.v[1], cap) ELSE BadBlock
AfterBlock(b, final, cap) == IF ~b.ok \/ final = 1 THEN b ELSE InflateBlocks(b.br, b.out, cap)

------------------------------------------------------------------------------
(* The member                                                                *)

Checksum(bytes) == FoldLeft(LAMBDA c, v : (3 * c + v + 1) % 97, 0, bytes)

\* The optional fields of the header, in their order; -1 is malformed.
SkipExtra(bytes, pos) ==
    IF pos + 1 > Len(bytes) \/ pos + 1 + bytes[pos + 1] > Len(bytes) THEN -1 ELSE pos + 1 + bytes[pos + 1]
SkipZstr(bytes, pos) ==
    LET ends == {i \in DOMAIN bytes : i > pos /\ bytes[i] = 0} IN IF ends = {} THEN -1 ELSE Min(ends)
SkipHcrc(bytes, pos) == IF pos + 1 > Len(bytes) THEN -1 ELSE pos + 1
SkipField(bytes, pos, flag) ==
    CASE pos = -1 -> -1
      [] pos # -1 /\ flag = "extra" -> SkipExtra(bytes, pos)
      [] pos # -1 /\ flag = "hcrc" -> SkipHcrc(bytes, pos)
      [] OTHER -> SkipZstr(bytes, pos)
PayloadStart(g) ==
    FoldLeft(LAMBDA pos, flag : IF flag \in g.flags THEN SkipField(g.bytes, pos, flag) ELSE pos,
             0, <<"extra", "name", "comment", "hcrc">>)

\* gu_gzip_decode_member
DecodePayload(g, start) ==
    InflateBlocks([bits |-> BitsOf(SubSeq(g.bytes, start + 1, Len(g.bytes))), pos |-> 0], << >>, g.isize)
Verified(r, g) == [r EXCEPT !.ok = @ /\ Len(r.out) = g.isize /\ Checksum(r.out) = g.crc]
DecodeMember(g) ==
    IF ~g.magic \/ "reserved" \in g.flags \/ PayloadStart(g) = -1 \/ g.isize = 0 THEN BadBlock
    ELSE Verified(DecodePayload(g, PayloadStart(g)), g)
DecodeGz ==
    /\ ~inflated.done
    /\ \E r \in {DecodeMember(gz)} : inflated' = [done |-> TRUE, ok |-> r.ok, out |-> r.out]
    /\ UNCHANGED gz
InflateNext == DecodeGz

------------------------------------------------------------------------------
(* Properties                                                                *)

\* A member that was made with any set of code lengths that is a prefix code is
\* inflated to its contents, through runs of lengths, copies that overlap, stored
\* blocks in between and all header fields; one with a wrong size, checksum or
\* length field, or cut short, gives nothing.
InflateExact ==
    inflated.done => /\ inflated.ok = gz.sound
                     /\ inflated.ok => inflated.out = gz.contents
==============================================================================
