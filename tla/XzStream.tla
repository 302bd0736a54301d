------------------------------- MODULE XzStream -------------------------------
(***************************************************************************)
(* Decompressing an XZ member of a package or index: the loop of           *)
(* src/gu_xz.c around the stream decoder of lib/xz/xz_dec_stream.c and its *)
(* LZMA2 layer, lib/xz/xz_dec_lzma2.c.  Both keep their place in the       *)
(* middle of anything when a buffer runs out.                              *)
(*                                                                         *)
(* Abstractions.                                                           *)
(*  - A byte is a record: what it stands for, and its value.  Headers have *)
(*    HeaderSize bytes, the checks CrcLength digits of base 16, integers   *)
(*    digits of VliBase.  A header whose CRC32 is wrong has a byte "junk". *)
(*  - The range coder and its probabilities are left out: a compressed     *)
(*    chunk is a sequence of instructions (a literal, a match, one of the  *)
(*    last four distances again) of one or more bytes each.                *)
(*  - The decoder is built without BCJ filters, SHA-256 and other checks,  *)
(*    as the Makefile does, and is used in its multi-call mode.            *)
(***************************************************************************)
EXTENDS Integers, Sequences, SequencesExt, FiniteSetsExt

CONSTANTS
    Members,     \* members to choose from: bytes, declared length, contents
    InSizes,     \* sizes of inbuf
    OutSizes,    \* sizes of outbuf
    HeaderSize,  \* STREAM_HEADER_SIZE
    CrcLength,   \* bytes of a CRC32
    VliBase,     \* 128
    VliMax,      \* VLI_BYTES_MAX
    Align,       \* 4
    InRequired,  \* LZMA_IN_REQUIRED
    RcInit,      \* RC_INIT_BYTES
    DictMax,     \* dict_max of xz_dec_init
    Unknown      \* VLI_UNKNOWN, greater than any size

ASSUME XzSizes == {HeaderSize, CrcLength, VliBase, VliMax, Align, InRequired, RcInit, DictMax, Unknown} \subseteq Nat

VARIABLES
    member,   \* the member that is decoded
    bufs,     \* sizes of its buffers
    feed,     \* b.in, b.in_pos, what was read of the member, eof_input
    dec,      \* struct xz_dec
    sink,     \* what was written to the temporary file
    ended,    \* "no", "done" or "failed"
    stalls    \* calls in a row that neither took nor gave a byte
xzVars == <<member, bufs, feed, dec, sink, ended, stalls>>

MinOf(a, b) == IF a < b THEN a ELSE b

\* The CRC32 or CRC64 of a sequence, one value at a time.
CrcAdd(crc, v) == (5 * crc + v + 1) % 251
CrcDigit(crc, pos) == (crc \div 16 ^ pos) % 16

------------------------------------------------------------------------------
(* The dictionary                                                            *)

EmptyDict(size) == [buf |-> [i \in 0 .. size - 1 |-> 0], size |-> size,
                    start |-> 0, pos |-> 0, limit |-> 0, full |-> 0]

\* dict_reset
DictReset(t) == [t EXCEPT !.start = 0, !.pos = 0, !.limit = 0, !.full = 0]

\* dict_limit and dict_has_space
DictLimit(t, max) == [t EXCEPT !.limit = IF t.size - t.pos <= max THEN t.size ELSE t.pos + max]
HasSpace(t) == t.pos < t.limit

\* dict_put
DictPut(t, v) == [t EXCEPT !.buf[t.pos] = v, !.pos = @ + 1,
                           !.full = IF @ < t.pos + 1 THEN t.pos + 1 ELSE @]

\* Mutant: what lies behind the end of the buffer is read from its last byte.
BackNoWrap(t, dist) == IF dist >= t.pos THEN t.size - 1 ELSE t.pos - dist - 1

\* Where a distance leads to, round the end of the buffer.
Back(t, dist) == IF dist >= t.pos THEN t.pos - dist - 1 + t.size ELSE t.pos - dist - 1

\* dict_repeat: as much as there is space for; len is what is left.
RECURSIVE CopyBack(_, _, _)
CopyBack(t, dist, n) == IF n = 0 THEN t ELSE CopyBack(DictPut(t, t.buf[Back(t, dist)]), dist, n - 1)
DictRepeat(t, len, dist) ==
    LET n == MinOf(t.limit - t.pos, len)
    IN  IF dist >= t.full \/ dist >= t.size THEN [ok |-> FALSE, t |-> t, len |-> len]
        ELSE [ok |-> TRUE, t |-> CopyBack(t, dist, n), len |-> len - n]

\* dict_flush
DictFlush(t) ==
    LET pos == IF t.pos = t.size THEN 0 ELSE t.pos
    IN  [t |-> [t EXCEPT !.pos = pos, !.start = pos],
         data |-> [i \in 1 .. t.pos - t.start |-> t.buf[t.start + i - 1]]]

------------------------------------------------------------------------------
(* LZMA chunks                                                               *)

\* lzma_match and lzma_rep_match: the last four distances.
Reps(l, op) ==
    CASE op.k = "match" -> <<op.dist, l.reps[1], l.reps[2], l.reps[3]>>
      [] op.k = "short" -> l.reps
      [] OTHER -> <<l.reps[op.which + 1]>> \o RemoveAt(l.reps, op.which + 1)
LenOf(op) == IF op.k = "short" THEN 1 ELSE op.len

\* lzma_main on the bytes of rc, up to its limit.
IsInstruction(rc) ==
    rc.pos < Len(rc.in) /\ rc.in[rc.pos + 1].k \in {"lit", "match", "rep", "short"}
RECURSIVE LzmaLoop(_, _)
LzmaLoop(l, rc) ==
    IF ~HasSpace(l.dict) \/ rc.pos > rc.limit THEN [ok |-> TRUE, l |-> l, pos |-> rc.pos]
    ELSE IF ~IsInstruction(rc) THEN [ok |-> FALSE, l |-> l, pos |-> rc.pos]
    ELSE LET op == rc.in[rc.pos + 1]
             next == [rc EXCEPT !.pos = @ + op.n]
             reps == Reps(l, op)
             r == DictRepeat(l.dict, LenOf(op), reps[1])
         IN  IF op.k = "lit" THEN LzmaLoop([l EXCEPT !.dict = DictPut(@, op.v)], next)
             ELSE IF ~r.ok THEN [ok |-> FALSE, l |-> l, pos |-> rc.pos]
             ELSE LzmaLoop([l EXCEPT !.dict = r.t, !.len = r.len, !.reps = reps], next)
LzmaMain(l, rc) ==
    LET r == DictRepeat(l.dict, l.len, l.reps[1])
    IN  IF HasSpace(l.dict) /\ l.len > 0 THEN LzmaLoop([l EXCEPT !.dict = r.t, !.len = r.len], rc)
        ELSE LzmaLoop(l, rc)

\* lzma2_lzma: bytes that are too few to decode from wait in temp.
Avail(b) == Len(b.in) - b.pos
LzOut(ok, l, b) == [ok |-> ok, l |-> l, b |-> b]

\* Its end: what is too little goes to temp.
KeepRest(l, b) ==
    LET n == MinOf(Avail(b), l.compressed)
    IN  IF Avail(b) >= InRequired THEN LzOut(TRUE, l, b)
        ELSE LzOut(TRUE, [l EXCEPT !.temp = SubSeq(b.in, b.pos + 1, b.pos + n)],
                   [b EXCEPT !.pos = @ + n])

\* Its middle: decode from the caller's buffer.
AfterInput(r, l, b) ==
    IF ~r.ok \/ r.pos - b.pos > l.compressed THEN LzOut(FALSE, l, b)
    ELSE KeepRest([r.l EXCEPT !.compressed = @ - (r.pos - b.pos)], [b EXCEPT !.pos = r.pos])
FromInput(l, b) ==
    IF Avail(b) < InRequired THEN KeepRest(l, b)
    ELSE AfterInput(LzmaMain(l, [in |-> b.in, pos |-> b.pos,
                                 limit |-> IF Avail(b) >= l.compressed + InRequired
                                           THEN b.pos + l.compressed ELSE Len(b.in) - InRequired]), l, b)

\* Its begin: decode from temp, with as much of the input as fits behind it.
AfterTemp(r, l, b, more) ==
    LET held == Len(l.temp)
        left == [r.l EXCEPT !.compressed = @ - r.pos]
    IN  CASE ~r.ok \/ r.pos > held + more -> LzOut(FALSE, l, b)
          [] r.ok /\ r.pos < held ->
                LzOut(TRUE, [left EXCEPT !.temp = SubSeq(l.temp, r.pos + 1, held)], b)
          [] OTHER -> FromInput([left EXCEPT !.temp = << >>], [b EXCEPT !.pos = @ + r.pos - held])
FromTemp(l, b, more) ==
    LET buf == l.temp \o SubSeq(b.in, b.pos + 1, b.pos + more)
        whole == Len(buf) = l.compressed
    IN  IF ~whole /\ Len(buf) < InRequired
        THEN LzOut(TRUE, [l EXCEPT !.temp = buf], [b EXCEPT !.pos = @ + more])
        ELSE AfterTemp(LzmaMain(l, [in |-> buf, pos |-> 0,
                                    limit |-> IF whole THEN Len(buf) ELSE Len(buf) - InRequired]),
                       l, b, more)
Lzma2Lzma(l, b) ==
    IF l.temp = << >> /\ l.compressed # 0 THEN FromInput(l, b)
    ELSE FromTemp(l, b, Min({2 * InRequired - Len(l.temp), l.compressed - Len(l.temp), Avail(b)}))

------------------------------------------------------------------------------
(* The LZMA2 layer                                                           *)

\* lzma_reset
LzmaReset(l) == [l EXCEPT !.reps = <<0, 0, 0, 0>>, !.len = 0, !.initLeft = RcInit]

\* lzma_props: at most 224, and lc + lp at most 4.
PropsValid(p) == p <= 224 /\ (p % 9) + ((p \div 9) % 5) <= 4

\* xz_dec_lzma2_reset; reps and the range decoder stay as they were.
NewLzma2(size) == [seq |-> "CONTROL", next |-> "COPY", uncompressed |-> 0, compressed |-> 0,
                   needProps |-> TRUE, needDict |-> TRUE, dict |-> EmptyDict(size),
                   reps |-> <<0, 0, 0, 0>>, len |-> 0, initLeft |-> RcInit, temp |-> << >>]
Lzma2Reset(l, size) ==
    [l EXCEPT !.seq = "CONTROL", !.needDict = TRUE, !.temp = << >>,
              !.dict = IF Cardinality(DOMAIN l.dict.buf) < size THEN EmptyDict(size)
                       ELSE [l.dict EXCEPT !.size = size]]

Lz(l, b, ret) == [l |-> l, b |-> b, ret |-> ret]
Byte(b) == b.in[b.pos + 1]
Eat(b) == [b EXCEPT !.pos = @ + 1]
Room(b) == b.size - Len(b.out)

\* SEQ_CONTROL of xz_dec_lzma2_run
ControlByte(l, b) ==
    LET c == Byte(b).v
        resets == c >= 224 \/ c = 1
        l1 == IF resets THEN [l EXCEPT !.needProps = TRUE, !.needDict = FALSE, !.dict = DictReset(@)]
              ELSE l
        big == [l1 EXCEPT !.uncompressed = (c % 32) * 65536, !.seq = "UNCOMPRESSED_1"]
    IN  CASE c = 0 -> Lz(l, Eat(b), "end")
          [] c # 0 /\ (\/ ~resets /\ l.needDict
                       \/ c >= 128 /\ c < 192 /\ l1.needProps
                       \/ c > 2 /\ c < 128) -> Lz(l, Eat(b), "data error")
          [] c >= 192 -> Lz([big EXCEPT !.needProps = FALSE, !.next = "PROPERTIES"], Eat(b), "go")
          [] c >= 128 /\ c < 192 /\ ~l1.needProps ->
                Lz(IF c >= 160 THEN LzmaReset([big EXCEPT !.next = "PREPARE"])
                   ELSE [big EXCEPT !.next = "PREPARE"], Eat(b), "go")
          [] OTHER -> Lz([l1 EXCEPT !.seq = "COMPRESSED_0", !.next = "COPY"], Eat(b), "go")

\* The bytes of the sizes.
SizeByte(l, b) ==
    LET v == Byte(b).v
    IN  Lz(CASE l.seq = "UNCOMPRESSED_1" -> [l EXCEPT !.uncompressed = @ + v * 256, !.seq = "UNCOMPRESSED_2"]
             [] l.seq = "UNCOMPRESSED_2" -> [l EXCEPT !.uncompressed = @ + v + 1, !.seq = "COMPRESSED_0"]
             [] l.seq = "COMPRESSED_0" -> [l EXCEPT !.compressed = v * 256, !.seq = "COMPRESSED_1"]
             [] OTHER -> [l EXCEPT !.compressed = @ + v + 1, !.seq = l.next], Eat(b), "go")

\* SEQ_LZMA_PREPARE, with rc_read_init
Prepare(l, b) ==
    LET n == MinOf(l.initLeft, Avail(b))
        l1 == [l EXCEPT !.initLeft = @ - n]
        b1 == [b EXCEPT !.pos = @ + n]
    IN  CASE l.compressed < RcInit -> Lz(l, b, "data error")
          [] l.compressed >= RcInit /\ l1.initLeft > 0 -> Lz(l1, b1, "ok")
          [] OTHER -> Lz([l1 EXCEPT !.compressed = @ - RcInit, !.seq = "RUN"], b1, "go")

\* SEQ_LZMA_RUN
ChunkEnd(l, b) ==
    IF l.uncompressed = 0
    THEN IF l.compressed > 0 \/ l.len > 0 THEN Lz(l, b, "data error")
         ELSE Lz([l EXCEPT !.seq = "CONTROL", !.initLeft = RcInit], b, "go")
    ELSE Lz(l, b, IF Room(b) = 0 \/ (Avail(b) = 0 /\ Len(l.temp) < l.compressed) THEN "ok" ELSE "go")
Flushed(r, f) ==
    ChunkEnd([r.l EXCEPT !.dict = f.t, !.uncompressed = @ - Len(f.data)], [r.b EXCEPT !.out = @ \o f.data])
AfterChunk(r) == IF r.ok THEN Flushed(r, DictFlush(r.l.dict)) ELSE Lz(r.l, r.b, "data error")
RunChunk(l, b) ==
    AfterChunk(Lzma2Lzma([l EXCEPT !.dict = DictLimit(@, MinOf(Room(b), l.uncompressed))], b))

\* SEQ_COPY, with dict_uncompressed: one byte at a time.
CopyByte(l, b) ==
    LET f == DictFlush(DictPut(l.dict, Byte(b).v))
        l1 == [l EXCEPT !.dict = f.t, !.compressed = @ - 1]
    IN  IF Room(b) = 0 THEN Lz(l, b, "ok")
        ELSE Lz(IF l1.compressed = 0 THEN [l1 EXCEPT !.seq = "CONTROL"] ELSE l1,
                [Eat(b) EXCEPT !.out = Append(@, Byte(b).v)], "go")

\* xz_dec_lzma2_run
Lzma2Step(l, b) ==
    CASE l.seq = "CONTROL" -> ControlByte(l, b)
      [] l.seq = "PROPERTIES" ->
            IF PropsValid(Byte(b).v) THEN Prepare(LzmaReset([l EXCEPT !.seq = "PREPARE"]), Eat(b))
            ELSE Lz(l, b, "data error")
      [] l.seq = "PREPARE" -> Prepare(l, b)
      [] l.seq = "RUN" -> RunChunk(l, b)
      [] l.seq = "COPY" -> CopyByte(l, b)
      [] OTHER -> SizeByte(l, b)
RECURSIVE Lzma2Run(_, _)
RECURSIVE Lzma2Next(_)
Lzma2Run(l, b) ==
    IF Avail(b) = 0 /\ l.seq # "RUN" THEN Lz(l, b, "ok") ELSE Lzma2Next(Lzma2Step(l, b))
Lzma2Next(r) == IF r.ret = "go" THEN Lzma2Run(r.l, r.b) ELSE r

------------------------------------------------------------------------------
(* The stream                                                                *)

Hash0 == [unpadded |-> 0, uncompressed |-> 0, crc |-> 0]
HashAdd(h, unpadded, uncompressed) ==
    [unpadded |-> h.unpadded + unpadded, uncompressed |-> h.uncompressed + uncompressed,
     crc |-> CrcAdd(CrcAdd(h.crc, h.unpadded + unpadded), h.uncompressed + uncompressed)]

\* xz_dec_reset
NewDecoder ==
    [seq |-> "STREAM_HEADER", allow |-> FALSE, pos |-> 0, vli |-> 0, crc |-> 0, check |-> 0,
     start |-> 0, temp |-> << >>, size |-> HeaderSize,
     header |-> [compressed |-> Unknown, uncompressed |-> Unknown, size |-> 0],
     block |-> [compressed |-> 0, uncompressed |-> 0, count |-> 0, hash |-> Hash0],
     index |-> [seq |-> "COUNT", size |-> 0, count |-> 0, hash |-> Hash0],
     lz |-> NewLzma2(1)]

St(d, b, ret) == [d |-> d, b |-> b, ret |-> ret]

\* fill_temp; temp.pos is the length of temp.
Fill(d, b) ==
    LET n == MinOf(Avail(b), d.size - Len(d.temp))
    IN  St([d EXCEPT !.temp = @ \o SubSeq(b.in, b.pos + 1, b.pos + n)], [b EXCEPT !.pos = @ + n],
           IF Len(d.temp) + n = d.size THEN "go" ELSE "ok")

\* dec_vli
RECURSIVE DecVli(_, _)
DecVli(d, b) ==
    LET v == Byte(b).v
        d0 == IF d.pos = 0 THEN [d EXCEPT !.vli = 0] ELSE d
        d1 == [d0 EXCEPT !.vli = @ + (v % VliBase) * VliBase ^ d.pos]
    IN  CASE Avail(b) = 0 -> St(d0, b, "ok")
          [] Avail(b) > 0 /\ v < VliBase ->
                IF v = 0 /\ d.pos # 0 THEN St(d, Eat(b), "data error")
                ELSE St([d1 EXCEPT !.pos = 0], Eat(b), "go")
          [] OTHER -> IF d.pos + 1 = VliMax THEN St(d, Eat(b), "data error")
                      ELSE DecVli([d1 EXCEPT !.pos = @ + 1], Eat(b))

\* dec_stream_header
StreamHeader(d, b) ==
    LET f == Fill(d, b)
        t == f.d.temp
        d1 == [f.d EXCEPT !.seq = "BLOCK_START", !.check = t[2].v, !.temp = << >>]
    IN  CASE f.ret = "ok" -> f
          [] f.ret = "go" /\ t[1].k # "magic" -> St(d1, f.b, "format error")
          [] f.ret = "go" /\ t[1].k = "magic" /\ \E i \in DOMAIN t : t[i].k = "junk" ->
                St(d1, f.b, "data error")
          [] OTHER -> St(d1, f.b, IF t[2].v \in {0, 1, 4} THEN "go" ELSE "options error")

\* SEQ_BLOCK_START
BlockStart(d, b) ==
    CASE Avail(b) = 0 -> St(d, b, "ok")
      [] Avail(b) > 0 /\ Byte(b).v = 0 ->
            St([d EXCEPT !.start = b.pos, !.seq = "INDEX"], Eat(b), "go")
      [] OTHER -> St([d EXCEPT !.header.size = Byte(b).v, !.size = Byte(b).v, !.temp = << >>,
                               !.seq = "BLOCK_HEADER"], b, "go")

\* dec_block_header: sizes, the one filter, and its dictionary size.
BlockHeader(d, b) ==
    LET f == Fill(d, b)
        t == f.d.temp
        lz == Lzma2Reset(d.lz, t[4].v)
    IN  CASE f.ret = "ok" -> f
          [] f.ret = "go" /\ (Len(t) # 4 \/ \E i \in DOMAIN t : t[i].k = "junk") ->
                St(f.d, f.b, "data error")
          [] f.ret = "go" /\ Len(t) = 4 /\ t[4].k # "lzma2" -> St(f.d, f.b, "options error")
          [] f.ret = "go" /\ Len(t) = 4 /\ t[4].k = "lzma2" /\ t[4].v > DictMax ->
                St(f.d, f.b, "memory limit")
          [] OTHER -> St([f.d EXCEPT !.header.compressed = t[2].v, !.header.uncompressed = t[3].v,
                                     !.block.compressed = 0, !.block.uncompressed = 0,
                                     !.temp = << >>, !.lz = lz, !.seq = "BLOCK_UNCOMPRESS"],
                         f.b, "go")

CheckLength(check) == CASE check = 0 -> 0 [] check = 1 -> CrcLength [] OTHER -> 2 * CrcLength

\* dec_block
Block(d, b) ==
    LET r == Lzma2Run(d.lz, b)
        data == SubSeq(r.b.out, Len(b.out) + 1, Len(r.b.out))
        d1 == [d EXCEPT !.lz = r.l, !.start = b.pos,
                        !.block.compressed = @ + r.b.pos - b.pos,
                        !.block.uncompressed = @ + Len(data),
                        !.crc = IF d.check = 0 THEN @ ELSE FoldLeft(CrcAdd, @, data)]
        over == \/ d1.block.compressed > d.header.compressed
                \/ d1.block.uncompressed > d.header.uncompressed
        short == \/ d.header.compressed \notin {Unknown, d1.block.compressed}
                 \/ d.header.uncompressed \notin {Unknown, d1.block.uncompressed}
    IN  CASE over -> St(d1, r.b, "data error")
          [] ~over /\ r.ret # "end" -> St(d1, r.b, r.ret)
          [] ~over /\ r.ret = "end" /\ short -> St(d1, r.b, "data error")
          [] OTHER -> St([d1 EXCEPT !.block.count = @ + 1, !.seq = "BLOCK_PADDING",
                            !.block.hash = HashAdd(@, d.header.size + d1.block.compressed + CheckLength(d.check),
                                                   d1.block.uncompressed)],
                         r.b, "go")

\* SEQ_BLOCK_PADDING
BlockPadding(d, b) ==
    CASE d.block.compressed % Align = 0 -> St([d EXCEPT !.seq = "BLOCK_CHECK"], b, "go")
      [] d.block.compressed % Align # 0 /\ Avail(b) = 0 -> St(d, b, "ok")
      [] OTHER -> St([d EXCEPT !.block.compressed = @ + 1], Eat(b),
                     IF Byte(b).v = 0 THEN "go" ELSE "data error")

\* crc_validate, for n digits, and then on to the next part.
CrcValidate(d, b, n, next) ==
    CASE d.pos = n -> St([d EXCEPT !.crc = 0, !.pos = 0, !.seq = next], b, "go")
      [] d.pos # n /\ Avail(b) = 0 -> St(d, b, "ok")
      [] OTHER -> St([d EXCEPT !.pos = @ + 1], Eat(b),
                     IF Byte(b).k = "crc" /\ Byte(b).v = CrcDigit(d.crc, d.pos) THEN "go" ELSE "data error")
BlockCheck(d, b) ==
    IF d.check = 0 THEN St([d EXCEPT !.seq = "BLOCK_START"], b, "go")
    ELSE CrcValidate(d, b, CheckLength(d.check), "BLOCK_START")

\* index_update: what this call has taken of the index.
IndexUpdate(d, b) ==
    [d EXCEPT !.index.size = @ + b.pos - d.start,
              !.crc = FoldLeft(LAMBDA c, e : CrcAdd(c, e.v), @, SubSeq(b.in, d.start + 1, b.pos))]

\* dec_index: one integer.
IndexRecord(d, b) ==
    LET r == DecVli(d, b)
        v == r.d.vli
        done == [r.d EXCEPT !.seq = "INDEX_PADDING"]
    IN  CASE r.ret = "ok" -> St(IndexUpdate(r.d, r.b), r.b, "ok")
          [] r.ret = "data error" -> r
          [] r.ret = "go" /\ d.index.seq = "COUNT" ->
                IF v # d.block.count THEN St(r.d, r.b, "data error")
                ELSE St([(IF v = 0 THEN done ELSE r.d) EXCEPT !.index.count = v, !.index.seq = "UNPADDED"],
                        r.b, "go")
          [] r.ret = "go" /\ d.index.seq = "UNPADDED" ->
                St([r.d EXCEPT !.index.hash.unpadded = @ + v, !.index.seq = "UNCOMPRESSED"], r.b, "go")
          [] OTHER -> St([(IF d.index.count = 1 THEN done ELSE r.d) EXCEPT
                             !.index.hash = HashAdd(@, 0, v),
                             !.index.count = @ - 1, !.index.seq = "UNPADDED"], r.b, "go")

\* SEQ_INDEX_PADDING
IndexPadding(d, b) ==
    LET d1 == IndexUpdate(d, b)
    IN  CASE (d.index.size + b.pos - d.start) % Align # 0 ->
                IF Avail(b) = 0 THEN St(d1, b, "ok")
                ELSE St(d, Eat(b), IF Byte(b).v = 0 THEN "go" ELSE "data error")
          [] OTHER -> St([d1 EXCEPT !.seq = "INDEX_CRC32"], b,
                         IF d.block.hash = d.index.hash THEN "go" ELSE "data error")

\* dec_stream_footer
StreamFooter(d, b) ==
    LET f == Fill([d EXCEPT !.size = HeaderSize], b)
        t == f.d.temp
        good == /\ t[HeaderSize].k = "magic"
                /\ \A i \in DOMAIN t : t[i].k # "junk"
                /\ d.index.size \div Align = t[1].v
                /\ t[2].v = d.check
    IN  IF f.ret = "ok" THEN f ELSE St(f.d, f.b, IF good THEN "end" ELSE "data error")

\* dec_main: one part after the other, until the input or the room for output ends.
StreamStep(d, b) ==
    CASE d.seq = "STREAM_HEADER" -> StreamHeader(d, b)
      [] d.seq = "BLOCK_START" -> BlockStart(d, b)
      [] d.seq = "BLOCK_HEADER" -> BlockHeader(d, b)
      [] d.seq = "BLOCK_UNCOMPRESS" -> Block(d, b)
      [] d.seq = "BLOCK_PADDING" -> BlockPadding(d, b)
      [] d.seq = "BLOCK_CHECK" -> BlockCheck(d, b)
      [] d.seq = "INDEX" -> IndexRecord(d, b)
      [] d.seq = "INDEX_PADDING" -> IndexPadding(d, b)
      [] d.seq = "INDEX_CRC32" -> CrcValidate(d, b, CrcLength, "STREAM_FOOTER")
      [] OTHER -> StreamFooter(d, b)
RECURSIVE DecLoop(_, _)
RECURSIVE DecNext(_)
DecLoop(d, b) == DecNext(StreamStep(d, b))
DecNext(r) == IF r.ret = "go" THEN DecLoop(r.d, r.b) ELSE r
DecMain(d, b) == DecLoop([d EXCEPT !.start = b.pos], b)

\* xz_dec_run: the second call in a row without progress is an error.
Progress(r, d, b) ==
    LET still == r.ret = "ok" /\ r.b.pos = b.pos /\ r.b.out = b.out
    IN  St([r.d EXCEPT !.allow = still], r.b, IF still /\ d.allow THEN "buffer error" ELSE r.ret)
XzDecRun(d, b) == Progress(DecMain(d, b), d, b)

------------------------------------------------------------------------------
(* gu_xz_decode_member                                                       *)

MemberGiven == member \in Members /\ bufs \in [in : InSizes, out : OutSizes]
XzStart ==
    /\ feed = [in |-> << >>, pos |-> 0, read |-> 0, eof |-> FALSE]
    /\ dec = NewDecoder
    /\ sink = << >>
    /\ ended = "no"
    /\ stalls = 0

\* The refill at the head of the loop.
NeedsInput == feed.pos = Len(feed.in) /\ ~feed.eof
Want == MinOf(member.declared - feed.read, bufs.in)
Refilled ==
    IF ~NeedsInput THEN feed
    ELSE [in |-> SubSeq(member.bytes, feed.read + 1, feed.read + Want), pos |-> 0,
          read |-> feed.read + Want, eof |-> feed.read + Want = member.declared]

\* One turn of the loop.  What follows the stream in the member is not looked at.
Turn(f, r) ==
    /\ feed' = [f EXCEPT !.pos = r.b.pos]
    /\ dec' = r.d
    /\ sink' = sink \o r.b.out
    /\ ended' = CASE r.ret = "end" -> "done"
                  [] r.ret = "ok" ->
                        IF f.eof /\ r.b.pos = Len(f.in) /\ r.b.out = << >> THEN "failed" ELSE "no"
                  [] OTHER -> "failed"
    /\ stalls' = IF r.b.pos = f.pos /\ r.b.out = << >> THEN stalls + 1 ELSE 0
DecodeTurn ==
    /\ ended = "no"
    /\ ~(NeedsInput /\ feed.read + Want > Len(member.bytes))
    /\ \E f \in {Refilled} :
          \E r \in {XzDecRun(dec, [in |-> f.in, pos |-> f.pos, out |-> << >>, size |-> bufs.out])} :
              Turn(f, r)
    /\ UNCHANGED <<member, bufs>>
ShortRead ==
    /\ ended = "no"
    /\ NeedsInput /\ feed.read + Want > Len(member.bytes)
    /\ ended' = "failed"
    /\ UNCHANGED <<member, bufs, feed, dec, sink, stalls>>

XzNext == DecodeTurn \/ ShortRead

------------------------------------------------------------------------------
(* Properties                                                                *)

\* Whatever the sizes of the two buffers are, an intact member is decoded to its
\* contents, a member that is cut short or has a wrong byte that a check covers is
\* refused, and no call after another is without progress: the loop ends.
StreamExact ==
    /\ ended = "done" => sink = member.contents /\ member.sound
    /\ ended = "failed" => ~member.sound
    /\ stalls <= 1
==============================================================================
