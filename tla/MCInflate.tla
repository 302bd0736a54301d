----------------------------- MODULE MCInflate ------------------------------
(***************************************************************************)
(* Members made by a small encoder from every set of code lengths that is  *)
(* a prefix code, with overlapping copies and stored blocks; and damaged   *)
(* ones.                                                                   *)
(***************************************************************************)
EXTENDS Inflate
MCLBase == <<2, 3>>
MCLExt == <<0, 1>>
MCDBase == <<1, 2, 4>>
MCDExt == <<0, 1, 0>>
MCFixedLit == <<2, 3, 3, 2, 3, 3>>
MCFixedDist == <<2, 2, 2, 2>>
MCClOrder == <<4, 5, 6, 0, 1, 2, 3>>
MCRuns == <<[base |-> 2, bits |-> 1], [base |-> 2, bits |-> 1], [base |-> 4, bits |-> 1]>>
\* The canonical code of a symbol, by the sum of what the codes before it take.
BitsHigh(v, n) == [i \in 1 .. n |-> (v \div 2 ^ (n - i)) % 2]
BitsLow(v, n) == [i \in 1 .. n |-> (v \div 2 ^ (i - 1)) % 2]
CodeOf(lens, s) ==
    LET l == lens[s + 1]
        earlier == {i \in DOMAIN lens : lens[i] # 0 /\ (lens[i] < l \/ (lens[i] = l /\ i < s + 1))}
    IN  BitsHigh(FoldSet(LAMBDA i, v : v + 2 ^ (l - lens[i]), 0, earlier), l)
Kraft(lens) == FoldLeft(LAMBDA v, l : v + (IF l = 0 THEN 0 ELSE 2 ^ (MaxBits - l)), 0, lens) <= 2 ^ MaxBits
\* Lengths written with runs.
ClLens == <<3, 3, 3, 3, 3, 3, 3>>
RECURSIVE WriteLens(_, _)
WriteLens(lens, prev) ==
    LET same == CHOOSE n \in 0 .. Len(lens) : (\A i \in 1 .. n : lens[i] = lens[1]) /\ (n = Len(lens) \/ lens[n + 1] # lens[1])
        rest(n) == WriteLens(SubSeq(lens, n + 1, Len(lens)), lens[1])
    IN  IF lens = << >> THEN << >>
        ELSE IF lens[1] = 0 /\ same >= 4 THEN CodeOf(ClLens, 6) \o BitsLow(0, 1) \o rest(4)
        ELSE IF lens[1] = 0 /\ same >= 2 THEN CodeOf(ClLens, 5) \o BitsLow(same - 2, 1) \o rest(same)
        ELSE IF lens[1] = prev /\ same >= 2 THEN CodeOf(ClLens, 4) \o BitsLow(IF same > 2 THEN 1 ELSE 0, 1) \o rest(IF same > 2 THEN 3 ELSE 2)
        ELSE CodeOf(ClLens, lens[1]) \o rest(1)
Tables(lit, dist) ==
    BitsLow(Len(lit) - 4, 2) \o BitsLow(Len(dist) - 1, 1) \o BitsLow(3, 2)
    \o FlattenSeq([i \in 1 .. 7 |-> BitsLow(3, 2)]) \o WriteLens(lit \o dist, 99)
\* Every literal the code has, then every length with the distance dd.
LitsOf(lit) == SelectSeq(<<0, 1, 2>>, LAMBDA v : lit[v + 1] # 0)
LensOf(lit) == SelectSeq(<<4, 5>>, LAMBDA v : v < Len(lit) /\ lit[v + 1] # 0)
MatchBits(lit, dist, s, dd, e) ==
    CodeOf(lit, s) \o BitsLow(e, MCLExt[s - 3]) \o CodeOf(dist, dd) \o BitsLow(0, MCDExt[dd + 1])
Program(lit, dist, dd) ==
    FlattenSeq([i \in DOMAIN LitsOf(lit) |-> CodeOf(lit, LitsOf(lit)[i])])
    \o (IF dist[dd + 1] = 0 THEN << >>
        ELSE FlattenSeq([i \in DOMAIN LensOf(lit) |-> MatchBits(lit, dist, LensOf(lit)[i], dd, 1)]))
    \o CodeOf(lit, 3)
RECURSIVE Again(_, _, _)
Again(data, dd, n) == IF n = 0 THEN data ELSE Again(Append(data, data[Len(data) + 1 - MCDBase[dd + 1]]), dd, n - 1)
DataOf(lit, dist, dd, first) ==
    LET lits == first \o LitsOf(lit)
    IN  IF dist[dd + 1] = 0 THEN lits
        ELSE FoldLeft(LAMBDA data, s : Again(data, dd, IF s = 4 THEN 2 ELSE 4), lits, LensOf(lit))
Packed(bits) ==
    LET full == bits \o [i \in 1 .. (4 - (Len(bits) % 4)) % 4 |-> 0]
    IN  [k \in 1 .. Len(full) \div 4 |-> Weigh(SubSeq(full, 4 * k - 3, 4 * k))]
Gz(flags, head, bits, data) ==
    [magic |-> TRUE, flags |-> flags, bytes |-> head \o Packed(bits), isize |-> Len(data), crc |-> Checksum(data),
     contents |-> data, sound |-> data # << >>]
LitVectors == {v \in UNION {[1 .. n -> 0 .. 3] : n \in {4, 6}} : v[4] # 0 /\ Kraft(v) /\ v[1] # 0 /\ (Len(v) = 6 => v[2] # 1)}
DistVectors == {<<1>>, <<0, 1>>, <<1, 1>>, <<2, 3>>}
Stored(data, final) ==
    BitsLow(final, 1) \o BitsLow(0, 2) \o <<0>> \o BitsLow(Len(data), 4) \o BitsLow(15 - Len(data), 4)
    \o FlattenSeq([i \in DOMAIN data |-> BitsLow(data[i], 4)])
Dynamic(lit, dist, dd) ==
    Gz({"extra", "name", "hcrc"}, <<1, 9, 7, 0, 3>>,
       Stored(<<13, 7>>, 0) \o BitsLow(1, 1) \o BitsLow(2, 2) \o Tables(lit, dist) \o Program(lit, dist, dd),
       DataOf(lit, dist, dd, <<13, 7>>))
FixedGz == Gz({"comment"}, <<5, 0>>,
              BitsLow(0, 1) \o BitsLow(1, 2) \o Program(MCFixedLit, MCFixedDist, 1)
                \o BitsLow(1, 1) \o BitsLow(1, 2) \o CodeOf(MCFixedLit, 2) \o CodeOf(MCFixedLit, 3),
              Append(DataOf(MCFixedLit, MCFixedDist, 1, << >>), 2))
Bad == {[FixedGz EXCEPT !.isize = @ + 1], [FixedGz EXCEPT !.isize = @ - 1], [FixedGz EXCEPT !.crc = 98],
        [FixedGz EXCEPT !.magic = FALSE], [FixedGz EXCEPT !.flags = @ \union {"reserved"}],
        [FixedGz EXCEPT !.isize = 0], [FixedGz EXCEPT !.bytes = <<5>>]}
       \union {[FixedGz EXCEPT !.bytes = SubSeq(@, 1, n)] : n \in 0 .. Len(FixedGz.bytes) - 1}
       \union {[Gz({}, << >>, Stored(<<13, 7>>, 1), <<13, 7>>) EXCEPT !.bytes[3] = 12]}
       \union {[Gz({"extra"}, <<9>>, Stored(<<13, 7>>, 1), <<13, 7>>) EXCEPT !.isize = 2]}
MCGzMembers == {Dynamic(l, d, dd) : l \in LitVectors, d \in DistVectors, dd \in {0}}
     \union {Dynamic(l, d, 1) : l \in LitVectors, d \in DistVectors \ {<<1>>}} \union {FixedGz}
     \union {[b EXCEPT !.sound = FALSE] : b \in Bad}
=============================================================================
