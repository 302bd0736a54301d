--------------------------- MODULE MCDirectories ----------------------------
(***************************************************************************)
(* An image whose root directory crosses a sector boundary, with names     *)
(* and a link target split over Rock Ridge entries and a continuation      *)
(* area; the same without Rock Ridge and with sectors that cannot be       *)
(* read; and an EXT2 directory with a removed record.                      *)
(***************************************************************************)
EXTENDS Directories
Entry(sig, cont, pieces, comps, block, length) ==
    [sig |-> sig, cont |-> cont, pieces |-> pieces, comps |-> comps, block |-> block, length |-> length]
NM(pieces, cont) == Entry("NM", cont, pieces, << >>, 0, 0)
SL(comps, cont) == Entry("SL", cont, << >>, comps, 0, 0)
CE(block, length) == Entry("CE", FALSE, << >>, << >>, block, length)
PX == Entry("PX", FALSE, << >>, << >>, 0, 0)
SP == Entry("SP", FALSE, << >>, << >>, 0, 0)
ST == Entry("ST", FALSE, << >>, << >>, 0, 0)
Comp(kind, pieces, cont) == [kind |-> kind, pieces |-> pieces, cont |-> cont]
Rec(len, dot, id, lba, size, dir, su) ==
    [len |-> len, dot |-> dot, id |-> id, lba |-> lba, size |-> size, dir |-> dir, su |-> su,
     target |-> NoTarget]
LinkRec(len, id, su, target) == [Rec(len, "no", id, 0, 0, FALSE, su) EXCEPT !.target = target]

\* /: ".", "..", sub, a long name in two NM entries; behind a sector boundary a
\* link whose target is split over two SL entries and a continuation, and a file.
Descriptor == [type |-> 1, magic |-> TRUE, version |-> 1, rootLen |-> 34, rootIsDir |-> TRUE,
               lba |-> 20, size |-> 2 * SectorSize]
Root1 == <<Rec(1, ".", << >>, 20, 2 * SectorSize, TRUE, <<SP, PX>>), Rec(1, "..", << >>, 20, 2 * SectorSize, TRUE, << >>),
           Rec(1, "no", <<"SUB">>, 22, SectorSize, TRUE, <<NM(<<"Sub">>, FALSE), PX>>)>>
Root2 == <<LinkRec(2, <<"L">>, <<NM(<<"l">>, FALSE), CE(1, 10), PX, ST>>,
                [abs |-> TRUE, comps |-> <<<<"sub">>, <<"..">>, <<"x", "y">>>>]),
           Rec(1, "no", <<"F">>, 24, 2, FALSE, <<NM(<<"f">>, TRUE), NM(<<"g">>, FALSE)>>)>>
Sub1 == <<Rec(1, ".", << >>, 22, SectorSize, TRUE, << >>), Rec(1, "..", << >>, 20, 2 * SectorSize, TRUE, << >>),
          Rec(1, "no", <<"X">>, 24, 1, FALSE, <<CE(2, 10)>>)>>
Areas == [b \in 1 .. 2 |->
    IF b = 1 THEN <<SL(<<Comp("root", << >>, FALSE), Comp("name", <<"sub">>, FALSE), Comp("parent", << >>, FALSE)>>, TRUE),
                    SL(<<Comp("name", <<"x">>, TRUE), Comp("name", <<"y">>, FALSE)>>, FALSE)>>
    ELSE <<PX, CE(2, 10)>>]
Image == [pvd |-> Descriptor, areas |-> Areas,
          sectors |-> [l \in {20, 21, 22, 24, 25} |-> CASE l = 20 -> Root1 [] l = 21 -> Root2
                                   [] l = 22 -> Sub1 [] OTHER -> << >>]]
PlainImage == [Image EXCEPT !.sectors[20][1].su = << >>]
DamagedImage == [Image EXCEPT !.sectors = [l \in DOMAIN @ \ {21, 25} |-> @[l]]]
MCIsoImages == {Image, PlainImage, DamagedImage, [Image EXCEPT !.pvd.version = 2]}
E2(len, ino, name) == [len |-> len, ino |-> ino, name |-> name]
MCExt2Dirs == {<<<<E2(1, 2, "."), E2(1, 2, ".."), E2(2, 5, "a")>>, <<E2(2, 0, "-"), E2(2, 6, "b")>>>>}
MCLowerOf == [p \in {"SUB", "L", "F", "X", "Sub", "l", "f", "g", "x", "sub"} |->
                CASE p = "SUB" -> "sub" [] p = "Sub" -> "sub" [] p = "L" -> "l" [] p = "F" -> "f" [] p = "X" -> "x" [] OTHER -> p]
MCWantedNames == {<<"Sub">>, <<"l">>, <<"f", "g">>, <<"x">>, <<"F">>, <<"SUB">>}
DSpec == DirectoriesInit /\ [][DirectoriesNext]_isoVars
=============================================================================
