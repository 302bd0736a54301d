----------------------------- MODULE MCMetadata -----------------------------
(***************************************************************************)
(* Version texts of up to two characters and longer ones with epochs,      *)
(* revisions and zeros; relationships of one to four groups; stanzas of    *)
(* up to four lines, and indexes of three stanzas.                         *)
(***************************************************************************)
EXTENDS Metadata
Texts(chars, n) == UNION {[1 .. k -> chars] : k \in 0 .. n}
MCVersionTexts ==
    Texts({"0", "1", "~", "a", "+", "."}, 2) \union
    {<<"1", ":", "0">>, <<"a", ":", "1">>, <<"0", ":", "2", "-", "1">>, <<"2", "-", "0", "1">>,
     <<"1", "-", "2", "-", "~">>, <<"0", "0", "9", "a", "1">>, <<"9", "a", "0", "1">>, <<"1", "2">>,
     <<"2", "b", "1">>, <<"2", "b">>, <<"1", "~", "~">>, <<"1", "-", "0">>}
Alt0(name, arch, op, version, restrictions) ==
    [name |-> name, arch |-> arch, op |-> op, version |-> version, restrictions |-> restrictions]
Alternatives == {Alt0("p", "", "", "", << >>), Alt0("q", "any", ">=", "1", << >>),
                 Alt0("r", "", "", "", <<"[", "x", ",", "y", "]">>),
                 Alt0("s", "", "<<", "2", <<"<", "!n", "|", "c", ">">>)}
Groups0 == UNION {[1 .. k -> Alternatives] : k \in 1 .. 3}
MCDependsLists == {<<g>> : g \in Groups0} \union
    {<<g, h>> : g, h \in {f \in Groups0 : Len(f) <= 2}} \union {<< >>} \union
    {[k \in 1 .. 4 |-> <<a>>] : a \in Alternatives}
Line(kind, key, value) == [kind |-> kind, key |-> key, value |-> value]
Of(key, value) == Line("field", key, value)
Lines == {Of("Package", "p"), Of("Version", "1"), Of("Depends", "q"), Of("Filename", "p.deb"),
          Of("Other", "o"), Line("folded", "", "f"), Line("junk", "", ""), Blank}
\* SomeStanzas that are complete, repeat one another, or lack a field.
SomeStanzas == {<<Of("Package", "p"), Of("Version", "1"), Of("Filename", "p.deb")>>,
            <<Of("Filename", "p.deb"), Of("Version", "1"), Of("Package", "p"), Of("Depends", "q")>>,
            <<Of("Package", "q"), Of("Version", "1"), Of("Filename", "q.deb")>>,
            <<Of("Package", "p"), Of("Version", "1")>>}
MCControlTexts ==
    UNION {[1 .. k -> Lines] : k \in 0 .. 4} \union
    {s \o <<Blank>> \o t \o <<Blank>> \o u : s, t, u \in SomeStanzas}
=============================================================================
