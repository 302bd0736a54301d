----------------------------- MODULE MCLdconfig -----------------------------
(***************************************************************************)
(* Every assignment of five sonames to the libraries of three              *)
(* directories, in the orders readdir may give, with a configuration       *)
(* that includes another.                                                  *)
(***************************************************************************)
EXTENDS Ldconfig
Lib(path, soname, size, defects) == [path |-> path, dso |-> TRUE, soname |-> soname, size |-> size, defects |-> defects]
Names == <<<<"a", "2">>, <<"a", "1", "0">>, <<"a", ".", "1">>, <<"a">>, <<"b", "0", "2">>>>
Conf(lines, size) == [lines |-> lines, size |-> size]
LdLine(kind, dir, files) == [kind |-> kind, dir |-> dir, files |-> files]
TargetOf(order, big, bad) ==
    [dirs |-> ("/lib" :> <<Lib(3, Names[order[1]], 1, {}), Lib(4, Names[order[2]], big, {}), Lib(5, Names[order[3]], 1, {"no soname"})>>)
          @@ ("/usr/lib" :> <<Lib(9, Names[order[2]], 1, {}), Lib(8, Names[order[1]], 1, {}), [Lib(7, << >>, 1, {}) EXCEPT !.dso = FALSE]>>)
          @@ ("/opt" :> <<Lib(1, Names[order[4]], 1, {}), Lib(2, Names[order[3]], 1, {}), Lib(6, Names[order[5]], 1, {})>>),
     confs |-> ("main" :> Conf(<<LdLine("comment", "", << >>), LdLine("include", "", <<"local", "gone">>), LdLine("dir", "/usr/lib", << >>), LdLine("dir", "/gone", << >>)>>, 1))
          @@ ("local" :> Conf(<<LdLine("dir", "/opt", << >>)>> \o (IF bad THEN <<LdLine("hwcap", "", << >>)>> ELSE << >>), 1))]
MCTargets == {TargetOf(o, big, bad) : o \in {f \in [1 .. 5 -> 1 .. 5] : \A i, j \in 1 .. 5 : f[i] = f[j] => i = j},
                                      big \in {1, 300}, bad \in BOOLEAN}
MCStandardDirs == <<"/lib">>
=============================================================================
