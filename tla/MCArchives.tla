----------------------------- MODULE MCArchives -----------------------------
(***************************************************************************)
(* Trees with a file that fills its TAR record and one that does not, with *)
(* a long name, with a directory DEBIAN inside, with the output inside,    *)
(* with a device, without a control file, and with names that are refused; *)
(* tar, ar and xz are also given their output as input.                    *)
(***************************************************************************)
EXTENDS Archives
HostDir == [kind |-> "dir", cells |-> << >>]
Cells(n) == HostFile([i \in 1 .. n |-> [at |-> "data", v |-> i]])
Stage == {<< >>, <<"s">>, <<"s", "DEBIAN">>, <<"s", "bin">>, <<"s", "long">>, <<"s", "long", "long">>}
HostWith(dirs, files) == [p \in dirs \union DOMAIN files |-> IF p \in dirs THEN HostDir ELSE files[p]]
StageFiles == (<<"s", "DEBIAN", "control">> :> Cells(3)) @@ (<<"s", "bin", "a">> :> Cells(2))
              @@ (<<"s", "long", "long", "a">> :> Cells(1)) @@ (<<"in">> :> Cells(1))
MCHosts == {HostWith(Stage, StageFiles),
            HostWith(Stage, StageFiles @@ (<<"s", "out">> :> Cells(2))),
            HostWith(Stage \union {<<"s", "long", "long", "DEBIAN">>}, StageFiles),
            HostWith(Stage, [StageFiles EXCEPT ![<<"s", "DEBIAN", "control">>] = Cells(0)]),
            HostWith(Stage, StageFiles @@ (<<"s", "dev">> :> [kind |-> "special", cells |-> << >>])),
            HostWith(Stage \union {<<"s", "dots">>}, StageFiles),
            HostWith(Stage, StageFiles @@ (<<"s", "dots">> :> Cells(1)) @@ (<<"blank">> :> Cells(1))),
            HostWith(Stage, StageFiles @@ (<<"s", "long", "back">> :> Cells(1)))}
MCCommands == {[cmd |-> c, in |-> << <<"s">> >>, out |-> o, xz |-> x] :
                 c \in {"deb", "tar"}, o \in {<<"out">>, <<"s", "out">>, <<"no", "out">>}, x \in BOOLEAN}
              \union {[cmd |-> "ar", in |-> i, out |-> <<"out">>, xz |-> FALSE] :
                        i \in {<< <<"s", "bin", "a">>, <<"in">> >>, << <<"in">>, <<"s", "long">> >>,
                               << <<"s", "bin", "long">> >>, << <<"in">>, <<"blank">> >>}}
              \union {[cmd |-> "ar", in |-> << <<"s", "bin", "a">>, <<"in">>, <<"s", "bin", "a">> >>,
                        out |-> <<"in">>, xz |-> FALSE]}
              \union {[cmd |-> "xz", in |-> i, out |-> o, xz |-> FALSE] :
                        i \in {<< <<"in">> >>, << <<"out">> >>}, o \in {<<"out">>, <<"in">>}}
MCBackslashed == {"back"}
MCDotEnded == {"dots"}
MCBlanked == {"blank"}
MCNameLength == [n \in {"s", "DEBIAN", "control", "bin", "a", "long", "out", "in", "dev", "no", "dots", "back", "blank"} |->
                   CASE n \in {"a", "s"} -> 1 [] n = "long" -> 4 [] n = "DEBIAN" -> 6 [] OTHER -> 3]
=============================================================================
