----------------------------- MODULE MCScripts ------------------------------
(***************************************************************************)
(* A merged /usr, one that systemd-nspawn has touched and one that is not  *)
(* merged; of the packages whose scripts are known, two at a time.         *)
(***************************************************************************)
EXTENDS Scripts
\* payload entries
Ent(type, path, v) == [type |-> type, path |-> path, v |-> v]
Bin(n) == <<"usr", "bin", n>>
RunDir == <<"run", "d">>
MCDebs == {"base-files", "base-passwd", "libc6", "dash", "bash", "gzip", "libc-bin", "libpam-runtime",
           "libpam-modules", "util-linux", "login", "daemon", "strange"}
MCPayloads == [d \in MCDebs |->
    CASE d = "base-files" -> <<Ent("link", Lib64, Usr(Lib64)), Ent("dir", Usr(Lib64), << >>)>>
      [] d = "dash" -> <<Ent("file", Bin("dash"), <<"dash">>), Ent("link", Shell, Bin("dash"))>>
      [] d = "bash" -> <<Ent("file", Bin("bash"), <<"bash">>), Ent("link", Shell, Bin("bash"))>>
      [] d = "libc-bin" -> <<Ent("file", NsswitchDefault, <<"default">>)>>
      [] d = "libpam-runtime" -> <<Ent("file", UnixProfile, <<"unix">>)>>
                                 \o [i \in 1 .. 5 |-> Ent("file", PamTemplate(PamNames[i]), <<"template">>)]
      [] d = "daemon" -> <<Ent("file", RecipePath("d.conf"), <<"recipe">>),
                           Ent("fifo", RunDir, << >>)>>
      [] OTHER -> << >>]
MCPreinsts == [d \in MCDebs |->
    IF d \in {"base-files", "base-passwd", "libc6", "gzip", "dash", "login", "libpam-modules"} THEN "known"
    ELSE IF d = "strange" THEN "other" ELSE "none"]
ScriptLine(k, arg) == [k |-> k, arg |-> arg]
MCPostinsts == [d \in MCDebs |->
    CASE d = "daemon" -> <<ScriptLine("blank", ""), ScriptLine("guard", ""), ScriptLine("other", ""), ScriptLine("fi", ""), ScriptLine("outer", ""),
                           ScriptLine("tmpfiles", "d.conf"), ScriptLine("fi", ""), ScriptLine("trigger", "t")>>
      [] d \in {"login", "base-files"} -> <<ScriptLine("other", "")>>
      [] d = "bash" -> <<ScriptLine("guard", "")>>
      [] OTHER -> << >>]
MCKnown == {"libc6", "libc-bin", "util-linux", "login"}
MCRecipes == [c \in {"d.conf"} |-> <<[type |-> "d", path |-> RunDir, owner |-> <<"daemon">>]>>]
MCPromised == [d \in MCDebs |->
    CASE d = "libc-bin" -> {Nsswitch}
      [] d = "libpam-modules" -> {Opasswd, Environment}
      [] d = "libpam-runtime" -> {PamFile(PamNames[i]) : i \in 1 .. 5}
      [] d = "util-linux" -> {Pager, PagerMan}
      [] d = "daemon" -> {RunDir}
      [] OTHER -> {}]
Loose == {Passwd, Group, Nsswitch, Opasswd, Environment, Pager, PagerMan, RunDir, Shell, Bin("dash"), Bin("bash"),
          NsswitchDefault, UnixProfile,
          RecipePath("d.conf"), Usr(Lib64), <<"usr", "lib">>}
         \cup {PamTemplate(PamNames[i]) : i \in 1 .. 5} \cup {PamFile(PamNames[i]) : i \in 1 .. 5}
         \cup {<<CheckDirs[i]>> : i \in 1 .. 7}
Bare == [p \in Loose |-> IF p = <<"usr", "lib">> THEN DirNode(<<"root">>) ELSE Gone]
\* a merged /usr with a shell of its own; one with the link of systemd-nspawn and links
\* to nowhere; one that is not merged, with links that lead to links
MCRoots ==
    {[Bare EXCEPT ![LibDir] = LinkNode(Usr(LibDir)), ![Shell] = FileNode(<<"own">>), ![Nsswitch] = FileNode(<<"own">>)],
     [Bare EXCEPT ![LibDir] = LinkNode(Usr(LibDir)), ![Lib64] = LinkNode(Usr(LibDir) \o <<"x">>), ![Passwd] = LinkNode(Bin("gone")),
                  ![Usr(Lib64)] = DirNode(<<"root">>), ![RunDir] = LinkNode(RunDir), ![Nsswitch] = LinkNode(Passwd)],
     [Bare EXCEPT ![LibDir] = DirNode(<<"root">>), ![Lib64] = DirNode(<<"root">>), ![Opasswd] = LinkNode(Environment),
                  ![Environment] = LinkNode(Group)]}
MCMenus == {{"base-files", "libc6"}, {"dash", "bash"}, {"base-passwd", "libc-bin"}, {"gzip", "libpam-runtime"},
            {"libpam-modules", "util-linux"}, {"login", "daemon"}, {"strange", "libc6"}}
=============================================================================
