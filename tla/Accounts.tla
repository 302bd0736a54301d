------------------------------ MODULE Accounts ------------------------------
(***************************************************************************)
(* useradd and passwd (src/cmd_useradd.c, src/cmd_passwd.c and             *)
(* src/account_util.c): four text files below a target root, each read     *)
(* whole and written whole through the namespace of module Files.          *)
(*                                                                         *)
(* A line of one of the files is a record; the four files have different   *)
(* fields, of which the name, the identifier and the hash matter here.     *)
(* The SHA-256 crypt is a function of the password that nothing inspects.  *)
(***************************************************************************)
EXTENDS Files

CONSTANTS
    Root,        \* -R: the target root
    Users,       \* user names
    Hashes,      \* password hashes
    ExplicitIds, \* identifiers given with -u
    FirstUid,    \* 1000
    UidMax       \* UINT32_MAX

ASSUME UidAssumption == FirstUid \in Nat \ {0} /\ UidMax \in Nat /\ FirstUid <= UidMax

VARIABLES
    created,   \* history: accounts a useradd reported as created
    damaged    \* history: volumes on which a write of an account file failed
accountVars == <<filesVars, created, damaged>>

AccountFiles == <<"passwd", "shadow", "group", "gshadow">>
Below(p, names) == [p EXCEPT !.comps = @ \o names]
AccountFile(f) == Below(Root, <<"etc", f>>)
ModeOf(f) == IF f \in {"shadow", "gshadow"} THEN "private" ELSE "public"

\* The lines the commands write.  auto: useradd chose the identifier.
Line(name, uid, auto, hash) == [name |-> name, uid |-> uid, auto |-> auto, hash |-> hash]
IsLine(x) == x \notin UNION {ToSet(x1) : x1 \in Texts}
Lines(data) == SelectSeq(data, IsLine)

\* account_vfs_read_all: a file that cannot be opened counts as empty.
Text(t, f) == IF Readable(t, AccountFile(f)) THEN ReadAll(t, AccountFile(f)) ELSE << >>

\* account_has_name
HasName(data, name) == \E i \in DOMAIN Lines(data) : Lines(data)[i].name = name

\* account_next_uid: one more than the largest from FirstUid on.
NextUid(data) ==
    LET taken == {u \in {Lines(data)[i].uid : i \in DOMAIN Lines(data)} : u >= FirstUid}
    IN  1 + (CHOOSE u \in taken \union {FirstUid - 1} : \A w \in taken : w <= u)

\* account_append_line, account_replace_named_line
AppendLine(data, line) == Append(data, line)
ReplaceNamedLine(data, line) ==
    LET hit(x) == IsLine(x) /\ x.name = line.name
    IN  IF \E i \in DOMAIN data : hit(data[i])
        THEN [i \in DOMAIN data |-> IF hit(data[i]) THEN line ELSE data[i]]
        ELSE AppendLine(data, line)

\* write_account_file: a failure to set the mode is not looked at.
WithMode(o, f) == IF o.ok THEN [Chmod(o, AccountFile(f), ModeOf(f)) EXCEPT !.ok = TRUE] ELSE o
WriteAccountFile(o, f, data) == WithMode(WriteAll(o, AccountFile(f), data, FALSE), f)

\* Mutant: the groups are written first.
GroupsFirst == <<"group", "gshadow", "passwd", "shadow">>

\* The order of cmd_useradd's writes.
WriteOrder == AccountFiles

\* The first n of the four writes, up to the first that fails.
WriteFiles(o, text, n) ==
    LET one(o1, f) == IF o1.ok THEN WriteAccountFile(o1, f, text[f]) ELSE o1
    IN  FoldLeft(one, o, Prefix(WriteOrder, n))

\* account_vfs_mkdir_p and vfs_chown of the home directory
OwnedBy(o, home, uid) == IF o.ok THEN Chown(o, home, uid) ELSE o
MakeHome(o, name, uid) ==
    OwnedBy(MkdirP(o, Below(Root, <<"home", name>>)), Below(Root, <<"home", name>>), uid)

\* cmd_useradd, to its end or interrupted after n writes.  Nothing is undone.
EtcVolume(t) == Resolve(t, Below(Root, <<"etc">>)).vol
NewText(t, line, grouped) ==
    [f \in ToSet(AccountFiles) |->
        IF f \in {"passwd", "shadow"} \/ grouped THEN AppendLine(Text(t, f), line) ELSE Text(t, f)]
UserAdd(name, uid, auto, ownGroup, withHome, room, n) ==
    \E etc \in {MkdirP(Start(room), Below(Root, <<"etc">>))} :
        /\ etc.ok
        /\ ~HasName(Text(etc.tree, "passwd"), name)
        /\ auto => uid = NextUid(Text(etc.tree, "passwd")) /\ uid <= UidMax
        /\ Spend(room < Plenty \/ n < 4)
        /\ \E files \in {WriteFiles(etc, NewText(etc.tree, Line(name, uid, auto, "locked"),
                              ownGroup /\ ~HasName(Text(etc.tree, "group"), name)), n)} :
           \E o \in {IF files.ok /\ n = 4 /\ withHome THEN MakeHome(files, name, uid) ELSE files} :
              /\ tree' = o.tree
              /\ last' = [Quiet EXCEPT !.ok = o.ok]
              /\ damaged' = IF files.ok THEN damaged ELSE damaged \union {EtcVolume(etc.tree)}
              /\ created' = IF o.ok /\ n = 4
                            THEN created \union {[vol |-> EtcVolume(etc.tree), name |-> name,
                                                  uid |-> uid, group |-> ownGroup, home |-> withHome]}
                            ELSE created
        /\ UNCHANGED <<mounts, cwd, host, prev>>

\* cmd_passwd
Passwd(name, hash, room) ==
    /\ HasName(Text(tree, "passwd"), name)
    /\ Spend(room < Plenty)
    /\ \E o \in {WriteAccountFile(Start(room), "shadow",
                    ReplaceNamedLine(Text(tree, "shadow"), Line(name, 0, FALSE, hash)))} :
          /\ tree' = o.tree
          /\ last' = [Quiet EXCEPT !.ok = o.ok]
          /\ damaged' = IF o.ok THEN damaged
                        ELSE damaged \union {Resolve(tree, AccountFile("passwd")).vol}
    /\ UNCHANGED <<mounts, cwd, host, prev, created>>

AccountInit ==
    /\ FilesInit
    /\ created = {}
    /\ damaged = {}

UserAddStep ==
    \E name \in Users, own, withHome \in BOOLEAN, room \in Rooms :
        \E n \in {4} \union IF faults > 0 THEN 0 .. 3 ELSE {} :
            \/ UserAdd(name, NextUid(Text(tree, "passwd")), TRUE, own, withHome, room, n)
            \/ \E uid \in ExplicitIds : UserAdd(name, uid, FALSE, own, withHome, room, n)
PasswdStep == \E name \in Users, hash \in Hashes, room \in Rooms : Passwd(name, hash, room)

AccountNext == UserAddStep \/ PasswdStep
------------------------------------------------------------------------------
(* Properties                                                                *)

OnDisk(v, f) ==
    LET r == <<"etc", f>>
    IN  IF r \in DOMAIN tree[v] THEN Lines(tree[v][r].data) ELSE << >>
NamesIn(v, f) == {OnDisk(v, f)[i].name : i \in DOMAIN OnDisk(v, f)}

\* While no write of an account file has failed, the four files belong together,
\* also when useradd was interrupted between any two of them: nobody is in shadow
\* or has a group without being in passwd, nobody is in a file twice, an
\* identifier that useradd chose is not one of an earlier account, and everyone
\* whose creation was reported is in every file, has the home he was promised
\* and owns it.
AccountsSound ==
    \A v \in {x \in Volumes : Kind[x] = "ext2"} \ damaged :
        /\ NamesIn(v, "gshadow") \subseteq NamesIn(v, "group")
        /\ NamesIn(v, "group") \subseteq NamesIn(v, "shadow")
        /\ NamesIn(v, "shadow") \subseteq NamesIn(v, "passwd")
        /\ \A f \in ToSet(AccountFiles) : \A i, j \in DOMAIN OnDisk(v, f) :
              i < j => /\ OnDisk(v, f)[i].name # OnDisk(v, f)[j].name
                       /\ f = "passwd" /\ OnDisk(v, f)[j].auto =>
                             OnDisk(v, f)[i].uid # OnDisk(v, f)[j].uid
        /\ \A a \in created : a.vol = v =>
              /\ a.name \in NamesIn(v, "passwd") \intersect NamesIn(v, "shadow")
              /\ a.group => a.name \in NamesIn(v, "gshadow")
              /\ a.home => /\ <<"home", a.name>> \in DOMAIN tree[v]
                           /\ tree[v][<<"home", a.name>>].uid = a.uid
              /\ tree[v][<<"etc", "shadow">>].mode = "private"
==============================================================================
