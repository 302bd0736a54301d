--------------------------- MODULE Scripts_proofs ---------------------------
(***************************************************************************)
(* Proofs about Scripts: for all packages and targets that are Archived,   *)
(* Linked and Scripted and every sequence of commands, however their steps *)
(* fail, are repeated or lose a file that they rewrite, ScriptsSound holds.*)
(*                                                                         *)
(* ScriptsSound is not inductive: an install makes links before its list is*)
(* written, and a configure counts the package as installed after all of   *)
(* its steps.  ScriptsInv says how far the command under way is.  TreeInv: *)
(* an empty file was emptied, and no recipe or template is a link. ListsInv*)
(* : the links on a registered package's list are held.  EffectsInv: what an *)
(* installed package promises is in place.  WorkInv: an install has the end*)
(* of its steps left and holds the links that it will list; a configure has*)
(* the steps left that see to what is not yet in place.                    *)
(*                                                                         *)
(* Most steps change nodes of the target, diversions and triggers and leave*)
(* the database alone (Plain).  NodeMoves says how a node may change then; *)
(* the lemmas ...Plain show it of each operation, and PlainKeeps that it   *)
(* keeps the invariant.  The steps that write the database (ListKeeps,     *)
(* ControlKeeps, StanzaKeeps, InstalledKeeps) have lemmas of their own.    *)
(***************************************************************************)
EXTENDS Scripts, TLAPS, SequenceTheorems

------------------------------------------------------------------------------
(* The inductive invariant                                                   *)

Present(p) == root[p].kind \in {"file", "dir", "link"}
InPlace(p) == Present(p) \/ ({p} \cup SourcesOf(p)) \cap lost # {}
Held(e) == root[e.path] = LinkNode(e.v) \/ e.path \in lost

TreeInv ==
    /\ menu \in Menus
    /\ DOMAIN root = Paths
    /\ \A p \in Paths : root[p].kind = "file" /\ root[p].v = << >> => p \in lost
    /\ \A p \in SourceFiles : root[p].kind # "link"

DivsInv == (\E S : divs \in Seq(S)) /\ DiversionsUnique

\* the links on the list of a registered package, or of the one being unpacked
ListsInv ==
    /\ DOMAIN lists = Debs /\ DOMAIN regd = Debs /\ DOMAIN info = Debs
    /\ \A q \in Debs : \A i \in DOMAIN Payloads[q] :
         IsLinkEntry(q, i) /\ regd[q] # "none" /\ Payloads[q][i].path \in lists[q] => Held(Payloads[q][i])
    /\ \A q \in Debs : /\ regd[q] # "none" => info[q] # "none"
                       /\ info[q] \notin {"none", "whole"} => <<"info", q>> \in lost

Recorded == {LibcRecords[1], LibcRecords[2]} \subseteq ToSet(divs) \/ <<"diversions">> \in lost
EffectsInv ==
    \A q \in Debs : (regd[q] = "installed" /\ <<"info", q>> \notin lost) =>
        /\ \A p \in Promised[q] : InPlace(p)
        /\ q = "libc6" => Recorded /\ "libc-upgrade" \in fired

\* the step is an entry of the package's payload
FromPayload(q, s) ==
    \E j \in DOMAIN Payloads[q] :
        Payloads[q][j].type = s.op /\ Payloads[q][j].path = s.path /\ Payloads[q][j].v = s.v

PayStep(q, s) == s.op \in TarTypes /\ FromPayload(q, s)
PreOps == {"divert", "merged", "master", "usrlib64", "lib64", "zutils", "refuse"}
PreStep(s) ==
    /\ s.op \in PreOps
    /\ s.op = "master" => s.path \in Paths
    /\ s.op = "merged" => <<s.v>> \in Paths
\* What is left of an install: entries of the preinst and the payload, then the list,
\* the control files and the stanza.
InstallRest(q, st) ==
    /\ st[Len(st)].op = "stanza"
    /\ Len(st) >= 2 => st[Len(st) - 1].op = "control"
    /\ Len(st) >= 3 => st[Len(st) - 2].op = "list"
    /\ \A i \in 1 .. Len(st) - 3 : PreStep(st[i]) \/ PayStep(q, st[i])
Installing(w) ==
    /\ InstallRest(w.pkg, w.steps)
    /\ Len(w.steps) < 3 => lists[w.pkg] = w.list
    /\ Len(w.steps) < 2 => info[w.pkg] # "none"
    /\ \A i \in DOMAIN Payloads[w.pkg] :
         IsLinkEntry(w.pkg, i) /\ Payloads[w.pkg][i].path \in w.list => Held(Payloads[w.pkg][i])

ConfOps == TemplateOps \cup {"tmpdir", "default", "ldconfig", "profile", "pam", "touch", "alternative"}
PostStep(s) ==
    /\ s.op \in ConfOps
    /\ s.op \in MakeOps => SeesTo(s) \in Paths
    /\ s.op = "alternative" => s.path \in {Pager, PagerMan}
    /\ s.op = "pam" => \E i \in 1 .. 5 : s.v = PamNames[i]
    /\ s.op = "recipe" => s.v \in DOMAIN Recipes /\ s.path = RecipePath(s.v)
Refuses(s) == s.op = "refuse"
\* What is left of a postinst, and what it has yet to see to.
ConfigureRest(st) ==
    /\ st[Len(st)].op = "installed"
    /\ \A i \in 1 .. Len(st) - 1 : PostStep(st[i])
Configuring(w) ==
    /\ ConfigureRest(w.steps)
    /\ regd[w.pkg] # "none"
    /\ <<"info", w.pkg>> \notin lost =>
         /\ \A p \in Promised[w.pkg] :
              InPlace(p) \/ \E i \in 1 .. Len(w.steps) - 1 : Makes(w.steps[i], p) \/ Refuses(w.steps[i])
         /\ w.pkg = "libc6" =>
              /\ Recorded
              /\ \/ "libc-upgrade" \in fired
                 \/ \E i \in 1 .. Len(w.steps) - 1 :
                      (w.steps[i].op = "trigger" /\ w.steps[i].v = "libc-upgrade") \/ Refuses(w.steps[i])

WorkInv ==
    work = NoWork \/
    /\ work = [pkg |-> work.pkg, steps |-> work.steps, list |-> work.list]
    /\ work.pkg \in Debs
    /\ (\E S : work.steps \in Seq(S)) /\ Len(work.steps) >= 1
    /\ Installing(work) \/ Configuring(work)

ScriptsInv == TreeInv /\ DivsInv /\ ListsInv /\ EffectsInv /\ WorkInv

------------------------------------------------------------------------------
(* How the nodes of the target change                                        *)

\* dash's link takes the place of a shell that no other package owns
Retires(p, to) ==
    /\ work.pkg = "dash" /\ p = Shell /\ ~Claimed("dash", Shell)
    /\ FromPayload("dash", [op |-> "link", path |-> p, v |-> to])

NodeMoves(p) ==
    \/ root'[p] = root[p]
    \/ p \in lost' /\ root'[p].kind # "link"
    \/ /\ root'[p].kind \in {"file", "dir"} /\ root[p].kind # "link"
       /\ root'[p].kind = "file" => root'[p].v # << >>
    \/ \E to : /\ root'[p] = LinkNode(to) /\ p \notin SourceFiles
               /\ root[p].kind # "link" \/ Retires(p, to)
    \/ /\ p = Lib64 /\ root[p].kind = "link" /\ root[p].v # Usr(Lib64)
       /\ root'[p] \in {LinkNode(Usr(Lib64)), Gone}

RootMoves == DOMAIN root' = Paths /\ lost \subseteq lost' /\ \A p \in Paths : NodeMoves(p)

\* diversions are added for names that have none, or all lost
DivsMove ==
    \/ divs' = divs
    \/ \E rec : divs' = Append(divs, rec) /\ \A i \in DOMAIN divs : divs[i].from # rec.from
    \/ divs' = << >> /\ <<"diversions">> \in lost'

\* a step that leaves the database alone
Plain ==
    /\ RootMoves /\ DivsMove /\ fired \subseteq fired'
    /\ menu' = menu /\ lists' = lists /\ info' = info /\ regd' = regd

LEMMA NodeKinds ==
    /\ Gone.kind = "absent"
    /\ \A v : FileNode(v).kind = "file" /\ LinkNode(v).kind = "link" /\ DirNode(v).kind = "dir"
    /\ \A v : LinkNode(v).v = v /\ FileNode(v).v = v
    /\ \A v, w : LinkNode(v) = LinkNode(w) => v = w
  BY DEF Gone, FileNode, LinkNode, DirNode, Node

\* The links that scripts make are no recipes and no templates.
LEMMA SourcesApart == Lib64 \notin SourceFiles /\ Pager \notin SourceFiles /\ PagerMan \notin SourceFiles
  <1>1. Len(Lib64) = 1 /\ Len(Pager) = 3 /\ Len(PagerMan) = 5 BY DEF Lib64, Pager, PagerMan
  <1>2. \A c : Len(RecipePath(c)) = 4 /\ Len(PamTemplate(c)) = 4 BY DEF RecipePath, PamTemplate
  <1>3. ASSUME NEW p \in SourceFiles PROVE Len(p) = 4
    <2>1. CASE \E c \in DOMAIN Recipes : p = RecipePath(c) BY <1>2, <2>1
    <2>2. CASE \E i \in 1 .. 5 : p = PamTemplate(PamNames[i]) BY <1>2, <2>2, Zenon
    <2> QED BY <2>1, <2>2, Zenon DEF SourceFiles
  <1> QED BY <1>1, <1>3

LEMMA TreeKept ==
    ASSUME Archived, TreeInv, RootMoves, menu' = menu
    PROVE  TreeInv'
  <1>1. menu' \in Menus /\ DOMAIN root' = Paths /\ lost \subseteq lost' BY DEF TreeInv, RootMoves
  <1>2. ASSUME NEW p \in Paths, root'[p].kind = "file", root'[p].v = << >> PROVE p \in lost'
    <2>1. NodeMoves(p) BY DEF RootMoves
    <2>2. CASE root'[p] = root[p] BY <1>1, <1>2, <2>2 DEF TreeInv
    <2> QED BY <1>2, <2>1, <2>2, NodeKinds DEF NodeMoves
  <1>3. ASSUME NEW p \in SourceFiles PROVE root'[p].kind # "link"
    <2>1. p \in Paths BY DEF Archived
    <2>2. NodeMoves(p) BY <2>1 DEF RootMoves
    <2>3. p # Lib64 BY SourcesApart
    <2>4. root[p].kind # "link" BY DEF TreeInv
    <2> QED BY <2>2, <2>3, <2>4 DEF NodeMoves
  <1> QED BY <1>1, <1>2, <1>3 DEF TreeInv

\* What is there stays, unless a failed write loses it; only /lib64 is removed.
LEMMA PlaceKept ==
    ASSUME RootMoves, NEW p \in Paths, p # Lib64, InPlace(p)
    PROVE  InPlace(p)'
  <1>1. CASE ({p} \cup SourcesOf(p)) \cap lost # {} BY <1>1 DEF InPlace, RootMoves
  <1>2. CASE Present(p)
    <2>1. NodeMoves(p) BY DEF RootMoves
    <2>2. CASE root'[p] = root[p] BY <1>2, <2>2 DEF InPlace, Present
    <2>3. CASE p \in lost' BY <2>3 DEF InPlace
    <2>4. CASE root'[p].kind \in {"file", "dir"} BY <2>4 DEF InPlace, Present
    <2>5. CASE \E to : root'[p] = LinkNode(to) BY <2>5, NodeKinds DEF InPlace, Present
    <2> QED BY <2>1, <2>2, <2>3, <2>4, <2>5 DEF NodeMoves
  <1> QED BY <1>1, <1>2 DEF InPlace

\* A link that a registered package, or the one at work, has on its list stays.
LEMMA HeldKept ==
    ASSUME Archived, Linked, RootMoves, NEW q \in Debs, NEW i \in DOMAIN Payloads[q], IsLinkEntry(q, i),
           q = work.pkg \/ (regd[q] # "none" /\ Payloads[q][i].path \in lists[q]),
           Held(Payloads[q][i])
    PROVE  Held(Payloads[q][i])'
  <1>1. PICK e : e = Payloads[q][i] OBVIOUS
  <1>2. e.path \in Paths BY <1>1 DEF Archived
  <1>3. e.path \in LinkPaths BY <1>1, <1>2 DEF LinkPaths
  <1>4. SUFFICES ASSUME root[e.path] = LinkNode(e.v), e.path \notin lost'
                 PROVE  root'[e.path] = LinkNode(e.v)
    BY <1>1 DEF Held, RootMoves
  <1>5. NodeMoves(e.path) BY <1>2 DEF RootMoves
  <1>6. root[e.path].kind = "link" /\ root[e.path].v = e.v BY <1>4, NodeKinds
  <1>7. e.path = Lib64 => e.v = Usr(Lib64) BY <1>1 DEF Linked
  <1>8. ASSUME NEW to, root'[e.path] = LinkNode(to), Retires(e.path, to) PROVE to = e.v
    <2>1. PICK j \in DOMAIN Payloads["dash"] :
            /\ Payloads["dash"][j].type = "link" /\ Payloads["dash"][j].path = e.path
            /\ Payloads["dash"][j].v = to
      BY <1>8 DEF Retires, FromPayload
    <2>2. CASE q = "dash"
      <3>1. i = j BY <1>1, <2>1, <2>2 DEF Archived
      <3> QED BY <1>1, <2>1, <2>2, <3>1
    <2>3. CASE q # "dash"
      <3>1. q \in Debs \ {"dash"} /\ regd[q] # "none" /\ Shell \in lists[q]
        BY <1>1, <1>8, <2>3 DEF Retires
      <3> QED BY <1>8, <3>1 DEF Retires, Claimed
    <2> QED BY <2>2, <2>3
  <1>9. CASE root'[e.path] = root[e.path] BY <1>4, <1>9
  <1>10. CASE \E to : root'[e.path] = LinkNode(to) /\ Retires(e.path, to) BY <1>8, <1>10
  <1> QED BY <1>3, <1>4, <1>5, <1>6, <1>7, <1>9, <1>10 DEF NodeMoves

LEMMA DivsKept ==
    ASSUME DivsInv, DivsMove, lost \subseteq lost'
    PROVE  DivsInv' /\ (Recorded => Recorded')
  <1>1. CASE divs' = divs BY <1>1 DEF DivsInv, DiversionsUnique, Recorded
  <1>2. CASE divs' = << >> /\ <<"diversions">> \in lost'
    <2>1. DOMAIN divs' = {} /\ divs' \in Seq({}) BY <1>2
    <2> QED BY <1>2, <2>1 DEF DivsInv, DiversionsUnique, Recorded
  <1>3. ASSUME NEW rec, divs' = Append(divs, rec), \A i \in DOMAIN divs : divs[i].from # rec.from
        PROVE  DivsInv' /\ (Recorded => Recorded')
    <2>1. PICK S : divs \in Seq(S) BY DEF DivsInv
    <2>2. PICK S1 : S1 = S \cup {rec} OBVIOUS
    <2>3. divs \in Seq(S1) /\ rec \in S1 BY <2>1, <2>2
    <2>4. divs' \in Seq(S1) BY <1>3, <2>3
    <2>5. Len(divs) \in Nat /\ DOMAIN divs = 1 .. Len(divs) /\ DOMAIN divs' = 1 .. Len(divs) + 1
      BY <1>3, <2>3
    <2>6. \A i \in DOMAIN divs : divs'[i] = divs[i] BY <1>3, <2>3
    <2>7. divs'[Len(divs) + 1] = rec BY <1>3, <2>3
    <2>8. DiversionsUnique'
      <3>1. SUFFICES ASSUME NEW i \in DOMAIN divs', NEW j \in DOMAIN divs', divs'[i].from = divs'[j].from
                     PROVE  i = j
        BY DEF DiversionsUnique
      <3>2. \A k \in DOMAIN divs' : k \in DOMAIN divs \/ k = Len(divs) + 1 BY <2>5
      <3>3. CASE i \in DOMAIN divs /\ j \in DOMAIN divs
        BY <2>6, <3>1, <3>3 DEF DivsInv, DiversionsUnique
      <3>4. CASE i \in DOMAIN divs /\ j = Len(divs) + 1 BY <1>3, <2>6, <2>7, <3>1, <3>4
      <3>5. CASE j \in DOMAIN divs /\ i = Len(divs) + 1 BY <1>3, <2>6, <2>7, <3>1, <3>5
      <3> QED BY <3>2, <3>3, <3>4, <3>5
    <2>9. DOMAIN divs \subseteq DOMAIN divs' BY <2>5
    <2>10. ToSet(divs) \subseteq ToSet(divs') BY <2>6, <2>9 DEF ToSet
    <2> QED BY <2>4, <2>8, <2>10 DEF DivsInv, Recorded
  <1> QED BY <1>1, <1>2, <1>3 DEF DivsMove

LEMMA EffectsKept ==
    ASSUME Scripted, DivsInv, DivsMove, EffectsInv, RootMoves, fired \subseteq fired',
           \A q \in Debs : regd'[q] = "installed" => regd[q] = "installed"
    PROVE  EffectsInv'
  <1>1. SUFFICES ASSUME NEW q \in Debs, regd'[q] = "installed", <<"info", q>> \notin lost'
                 PROVE  /\ \A p \in Promised[q] : InPlace(p)'
                        /\ q = "libc6" => Recorded' /\ "libc-upgrade" \in fired'
    BY DEF EffectsInv
  <1>2. lost \subseteq lost' BY DEF RootMoves
  <1>3. regd[q] = "installed" /\ <<"info", q>> \notin lost BY <1>1, <1>2
  <1>4. ASSUME NEW p \in Promised[q] PROVE InPlace(p)'
    <2>1. p \in Paths /\ p # Lib64 BY Zenon DEF Scripted
    <2>2. InPlace(p) BY <1>3, Zenon DEF EffectsInv
    <2> QED BY <2>1, <2>2, PlaceKept
  <1>5. q = "libc6" => Recorded' /\ "libc-upgrade" \in fired' BY <1>2, <1>3, DivsKept DEF EffectsInv
  <1> QED BY <1>4, <1>5

\* A step that leaves the database alone keeps all but the command.
LEMMA PlainKeeps ==
    ASSUME Archived, Linked, Scripted, ScriptsInv, Plain
    PROVE  TreeInv' /\ DivsInv' /\ ListsInv' /\ EffectsInv'
  <1>0. TreeInv /\ DivsInv /\ ListsInv /\ EffectsInv BY DEF ScriptsInv
  <1>1. RootMoves /\ DivsMove /\ fired \subseteq fired' /\ lost \subseteq lost' /\ menu' = menu
        /\ lists' = lists /\ info' = info /\ regd' = regd
    BY DEF Plain, RootMoves
  <1>2. TreeInv' BY <1>0, <1>1, TreeKept
  <1>3. DivsInv' BY <1>0, <1>1, DivsKept
  <1>4. EffectsInv' BY <1>0, <1>1, EffectsKept
  <1>5. ASSUME NEW q \in Debs, NEW i \in DOMAIN Payloads[q], IsLinkEntry(q, i), regd[q] # "none",
               Payloads[q][i].path \in lists[q]
        PROVE  Held(Payloads[q][i])'
    <2>1. Held(Payloads[q][i]) BY <1>0, <1>5 DEF ListsInv
    <2> QED BY <1>1, <1>5, <2>1, HeldKept
  <1>6. ListsInv' BY <1>0, <1>1, <1>5 DEF ListsInv
  <1> QED BY <1>2, <1>3, <1>4, <1>6

------------------------------------------------------------------------------
(* The command in progress                                                   *)

LEMMA TailIs ==
    ASSUME NEW S, NEW s \in Seq(S), Len(s) >= 1
    PROVE  /\ Tail(s) \in Seq(S) /\ Len(Tail(s)) = Len(s) - 1 /\ Len(s) \in Nat
           /\ \A i \in 1 .. Len(s) - 1 : Tail(s)[i] = s[i + 1]
           /\ Head(s) = s[1]
  OBVIOUS

LEMMA SmallCases == \A n \in Nat : n >= 1 => /\ n >= 4 \/ n = 3 \/ n = 2 \/ n = 1
                                             /\ n >= 2 \/ n = 1
  OBVIOUS

\* Two sequences of steps one after the other.
LEMMA Joined ==
    ASSUME NEW S, NEW T, NEW a \in Seq(S), NEW b \in Seq(T)
    PROVE  /\ a \o b \in Seq(S \cup T) /\ Len(a \o b) = Len(a) + Len(b)
           /\ Len(a) \in Nat /\ Len(b) \in Nat
           /\ \A i \in 1 .. Len(a) : (a \o b)[i] = a[i]
           /\ \A i \in 1 .. Len(b) : (a \o b)[Len(a) + i] = b[i]
  <1>1. PICK U : U = S \cup T OBVIOUS
  <1>2. a \in Seq(U) /\ b \in Seq(U) BY <1>1
  <1>3. a \o b \in Seq(U) /\ Len(a \o b) = Len(a) + Len(b) BY <1>2
  <1>4. Len(a) \in Nat /\ Len(b) \in Nat OBVIOUS
  <1>5. \A i \in 1 .. Len(a) : (a \o b)[i] = a[i] BY <1>2
  <1>6. ASSUME NEW i \in 1 .. Len(b) PROVE (a \o b)[Len(a) + i] = b[i]
    <2>1. Len(a) + i \in 1 .. Len(a) + Len(b) /\ Len(a) + i > Len(a) /\ Len(a) + i - Len(a) = i BY <1>4
    <2> QED BY <1>2, <2>1
  <1> QED BY <1>1, <1>3, <1>4, <1>5, <1>6

\* all steps of st are of a kind
LEMMA FunSeq ==
    ASSUME NEW n \in Nat, NEW S, NEW f \in [1 .. n -> S]
    PROVE  f \in Seq(S) /\ Len(f) = n
  <1>1. f \in Seq(S) BY SeqDef
  <1>2. DOMAIN f = 1 .. n OBVIOUS
  <1> QED BY <1>1, <1>2, LenProperties

PreSeq(st) == \E S : st \in Seq(S) /\ \A s \in S : PreStep(s)
PostSeq(st) == \E S : st \in Seq(S) /\ \A s \in S : PostStep(s)

LEMMA JoinedPre ==
    ASSUME NEW a, NEW b, PreSeq(a), PreSeq(b)
    PROVE  PreSeq(a \o b)
  <1>1. PICK S : a \in Seq(S) /\ \A s \in S : PreStep(s) BY DEF PreSeq
  <1>2. PICK T : b \in Seq(T) /\ \A s \in T : PreStep(s) BY DEF PreSeq
  <1>3. PICK U : U = S \cup T OBVIOUS
  <1>4. a \o b \in Seq(U) BY <1>1, <1>2, <1>3, Joined
  <1>5. \A s \in U : PreStep(s) BY <1>1, <1>2, <1>3
  <1> QED BY <1>4, <1>5 DEF PreSeq

LEMMA JoinedPost ==
    ASSUME NEW a, NEW b, PostSeq(a), PostSeq(b)
    PROVE  PostSeq(a \o b)
  <1>1. PICK S : a \in Seq(S) /\ \A s \in S : PostStep(s) BY DEF PostSeq
  <1>2. PICK T : b \in Seq(T) /\ \A s \in T : PostStep(s) BY DEF PostSeq
  <1>3. PICK U : U = S \cup T OBVIOUS
  <1>4. a \o b \in Seq(U) BY <1>1, <1>2, <1>3, Joined
  <1>5. \A s \in U : PostStep(s) BY <1>1, <1>2, <1>3
  <1> QED BY <1>4, <1>5 DEF PostSeq

LEMMA FunPre ==
    ASSUME NEW n \in Nat, NEW f, f = [i \in 1 .. n |-> f[i]], \A i \in 1 .. n : PreStep(f[i])
    PROVE  PreSeq(f)
  <1>1. PICK S : S = {f[i] : i \in 1 .. n} OBVIOUS
  <1>2. f \in [1 .. n -> S] BY <1>1
  <1>3. f \in Seq(S) BY <1>2, FunSeq
  <1>4. \A s \in S : PreStep(s) BY <1>1, Zenon
  <1> QED BY <1>3, <1>4, Zenon DEF PreSeq

LEMMA FunPost ==
    ASSUME NEW n \in Nat, NEW f, f = [i \in 1 .. n |-> f[i]], \A i \in 1 .. n : PostStep(f[i])
    PROVE  PostSeq(f)
  <1>1. PICK S : S = {f[i] : i \in 1 .. n} OBVIOUS
  <1>2. f \in [1 .. n -> S] BY <1>1
  <1>3. f \in Seq(S) BY <1>2, FunSeq
  <1>4. \A s \in S : PostStep(s) BY <1>1, Zenon
  <1> QED BY <1>3, <1>4, Zenon DEF PostSeq

LEMMA FewSteps ==
    /\ PreSeq(<< >>) /\ PostSeq(<< >>)
    /\ \A a : PreStep(a) => PreSeq(<<a>>)
    /\ \A a : PostStep(a) => PostSeq(<<a>>)
  <1>1. PreSeq(<< >>) /\ PostSeq(<< >>)
    <2>1. PICK S : S = {} OBVIOUS
    <2>2. << >> \in Seq(S) OBVIOUS
    <2>3. \A s \in S : PreStep(s) /\ PostStep(s) BY <2>1, Zenon
    <2> QED BY <2>2, <2>3, Zenon DEF PreSeq, PostSeq
  <1>2. ASSUME NEW a, NEW S, a \in S PROVE <<a>> \in Seq(S) BY <1>2
  <1>3. ASSUME NEW a, PreStep(a) PROVE PreSeq(<<a>>)
    <2>0. PICK S : S = {a} OBVIOUS
    <2>1. S = {a} /\ <<a>> \in Seq(S) BY <1>2, <2>0
    <2>2. \A s \in S : PreStep(s) BY <1>3, <2>1, Zenon
    <2> QED BY <2>1, <2>2, Zenon DEF PreSeq
  <1>4. ASSUME NEW a, PostStep(a) PROVE PostSeq(<<a>>)
    <2>0. PICK S : S = {a} OBVIOUS
    <2>1. S = {a} /\ <<a>> \in Seq(S) BY <1>2, <2>0
    <2>2. \A s \in S : PostStep(s) BY <1>4, <2>1, Zenon
    <2> QED BY <2>1, <2>2, Zenon DEF PostSeq
  <1> QED BY <1>1, <1>3, <1>4

LEMMA TwoSteps ==
    ASSUME NEW a, NEW b
    PROVE  /\ PreStep(a) /\ PreStep(b) => PreSeq(<<a, b>>)
           /\ PostStep(a) /\ PostStep(b) => PostSeq(<<a, b>>)
  <1>1. PICK S : S = {a, b} OBVIOUS
  <1>2. ASSUME NEW T, a \in T, b \in T PROVE <<a, b>> \in Seq(T) BY <1>2
  <1>3. <<a, b>> \in Seq(S) BY <1>1, <1>2
  <1>4. PreStep(a) /\ PreStep(b) => \A s \in S : PreStep(s) BY <1>1, Zenon
  <1>5. PostStep(a) /\ PostStep(b) => \A s \in S : PostStep(s) BY <1>1, Zenon
  <1> QED BY <1>3, <1>4, <1>5, Zenon DEF PreSeq, PostSeq

\* The step at the head of a command says how far the command is.
LEMMA HeadPhase ==
    ASSUME WorkInv, work # NoWork, NEW s, s = Head(work.steps)
    PROVE  /\ work.pkg \in Debs
           /\ \/ Installing(work) /\ Len(work.steps) >= 4 /\ (PreStep(s) \/ PayStep(work.pkg, s))
              \/ Installing(work) /\ s.op = "list" /\ Len(work.steps) = 3
              \/ Installing(work) /\ s.op = "control" /\ Len(work.steps) = 2
              \/ Installing(work) /\ s.op = "stanza" /\ Len(work.steps) = 1
              \/ Configuring(work) /\ Len(work.steps) >= 2 /\ PostStep(s)
              \/ Configuring(work) /\ s.op = "installed" /\ Len(work.steps) = 1
  <1>1. PICK st : st = work.steps OBVIOUS
  <1>2. PICK S : st \in Seq(S) /\ Len(st) >= 1 /\ work.pkg \in Debs BY <1>1 DEF WorkInv
  <1>3. Len(st) \in Nat /\ s = st[1] BY <1>1, <1>2, TailIs
  <1>31. Len(st) \in Nat /\ Len(st) >= 1 BY <1>2, <1>3
  <1>4. CASE Installing(work)
    <2>1. InstallRest(work.pkg, st) BY <1>1, <1>4 DEF Installing
    <2>2. CASE Len(st) >= 4
      <3>1. 1 \in 1 .. Len(st) - 3 BY <1>3, <2>2
      <3> QED BY <1>1, <1>2, <1>3, <1>4, <2>1, <2>2, <3>1 DEF InstallRest
    <2>3. CASE Len(st) = 3 BY <1>1, <1>2, <1>3, <1>4, <2>1, <2>3 DEF InstallRest
    <2>4. CASE Len(st) = 2 BY <1>1, <1>2, <1>3, <1>4, <2>1, <2>4 DEF InstallRest
    <2>5. CASE Len(st) = 1 BY <1>1, <1>2, <1>3, <1>4, <2>1, <2>5 DEF InstallRest
    <2>6. Len(st) >= 4 \/ Len(st) = 3 \/ Len(st) = 2 \/ Len(st) = 1 BY <1>31, SmallCases, Zenon
    <2> QED BY <2>2, <2>3, <2>4, <2>5, <2>6
  <1>5. CASE Configuring(work)
    <2>1. ConfigureRest(st) BY <1>1, <1>5 DEF Configuring
    <2>2. CASE Len(st) >= 2
      <3>1. 1 \in 1 .. Len(st) - 1 BY <1>3, <2>2
      <3> QED BY <1>1, <1>2, <1>3, <1>5, <2>1, <2>2, <3>1 DEF ConfigureRest
    <2>3. CASE Len(st) = 1 BY <1>1, <1>2, <1>3, <1>5, <2>1, <2>3 DEF ConfigureRest
    <2>4. Len(st) >= 2 \/ Len(st) = 1 BY <1>31, SmallCases, Zenon
    <2> QED BY <2>2, <2>3, <2>4
  <1> QED BY <1>4, <1>5 DEF WorkInv

\* the rest of a command once its head is done
Advances(L) == work' = [work EXCEPT !.steps = Tail(@), !.list = @ \cup L]

LEMMA WorkAdvances ==
    ASSUME WorkInv, work # NoWork, NEW L, Advances(L)
    PROVE  /\ work' = [pkg |-> work'.pkg, steps |-> work'.steps, list |-> work'.list]
           /\ work'.pkg = work.pkg /\ work'.steps = Tail(work.steps) /\ work'.list = work.list \cup L
  <1>1. work = [pkg |-> work.pkg, steps |-> work.steps, list |-> work.list] BY DEF WorkInv
  <1>2. PICK p, st, l : work = [pkg |-> p, steps |-> st, list |-> l] BY <1>1
  <1>3. work' = [pkg |-> p, steps |-> Tail(st), list |-> l \cup L] BY <1>2 DEF Advances
  <1> QED BY <1>2, <1>3

LEMMA DoneAdvances ==
    ASSUME WorkInv, work # NoWork, Done
    PROVE  Advances({})
  <1>1. PICK p, st, l : work = [pkg |-> p, steps |-> st, list |-> l] BY DEF WorkInv
  <1>2. work' = [pkg |-> p, steps |-> Tail(st), list |-> l] BY <1>1 DEF Done
  <1>3. PICK t, k : t = Tail(st) /\ k = l \cup {} OBVIOUS
  <1>4. k = l BY <1>3
  <1>5. [work EXCEPT !.steps = t, !.list = k] = [pkg |-> p, steps |-> t, list |-> k]
    <2>1. PICK w : w = [work EXCEPT !.steps = t, !.list = k] OBVIOUS
    <2>2. w = [pkg |-> p, steps |-> t, list |-> k] BY <1>1, <2>1
    <2> QED BY <2>1, <2>2
  <1>6. work.steps = st /\ work.list = l BY <1>1
  <1> QED BY <1>2, <1>3, <1>4, <1>5, <1>6, Zenon DEF Advances

\* the rest of an install is one
LEMMA RestShorter ==
    ASSUME NEW q, NEW S, NEW st \in Seq(S), Len(st) >= 2, InstallRest(q, st)
    PROVE  InstallRest(q, Tail(st))
  <1>1. PICK t, n : t = Tail(st) /\ n = Len(st) OBVIOUS
  <1>2. n \in Nat /\ n >= 2 /\ Len(t) = n - 1 /\ \A i \in 1 .. n - 1 : t[i] = st[i + 1] BY <1>1, TailIs
  <1>3. t[n - 1] = st[n] BY <1>2
  <1>4. n >= 3 => t[n - 2] = st[n - 1] BY <1>2
  <1>5. n >= 4 => t[n - 3] = st[n - 2] BY <1>2
  <1>6. ASSUME NEW i \in 1 .. n - 4 PROVE t[i] = st[i + 1] /\ i + 1 \in 1 .. n - 3 BY <1>2
  <1>7. t[Len(t)].op = "stanza" BY <1>1, <1>2, <1>3 DEF InstallRest
  <1>8. Len(t) >= 2 => t[Len(t) - 1].op = "control" BY <1>1, <1>2, <1>4 DEF InstallRest
  <1>9. Len(t) >= 3 => t[Len(t) - 2].op = "list" BY <1>1, <1>2, <1>5 DEF InstallRest
  <1>10. \A i \in 1 .. Len(t) - 3 : PreStep(t[i]) \/ PayStep(q, t[i])
    <2>1. ASSUME NEW i \in 1 .. Len(t) - 3 PROVE PreStep(t[i]) \/ PayStep(q, t[i])
      <3>1. i \in 1 .. n - 4 BY <1>2, <2>1
      <3>2. t[i] = st[i + 1] /\ i + 1 \in 1 .. Len(st) - 3 BY <1>1, <1>6, <3>1
      <3> QED BY <3>2 DEF InstallRest
    <2> QED BY <2>1
  <1> QED BY <1>1, <1>7, <1>8, <1>9, <1>10 DEF InstallRest

\* An install goes on: what is new on its list is in place.
LEMMA InstallGoesOn ==
    ASSUME Archived, Linked, WorkInv, work # NoWork, Installing(work), Len(work.steps) >= 4, Plain,
           NEW L, Advances(L), NEW q, q = work.pkg,
           \A i \in DOMAIN Payloads[q] : IsLinkEntry(q, i) /\ Payloads[q][i].path \in L => Held(Payloads[q][i])'
    PROVE  WorkInv'
  <1>1. PICK st : st = work.steps OBVIOUS
  <1>2. PICK S : st \in Seq(S) /\ Len(st) >= 4 /\ q \in Debs BY <1>1 DEF WorkInv
  <1>3. /\ work' = [pkg |-> work'.pkg, steps |-> work'.steps, list |-> work'.list]
        /\ work'.pkg = q /\ work'.steps = Tail(st) /\ work'.list = work.list \cup L
    BY <1>1, WorkAdvances
  <1>4. /\ Tail(st) \in Seq(S) /\ Len(Tail(st)) = Len(st) - 1 /\ Len(st) \in Nat
    BY <1>2, TailIs
  <1>5. InstallRest(q, Tail(st)) BY <1>1, <1>2, RestShorter DEF Installing
  <1>6. ASSUME NEW i \in DOMAIN Payloads[q], IsLinkEntry(q, i), Payloads[q][i].path \in work.list \cup L
        PROVE  Held(Payloads[q][i])'
    <2>1. CASE Payloads[q][i].path \in L BY <1>1, <1>6, <2>1
    <2>2. CASE Payloads[q][i].path \in work.list
      <3>1. Held(Payloads[q][i]) BY <1>1, <1>6, <2>2 DEF Installing
      <3> QED BY <1>1, <1>2, <1>6, <3>1, HeldKept DEF Plain
    <2> QED BY <1>6, <2>1, <2>2
  <1>7. Installing(work)' BY <1>2, <1>3, <1>4, <1>5, <1>6 DEF Installing
  <1> QED BY <1>2, <1>3, <1>4, <1>7 DEF WorkInv

\* A postinst goes on: its step has seen to what it makes.
LEMMA ConfigureGoesOn ==
    ASSUME Scripted, DivsInv, WorkInv, work # NoWork, Configuring(work), Len(work.steps) >= 2, Plain, Advances({}),
           NEW s, s = Head(work.steps), ~Refuses(s),
           \A p \in Paths : Makes(s, p) => InPlace(p)',
           s.op = "trigger" => s.v \in fired'
    PROVE  WorkInv'
  <1>1. PICK q, st, n : q = work.pkg /\ st = work.steps /\ n = Len(st) OBVIOUS
  <1>2. PICK S : st \in Seq(S) /\ n >= 2 /\ q \in Debs BY <1>1 DEF WorkInv
  <1>3. PICK t : t = Tail(st) OBVIOUS
  <1>4. /\ work' = [pkg |-> work'.pkg, steps |-> work'.steps, list |-> work'.list]
        /\ work'.pkg = q /\ work'.steps = t
    BY <1>1, <1>3, WorkAdvances
  <1>5. /\ t \in Seq(S) /\ Len(t) = n - 1 /\ n \in Nat /\ s = st[1]
        /\ \A i \in 1 .. n - 1 : t[i] = st[i + 1]
    BY <1>1, <1>2, <1>3, TailIs
  <1>6. ConfigureRest(st) /\ regd[q] # "none" BY <1>1 DEF Configuring
  <1>7. t[Len(t)].op = "installed"
    <2>1. t[n - 1] = st[n] BY <1>2, <1>5
    <2> QED BY <1>1, <1>5, <1>6, <2>1 DEF ConfigureRest
  <1>8. ConfigureRest(t)
    <2>1. ASSUME NEW i \in 1 .. Len(t) - 1 PROVE PostStep(t[i])
      <3>1. t[i] = st[i + 1] /\ i + 1 \in 1 .. Len(st) - 1 BY <1>1, <1>2, <1>5, <2>1
      <3> QED BY <1>6, <3>1 DEF ConfigureRest
    <2> QED BY <1>7, <2>1 DEF ConfigureRest
  <1>9. ASSUME NEW i \in 1 .. n - 1 PROVE st[i] = s \/ \E j \in 1 .. Len(t) - 1 : t[j] = st[i]
    <2>1. CASE i = 1 BY <1>5, <2>1
    <2>2. CASE i # 1
      <3>1. i - 1 \in 1 .. n - 2 BY <1>5, <1>9, <2>2
      <3>2. t[i - 1] = st[i] /\ i - 1 \in 1 .. Len(t) - 1 BY <1>5, <3>1
      <3> QED BY <3>2
    <2> QED BY <2>1, <2>2
  <1>10. lost \subseteq lost' /\ RootMoves /\ DivsMove /\ fired \subseteq fired' BY DEF Plain, RootMoves
  <1>11. ASSUME <<"info", q>> \notin lost', NEW p \in Promised[q]
         PROVE  InPlace(p)' \/ \E j \in 1 .. Len(t) - 1 : Makes(t[j], p) \/ Refuses(t[j])
    <2>1. p \in Paths /\ p # Lib64 BY <1>2, Zenon DEF Scripted
    <2>2. <<"info", q>> \notin lost BY <1>10, <1>11
    <2>3. InPlace(p) \/ \E i \in 1 .. n - 1 : Makes(st[i], p) \/ Refuses(st[i])
      BY <1>1, <1>11, <2>2 DEF Configuring
    <2>4. CASE InPlace(p) BY <1>10, <2>1, <2>4, PlaceKept
    <2>5. ASSUME NEW i \in 1 .. n - 1, Makes(st[i], p) \/ Refuses(st[i])
          PROVE  InPlace(p)' \/ \E j \in 1 .. Len(t) - 1 : Makes(t[j], p) \/ Refuses(t[j])
      <3>1. CASE st[i] = s BY <2>1, <2>5, <3>1
      <3>2. CASE \E j \in 1 .. Len(t) - 1 : t[j] = st[i] BY <2>5, <3>2
      <3> QED BY <1>9, <3>1, <3>2
    <2> QED BY <2>3, <2>4, <2>5
  <1>12. ASSUME <<"info", q>> \notin lost', q = "libc6"
         PROVE  /\ Recorded'
                /\ \/ "libc-upgrade" \in fired'
                   \/ \E j \in 1 .. Len(t) - 1 :
                        (t[j].op = "trigger" /\ t[j].v = "libc-upgrade") \/ Refuses(t[j])
    <2>1. <<"info", q>> \notin lost BY <1>10, <1>12
    <2>2. /\ Recorded
          /\ \/ "libc-upgrade" \in fired
             \/ \E i \in 1 .. n - 1 : (st[i].op = "trigger" /\ st[i].v = "libc-upgrade") \/ Refuses(st[i])
      BY <1>1, <1>12, <2>1 DEF Configuring
    <2>3. Recorded' BY <1>10, <2>2, DivsKept
    <2>4. ASSUME NEW i \in 1 .. n - 1, (st[i].op = "trigger" /\ st[i].v = "libc-upgrade") \/ Refuses(st[i])
          PROVE  \/ "libc-upgrade" \in fired'
                 \/ \E j \in 1 .. Len(t) - 1 :
                      (t[j].op = "trigger" /\ t[j].v = "libc-upgrade") \/ Refuses(t[j])
      <3>1. CASE st[i] = s BY <2>4, <3>1
      <3>2. CASE \E j \in 1 .. Len(t) - 1 : t[j] = st[i] BY <2>4, <3>2
      <3> QED BY <1>9, <3>1, <3>2
    <2> QED BY <1>10, <2>2, <2>3, <2>4
  <1>13. regd'[q] # "none" BY <1>6 DEF Plain
  <1>14. Configuring(work)' BY <1>4, <1>8, <1>11, <1>12, <1>13, Zenon DEF Configuring
  <1> QED BY <1>2, <1>4, <1>5, <1>14 DEF WorkInv

\* Positions in a sequence of N = m + n - 1 elements, m put before n - 1.
LEMMA LastIndex ==
    ASSUME NEW m \in Nat, NEW n \in Nat, NEW N, n >= 2, N = m + n - 1
    PROVE  n - 1 \in 1 .. n - 1 /\ m + (n - 1) = N /\ (n - 1) + 1 = n
  OBVIOUS

LEMMA InnerIndex ==
    ASSUME NEW m \in Nat, NEW n \in Nat, NEW N, NEW i \in 1 .. n - 1, NEW k,
           N = m + n - 1, i # 1, k = i - 1
    PROVE  k \in 1 .. n - 1 /\ k + 1 = i /\ m + k \in 1 .. N - 1
  OBVIOUS

\* A postinst goes on with the lines of a recipe.
LEMMA ConfigureExpands ==
    ASSUME Scripted, DivsInv, WorkInv, work # NoWork, Configuring(work), Len(work.steps) >= 2, Plain,
           NEW ops, PostSeq(ops), work' = [work EXCEPT !.steps = ops \o Tail(@)],
           NEW s, s = Head(work.steps), s.op = "recipe",
           \A p \in Paths : Makes(s, p) =>
               InPlace(p)' \/ \E i \in DOMAIN ops : Makes(ops[i], p) \/ Refuses(ops[i])
    PROVE  WorkInv'
  <1>1. PICK q, st, n : q = work.pkg /\ st = work.steps /\ n = Len(st) OBVIOUS
  <1>2. PICK S : st \in Seq(S) /\ n >= 2 /\ q \in Debs BY <1>1 DEF WorkInv
  <1>3. PICK u : u = Tail(st) OBVIOUS
  <1>4. /\ u \in Seq(S) /\ Len(u) = n - 1 /\ n \in Nat /\ s = st[1]
        /\ \A i \in 1 .. n - 1 : u[i] = st[i + 1]
    BY <1>1, <1>2, <1>3, TailIs
  <1>5. PICK T : ops \in Seq(T) /\ \A o \in T : PostStep(o) BY DEF PostSeq
  <1>6. PICK t, m : t = ops \o u /\ m = Len(ops) OBVIOUS
  <1>7. /\ t \in Seq(T \cup S) /\ Len(t) = m + Len(u) /\ m \in Nat
        /\ \A i \in 1 .. m : t[i] = ops[i]
        /\ \A i \in 1 .. Len(u) : t[m + i] = u[i]
    <2>1. /\ ops \o u \in Seq(T \cup S) /\ Len(ops \o u) = Len(ops) + Len(u) /\ Len(ops) \in Nat
          /\ \A i \in 1 .. Len(ops) : (ops \o u)[i] = ops[i]
          /\ \A i \in 1 .. Len(u) : (ops \o u)[Len(ops) + i] = u[i]
      <3>1. ops \in Seq(T) /\ u \in Seq(S) BY <1>4, <1>5, Zenon
      <3> QED BY <3>1, Joined
    <2> QED BY <1>6, <2>1, Zenon
  <1>8. /\ work' = [pkg |-> work'.pkg, steps |-> work'.steps, list |-> work'.list]
        /\ work'.pkg = q /\ work'.steps = t
    <2>1. PICK p, x, l : work = [pkg |-> p, steps |-> x, list |-> l] BY DEF WorkInv
    <2>2. p = q /\ x = st BY <1>1, <2>1
    <2>3. [work EXCEPT !.steps = t] = [pkg |-> p, steps |-> t, list |-> l]
      <3>1. PICK w : w = [work EXCEPT !.steps = t] OBVIOUS
      <3>2. w = [pkg |-> p, steps |-> t, list |-> l] BY <2>1, <3>1
      <3> QED BY <3>1, <3>2
    <2>4. work' = [pkg |-> p, steps |-> t, list |-> l] BY <1>1, <1>3, <1>6, <2>3, Zenon
    <2>5. work'.pkg = p /\ work'.steps = t /\ work'.list = l BY <2>4
    <2> QED BY <2>2, <2>4, <2>5, Zenon
  <1>9. Len(t) = m + n - 1 /\ Len(t) >= 1 /\ \A i \in 1 .. n - 1 : t[m + i] = st[i + 1]
    <2>1. Len(t) = m + n - 1 /\ Len(t) >= 1 BY <1>2, <1>4, <1>7
    <2>2. \A i \in 1 .. n - 1 : t[m + i] = u[i] BY <1>4, <1>7
    <2> QED BY <1>4, <2>1, <2>2
  <1>90. PICK N : N = Len(t) OBVIOUS
  <1>91. m \in Nat /\ n \in Nat /\ n >= 2 /\ N = m + n - 1 BY <1>2, <1>4, <1>7, <1>9, <1>90, Zenon
  <1>10. ConfigureRest(st) /\ regd[q] # "none" BY <1>1 DEF Configuring
  <1>11. t[Len(t)].op = "installed"
    <2>1. n - 1 \in 1 .. n - 1 /\ m + (n - 1) = N /\ (n - 1) + 1 = n BY <1>91, LastIndex
    <2>2. t[N] = st[n] BY <1>9, <2>1, Zenon
    <2> QED BY <1>1, <1>10, <1>90, <2>2 DEF ConfigureRest
  <1>12. ASSUME NEW i \in 1 .. Len(t) - 1 PROVE PostStep(t[i])
    <2>1. CASE i \in 1 .. m
      <3>1. ops[i] \in T BY <1>5, <1>6, <2>1
      <3> QED BY <1>5, <1>7, <2>1, <3>1
    <2>2. CASE i \notin 1 .. m
      <3>1. PICK k : k = i - m OBVIOUS
      <3>0. i \in 1 .. N - 1 BY <1>12, <1>90, Zenon
      <3>2. k \in 1 .. n - 2 /\ m + k = i BY <1>91, <2>2, <3>0, <3>1
      <3>3. k \in 1 .. n - 1 /\ k + 1 \in 1 .. n - 1 BY <1>91, <3>2
      <3>4. t[i] = st[k + 1] BY <1>9, <3>2, <3>3
      <3> QED BY <1>1, <1>10, <3>3, <3>4 DEF ConfigureRest
    <2> QED BY <2>1, <2>2
  <1>13. ConfigureRest(t) BY <1>11, <1>12 DEF ConfigureRest
  <1>14. ASSUME NEW i \in 1 .. n - 1 PROVE st[i] = s \/ \E j \in 1 .. Len(t) - 1 : t[j] = st[i]
    <2>1. CASE i = 1 BY <1>4, <2>1
    <2>2. CASE i # 1
      <3>1. PICK k : k = i - 1 OBVIOUS
      <3>2. k \in 1 .. n - 1 /\ k + 1 = i /\ m + k \in 1 .. N - 1
        BY <1>14, <1>91, <2>2, <3>1, InnerIndex
      <3> QED BY <1>9, <1>90, <3>2, Zenon
    <2> QED BY <2>1, <2>2
  <1>15. lost \subseteq lost' /\ RootMoves /\ DivsMove /\ fired \subseteq fired' BY DEF Plain, RootMoves
  <1>16. ASSUME <<"info", q>> \notin lost', NEW p \in Promised[q]
         PROVE  InPlace(p)' \/ \E j \in 1 .. Len(t) - 1 : Makes(t[j], p) \/ Refuses(t[j])
    <2>1. p \in Paths /\ p # Lib64 BY <1>2, Zenon DEF Scripted
    <2>2. <<"info", q>> \notin lost BY <1>15, <1>16
    <2>3. InPlace(p) \/ \E i \in 1 .. n - 1 : Makes(st[i], p) \/ Refuses(st[i])
      BY <1>1, <1>16, <2>2 DEF Configuring
    <2>4. CASE InPlace(p) BY <1>15, <2>1, <2>4, PlaceKept
    <2>5. ASSUME NEW i \in 1 .. n - 1, Makes(st[i], p) \/ Refuses(st[i])
          PROVE  InPlace(p)' \/ \E j \in 1 .. Len(t) - 1 : Makes(t[j], p) \/ Refuses(t[j])
      <3>1. CASE st[i] = s
        <4>1. Makes(s, p) BY <2>5, <3>1 DEF Refuses
        <4>2. ASSUME NEW k \in DOMAIN ops, Makes(ops[k], p) \/ Refuses(ops[k])
              PROVE  \E j \in 1 .. Len(t) - 1 : Makes(t[j], p) \/ Refuses(t[j])
          <5>1. k \in 1 .. m BY <1>5, <1>6, <4>2
          <5>2. t[k] = ops[k] BY <1>7, <5>1
          <5>3. k \in 1 .. N - 1 BY <1>91, <5>1
          <5> QED BY <1>90, <4>2, <5>2, <5>3
        <4> QED BY <2>1, <4>1, <4>2
      <3>2. CASE \E j \in 1 .. Len(t) - 1 : t[j] = st[i] BY <2>5, <3>2
      <3> QED BY <1>14, <3>1, <3>2
    <2> QED BY <2>3, <2>4, <2>5
  <1>17. ASSUME <<"info", q>> \notin lost', q = "libc6"
         PROVE  /\ Recorded'
                /\ \/ "libc-upgrade" \in fired'
                   \/ \E j \in 1 .. Len(t) - 1 :
                        (t[j].op = "trigger" /\ t[j].v = "libc-upgrade") \/ Refuses(t[j])
    <2>1. <<"info", q>> \notin lost BY <1>15, <1>17
    <2>2. /\ Recorded
          /\ \/ "libc-upgrade" \in fired
             \/ \E i \in 1 .. n - 1 : (st[i].op = "trigger" /\ st[i].v = "libc-upgrade") \/ Refuses(st[i])
      BY <1>1, <1>17, <2>1 DEF Configuring
    <2>3. Recorded' BY <1>15, <2>2, DivsKept
    <2>4. ASSUME NEW i \in 1 .. n - 1, (st[i].op = "trigger" /\ st[i].v = "libc-upgrade") \/ Refuses(st[i])
          PROVE  \E j \in 1 .. Len(t) - 1 : (t[j].op = "trigger" /\ t[j].v = "libc-upgrade") \/ Refuses(t[j])
      <3>1. st[i] # s BY <2>4 DEF Refuses
      <3> QED BY <1>14, <2>4, <3>1
    <2> QED BY <1>15, <2>2, <2>3, <2>4
  <1>18. regd'[q] # "none" BY <1>10 DEF Plain
  <1>19. Configuring(work)' BY <1>8, <1>13, <1>16, <1>17, <1>18, Zenon DEF Configuring
  <1>20. work'.pkg \in Debs /\ work'.steps \in Seq(T \cup S) /\ Len(work'.steps) >= 1
    BY <1>2, <1>7, <1>8, <1>9, Zenon
  <1> QED BY <1>8, <1>19, <1>20, Zenon DEF WorkInv

------------------------------------------------------------------------------
(* What a step leaves                                                        *)

\* A step that writes one node, when it is a move.
LEMMA OneNode ==
    ASSUME TreeInv, NEW p \in Paths, NEW n, root' = [root EXCEPT ![p] = n], lost \subseteq lost',
           root'[p] = n => NodeMoves(p)
    PROVE  RootMoves
  <1>1. DOMAIN root = Paths BY DEF TreeInv
  <1>2. DOMAIN root' = Paths /\ root'[p] = n /\ \A q \in Paths : q # p => root'[q] = root[q] BY <1>1
  <1>3. \A q \in Paths : NodeMoves(q)
    <2>1. ASSUME NEW q \in Paths PROVE NodeMoves(q)
      <3>1. CASE q = p BY <1>2, <3>1
      <3>2. CASE q # p BY <1>2, <3>2 DEF NodeMoves
      <3> QED BY <3>1, <3>2
    <2> QED BY <2>1
  <1> QED BY <1>2, <1>3 DEF RootMoves

LEMMA SameRoot ==
    ASSUME TreeInv, root' = root, lost \subseteq lost'
    PROVE  RootMoves
  BY DEF TreeInv, RootMoves, NodeMoves

LEMMA SameIsPlain ==
    ASSUME TreeInv, UNCHANGED <<root, divs, lists, info, regd, fired, lost>>, menu' = menu
    PROVE  Plain
  <1>1. RootMoves BY SameRoot
  <1> QED BY <1>1 DEF Plain, DivsMove

LEMMA GiveUpKeeps ==
    ASSUME Archived, Linked, Scripted, ScriptsInv, GiveUp, menu' = menu
    PROVE  ScriptsInv'
  <1>1. TreeInv BY DEF ScriptsInv
  <1>2. Plain BY <1>1, SameIsPlain DEF GiveUp
  <1>3. WorkInv' BY DEF GiveUp, Refused, WorkInv
  <1> QED BY <1>2, <1>3, PlainKeeps DEF ScriptsInv

\* A step of a preinst, or of an entry that is not unpacked, is done.
LEMMA PreinstKeeps ==
    ASSUME Archived, Linked, Scripted, ScriptsInv, work # NoWork, NEW s, s = Head(work.steps),
           s.op \in (PreOps \cup {"fifo"}) \ {"refuse"}, Plain, Done
    PROVE  ScriptsInv'
  <1>1. WorkInv BY DEF ScriptsInv
  <1>2. Advances({}) BY <1>1, DoneAdvances
  <1>3. s.op \notin ConfOps \cup {"list", "control", "stanza", "installed"}
    BY DEF PreOps, ConfOps, TemplateOps
  <1>4. Installing(work) /\ Len(work.steps) >= 4 BY <1>1, <1>3, HeadPhase DEF PostStep
  <1>5. PICK q : q = work.pkg OBVIOUS
  <1>6. WorkInv' BY <1>1, <1>2, <1>4, <1>5, InstallGoesOn
  <1> QED BY <1>6, PlainKeeps DEF ScriptsInv

\* An entry is unpacked and listed.
LEMMA PayloadKeeps ==
    ASSUME Archived, Linked, Scripted, ScriptsInv, work # NoWork, NEW s, s = Head(work.steps),
           s.op \in {"dir", "link", "file"}, Plain, Listed(s.path),
           s.op = "link" => root'[s.path] = LinkNode(s.v)
    PROVE  ScriptsInv'
  <1>1. WorkInv BY DEF ScriptsInv
  <1>2. Advances({s.path}) BY DEF Advances, Listed
  <1>3. s.op \notin ConfOps \cup {"list", "control", "stanza", "installed"} /\ s.op \in TarTypes
    BY DEF TarTypes, ConfOps, TemplateOps
  <1>4. Installing(work) /\ Len(work.steps) >= 4 /\ FromPayload(work.pkg, s) /\ work.pkg \in Debs
    BY <1>1, <1>3, HeadPhase DEF PostStep, PreStep, PayStep, PreOps
  <1>5. PICK q : q = work.pkg OBVIOUS
  <1>6. ASSUME NEW i \in DOMAIN Payloads[q], IsLinkEntry(q, i), Payloads[q][i].path \in {s.path}
        PROVE  Held(Payloads[q][i])'
    <2>1. PICK j \in DOMAIN Payloads[q] :
            Payloads[q][j].type = s.op /\ Payloads[q][j].path = s.path /\ Payloads[q][j].v = s.v
      BY <1>4, <1>5 DEF FromPayload
    <2>2. i = j BY <1>4, <1>5, <1>6, <2>1 DEF Archived
    <2>3. s.op = "link" BY <1>6, <2>1, <2>2 DEF IsLinkEntry
    <2>4. PICK e : e = Payloads[q][i] OBVIOUS
    <2>5. root'[e.path] = LinkNode(e.v) BY <2>1, <2>2, <2>3, <2>4
    <2> QED BY <2>4, <2>5 DEF Held
  <1>7. WorkInv' BY <1>1, <1>2, <1>4, <1>5, <1>6, InstallGoesOn
  <1> QED BY <1>7, PlainKeeps DEF ScriptsInv

\* A step of a postinst is done.
LEMMA PostinstKeeps ==
    ASSUME Archived, Linked, Scripted, ScriptsInv, work # NoWork, NEW s, s = Head(work.steps),
           s.op \in ConfOps \ {"refuse"}, Plain, Done,
           \A p \in Paths : Makes(s, p) => InPlace(p)',
           s.op = "trigger" => s.v \in fired'
    PROVE  ScriptsInv'
  <1>1. WorkInv /\ DivsInv BY DEF ScriptsInv
  <1>2. Advances({}) BY <1>1, DoneAdvances
  <1>3. s.op \notin PreOps \cup TarTypes \cup {"list", "control", "stanza", "installed"}
    BY DEF PreOps, TarTypes, ConfOps, TemplateOps
  <1>4. Configuring(work) /\ Len(work.steps) >= 2 BY <1>1, <1>3, HeadPhase DEF PreStep, PayStep
  <1>5. ~Refuses(s) BY DEF Refuses
  <1>6. WorkInv' BY <1>1, <1>2, <1>4, <1>5, ConfigureGoesOn
  <1> QED BY <1>6, PlainKeeps DEF ScriptsInv

------------------------------------------------------------------------------
(* The steps, one by one                                                     *)

LEMMA GoOnPlain ==
    ASSUME TreeInv, GoOn, menu' = menu
    PROVE  Plain /\ Done
  BY SameIsPlain DEF GoOn

LEMMA PutPlain ==
    ASSUME TreeInv, NEW p \in Paths, NEW n, Put(p, n), menu' = menu, root'[p] = n => NodeMoves(p)
    PROVE  Plain /\ Done /\ root'[p] = n
  <1>1. root' = [root EXCEPT ![p] = n] /\ lost' = lost /\ divs' = divs /\ lists' = lists /\ info' = info
        /\ regd' = regd /\ fired' = fired /\ Done
    BY DEF Put
  <1>2. RootMoves BY <1>1, OneNode
  <1>3. root'[p] = n BY <1>1 DEF TreeInv
  <1> QED BY <1>1, <1>2, <1>3 DEF Plain, DivsMove

\* After a file or directory was written at the end of p, p is there.
LEMMA FinalMade ==
    ASSUME TreeInv, NEW p \in Paths, Final(p) \in Paths, RootMoves,
           root'[Final(p)].kind \in {"file", "dir"}, Final(p) # p => root'[p] = root[p]
    PROVE  InPlace(p)'
  <1>1. CASE Final(p) = p BY <1>1 DEF InPlace, Present
  <1>2. CASE Final(p) # p
    <2>1. root[p].kind = "link" BY <1>2 DEF Final, IsLink
    <2> QED BY <1>2, <2>1 DEF InPlace, Present
  <1> QED BY <1>1, <1>2

LEMMA StatsMade ==
    ASSUME TreeInv, NEW p \in Paths, Stats(p), root'[p] = root[p]
    PROVE  InPlace(p)'
  BY DEF Stats, Final, IsLink, InPlace, Present

LEMMA PutAtEnd ==
    ASSUME TreeInv, NEW p \in Paths, Final(p) \in Paths, NEW n, n.kind \in {"file", "dir"},
           root[Final(p)].kind # "link", n.kind = "file" => n.v # << >> \/ n = root[Final(p)],
           Put(Final(p), n), menu' = menu
    PROVE  Plain /\ Done /\ InPlace(p)'
  <1>1. PICK a : a = Final(p) OBVIOUS
  <1>2. ASSUME root'[a] = n PROVE NodeMoves(a) BY <1>1, <1>2 DEF NodeMoves
  <1>3. Plain /\ Done /\ root'[a] = n BY <1>1, <1>2, PutPlain
  <1>4. RootMoves BY <1>3 DEF Plain
  <1>5. root' = [root EXCEPT ![a] = n] BY <1>1 DEF Put
  <1>6. a # p => root'[p] = root[p] BY <1>5 DEF TreeInv
  <1> QED BY <1>1, <1>3, <1>4, <1>6, FinalMade

LEMMA WriteFilePlain ==
    ASSUME TreeInv, NEW p \in Paths, NEW v, v # << >>, WriteFile(p, v), menu' = menu
    PROVE  GiveUp \/ (Plain /\ Done /\ InPlace(p)')
  <1>1. CASE Writable(p)
    <2>1. Put(Final(p), FileNode(v)) BY <1>1 DEF WriteFile
    <2>2. Final(p) \in Paths /\ root[Final(p)].kind # "link" BY <1>1 DEF Writable, TreeInv
    <2>3. FileNode(v).kind = "file" /\ FileNode(v).v = v BY NodeKinds
    <2>4. PICK n : n = FileNode(v) OBVIOUS
    <2> QED BY <2>1, <2>2, <2>3, <2>4, PutAtEnd
  <1>2. CASE ~Writable(p) BY <1>2 DEF WriteFile
  <1> QED BY <1>1, <1>2

LEMMA TruncatePlain ==
    ASSUME TreeInv, NEW p \in Paths, TruncateFile(p), menu' = menu
    PROVE  GiveUp \/ (Plain /\ Done)
  <1>1. CASE Writable(p)
    <2>1. PICK a : a = Final(p) OBVIOUS
    <2>2. PICK n : n = (IF root[a].kind = "file" THEN FileNode(<< >>) ELSE root[a]) OBVIOUS
    <2>3. /\ root' = [root EXCEPT ![a] = n] /\ Done /\ UNCHANGED <<divs, lists, info, regd, fired>>
          /\ lost' = lost \cup {q \in {a} : root[q].kind = "file"}
      BY <1>1, <2>1, <2>2 DEF TruncateFile
    <2>4. a \in Paths BY <1>1, <2>1 DEF Writable, TreeInv
    <2>5. ASSUME root'[a] = n PROVE NodeMoves(a)
      <3>1. CASE root[a].kind = "file"
        <4>1. a \in lost' /\ n.kind = "file" BY <2>2, <2>3, <3>1, NodeKinds
        <4> QED BY <2>5, <4>1 DEF NodeMoves
      <3>2. CASE root[a].kind # "file" BY <2>2, <2>5, <3>2 DEF NodeMoves
      <3> QED BY <3>1, <3>2
    <2>6. lost \subseteq lost' BY <2>3
    <2>7. RootMoves BY <2>3, <2>4, <2>5, <2>6, OneNode
    <2> QED BY <2>3, <2>7 DEF Plain, DivsMove
  <1>2. CASE ~Writable(p) BY <1>2 DEF TruncateFile
  <1> QED BY <1>1, <1>2

(* preinst *)
LEMMA DivertPlain ==
    ASSUME TreeInv, NEW rec, Divert(rec), menu' = menu
    PROVE  GiveUp \/ (Plain /\ Done)
  <1> DEFINE same == {i \in DOMAIN divs : divs[i].from = rec.from}
  <1>1. CASE same = {}
    <2>1. DivertAlways(rec) BY <1>1 DEF Divert
    <2>2. UNCHANGED <<root, lists, info, regd, fired, lost>> /\ Done /\ divs' = Append(divs, rec)
      BY <2>1 DEF DivertAlways
    <2>3. \A i \in DOMAIN divs : divs[i].from # rec.from BY <1>1
    <2>4. RootMoves BY <2>2, SameRoot
    <2>5. DivsMove BY <2>2, <2>3 DEF DivsMove
    <2> QED BY <2>2, <2>4, <2>5 DEF Plain
  <1>2. CASE same # {}
    <2>1. GoOn \/ GiveUp BY <1>2 DEF Divert
    <2> QED BY <2>1, GoOnPlain
  <1> QED BY <1>1, <1>2

LEMMA MergedPlain ==
    ASSUME Linked, TreeInv, NEW d, <<d>> \in Paths, CheckMerged(d), menu' = menu
    PROVE  GiveUp \/ (Plain /\ Done)
  <1>1. PICK p : p = <<d>> OBVIOUS
  <1>2. PICK n : n = (IF IsDir(Usr(p)) THEN LinkNode(Usr(p)) ELSE Gone) OBVIOUS
  <1>3. \/ p = Lib64 /\ IsLink(p) /\ root[p].v # Usr(p) /\ Put(p, n)
        \/ GiveUp \/ GoOn
    BY <1>1, <1>2 DEF CheckMerged, Mended
  <1>4. CASE p = Lib64 /\ IsLink(p) /\ root[p].v # Usr(p) /\ Put(p, n)
    <2>1. ASSUME root'[p] = n PROVE NodeMoves(p)
      <3>1. n \in {LinkNode(Usr(Lib64)), Gone} BY <1>2, <1>4
      <3> QED BY <1>4, <2>1, <3>1 DEF NodeMoves, IsLink
    <2> QED BY <1>1, <1>4, <2>1, PutPlain
  <1> QED BY <1>3, <1>4, GoOnPlain

LEMMA MasterPlain ==
    ASSUME TreeInv, NEW p \in Paths, CreateMaster(p), menu' = menu
    PROVE  GiveUp \/ (Plain /\ Done)
  <1>1. GoOn \/ GiveUp \/ WriteFile(p, <<"master">>) BY DEF CreateMaster
  <1>2. <<"master">> # << >> OBVIOUS
  <1> QED BY <1>1, <1>2, GoOnPlain, WriteFilePlain

LEMMA Lib64Plain ==
    ASSUME Archived, TreeInv, MakeUsrLib64 \/ MergeLib64, menu' = menu
    PROVE  GiveUp \/ (Plain /\ Done)
  <1>1. PICK u, n : u = Usr(Lib64) /\ n = DirNode(<<"root">>) OBVIOUS
  <1>2. u \in Paths /\ Lib64 \in Paths
    <2>1. u \in ScriptPaths /\ Lib64 \in ScriptPaths BY <1>1 DEF ScriptPaths
    <2> QED BY <2>1 DEF Archived
  <1>3. \/ root[u] = Gone /\ Put(u, n)
        \/ WantsLib64 /\ Put(Lib64, LinkNode(u))
        \/ GoOn \/ GiveUp
    BY <1>1 DEF MakeUsrLib64, MergeLib64
  <1>4. CASE root[u] = Gone /\ Put(u, n)
    <2>1. n.kind = "dir" /\ root[u].kind = "absent" BY <1>1, <1>4, NodeKinds
    <2>2. ASSUME root'[u] = n PROVE NodeMoves(u) BY <2>1, <2>2 DEF NodeMoves
    <2> QED BY <1>2, <1>4, <2>2, PutPlain
  <1>5. CASE WantsLib64 /\ Put(Lib64, LinkNode(u))
    <2>1. root[Lib64].kind # "link" BY <1>5 DEF WantsLib64, Exists, IsLink
    <2>2. ASSUME root'[Lib64] = LinkNode(u) PROVE NodeMoves(Lib64)
      BY <2>1, <2>2, SourcesApart DEF NodeMoves
    <2> QED BY <1>2, <1>5, <2>2, PutPlain
  <1> QED BY <1>3, <1>4, <1>5, GoOnPlain

(* postinst *)
LEMMA TmpDirPlain ==
    ASSUME TreeInv, NEW p \in Paths, NEW owner, TmpDir(p, owner), menu' = menu
    PROVE  GiveUp \/ (Plain /\ Done /\ InPlace(p)')
  <1>1. PICK n : n = (IF IsDir(p) THEN DirNode(owner) ELSE root[Final(p)]) OBVIOUS
  <1>2. DirNode(owner).kind = "dir" BY NodeKinds
  <1>3. CASE Stats(p)
    <2>1. Put(Final(p), n) BY <1>1, <1>3 DEF TmpDir
    <2>2. Final(p) \in Paths /\ root[Final(p)].kind \in {"file", "dir"} BY <1>3 DEF Stats, TreeInv
    <2>3. n.kind \in {"file", "dir"} /\ (n.kind = "file" => n = root[Final(p)]) BY <1>1, <1>2, <2>2
    <2> QED BY <2>1, <2>2, <2>3, PutAtEnd
  <1>4. CASE ~Stats(p) /\ Writable(p)
    <2>1. Put(Final(p), DirNode(owner)) BY <1>4 DEF TmpDir
    <2>2. Final(p) \in Paths /\ root[Final(p)].kind # "link" BY <1>4 DEF Writable, TreeInv
    <2> QED BY <1>2, <2>1, <2>2, PutAtEnd
  <1>5. CASE ~Stats(p) /\ ~Writable(p) BY <1>5 DEF TmpDir
  <1> QED BY <1>3, <1>4, <1>5

LEMMA GoOnMade ==
    ASSUME TreeInv, NEW p \in Paths, Stats(p), GoOn, menu' = menu
    PROVE  Plain /\ Done /\ InPlace(p)'
  <1>1. Plain /\ Done BY GoOnPlain
  <1>2. root' = root BY DEF GoOn
  <1> QED BY <1>1, <1>2, StatsMade

LEMMA DefaultPlain ==
    ASSUME TreeInv, NEW p \in Paths, NEW src, CopyDefault(src, p), menu' = menu
    PROVE  GiveUp \/ (Plain /\ Done /\ InPlace(p)')
  <1>1. PICK v : v = Contents(src) OBVIOUS
  <1>2. (Stats(p) /\ GoOn) \/ GiveUp \/ (v # << >> /\ WriteFile(p, v)) BY <1>1 DEF CopyDefault
  <1> QED BY <1>2, GoOnMade, WriteFilePlain

LEMMA TouchPlain ==
    ASSUME TreeInv, NEW p \in Paths, Touch(p), menu' = menu
    PROVE  GiveUp \/ (Plain /\ Done /\ InPlace(p)')
  <1>1. (Stats(p) /\ GoOn) \/ WriteFile(p, <<"blank">>) BY DEF Touch
  <1>2. <<"blank">> # << >> OBVIOUS
  <1> QED BY <1>1, <1>2, GoOnMade, WriteFilePlain

LEMMA AlternativePlain ==
    ASSUME TreeInv, NEW p \in Paths, p \in {Pager, PagerMan}, NEW to, Alternative(p, to), menu' = menu
    PROVE  GiveUp \/ (Plain /\ Done /\ InPlace(p)')
  <1>1. (Stats(p) /\ GoOn) \/ (root[p] = Gone /\ Put(p, LinkNode(to))) \/ GiveUp BY DEF Alternative
  <1>2. CASE root[p] = Gone /\ Put(p, LinkNode(to))
    <2>1. ASSUME root'[p] = LinkNode(to) PROVE NodeMoves(p)
      BY <1>2, <2>1, NodeKinds, SourcesApart DEF NodeMoves
    <2>2. Plain /\ Done /\ root'[p] = LinkNode(to) BY <1>2, <2>1, PutPlain
    <2> QED BY <2>2, NodeKinds DEF InPlace, Present
  <1> QED BY <1>1, <1>2, GoOnMade

\* An empty recipe or template was emptied.
LEMMA EmptySource ==
    ASSUME Archived, TreeInv, NEW p \in SourceFiles, CanRead(p), Contents(p) = << >>
    PROVE  p \in lost
  <1>1. p \in Paths /\ root[p].kind # "link" BY DEF TreeInv, Archived
  <1>2. Final(p) = p BY <1>1 DEF Final, IsLink
  <1>3. root[p].kind = "file" BY <1>2 DEF CanRead, Stats, IsDir
  <1>4. root[p].v = << >> BY <1>2 DEF Contents
  <1> QED BY <1>1, <1>3, <1>4 DEF TreeInv

LEMMA SourceTaken ==
    ASSUME NEW p, NEW f \in SourcesOf(p), f \in lost, lost \subseteq lost'
    PROVE  InPlace(p)'
  BY DEF InPlace

LEMMA PamPlain ==
    ASSUME Archived, TreeInv, NEW i \in 1 .. 5, PamGenerate(PamNames[i]), menu' = menu
    PROVE  GiveUp \/ (Plain /\ Done /\ InPlace(PamFile(PamNames[i]))')
  <1>1. PICK p, f : p = PamFile(PamNames[i]) /\ f = PamTemplate(PamNames[i]) OBVIOUS
  <1>2. p \in Paths /\ f \in SourceFiles /\ f \in SourcesOf(p)
    <2>1. p \in ScriptPaths BY <1>1, Zenon DEF ScriptPaths
    <2>2. f \in SourceFiles BY <1>1, Zenon DEF SourceFiles
    <2>3. f \in SourcesOf(p) BY <1>1, Zenon DEF SourcesOf
    <2> QED BY <2>1, <2>2, <2>3 DEF Archived
  <1>3. \/ GiveUp
        \/ CanRead(f) /\ Contents(f) = << >> /\ TruncateFile(p)
        \/ WriteFile(p, <<"generated">>)
    BY <1>1, Zenon DEF PamGenerate
  <1>4. CASE CanRead(f) /\ Contents(f) = << >> /\ TruncateFile(p)
    <2>1. f \in lost BY <1>2, <1>4, EmptySource
    <2>2. GiveUp \/ (Plain /\ Done) BY <1>2, <1>4, TruncatePlain
    <2>3. Plain => lost \subseteq lost' BY DEF Plain, RootMoves
    <2>4. Plain => InPlace(p)' BY <1>2, <2>1, <2>3, SourceTaken
    <2> QED BY <1>1, <2>2, <2>4
  <1>5. CASE WriteFile(p, <<"generated">>)
    <2>1. <<"generated">> # << >> OBVIOUS
    <2> QED BY <1>1, <1>2, <1>5, <2>1, WriteFilePlain
  <1> QED BY <1>3, <1>4, <1>5

LEMMA RefusalOp == Refusal.op = "refuse"
  BY DEF Refusal, Op

\* The lines of a recipe are steps of a postinst that make what the recipe is for.
LEMMA LinesAre ==
    ASSUME Scripted, NEW c \in DOMAIN Recipes
    PROVE  /\ PostSeq(TmpfilesLines(c))
           /\ \A p : HasLine(c, p) => \E i \in DOMAIN TmpfilesLines(c) :
                  Makes(TmpfilesLines(c)[i], p) \/ Refuses(TmpfilesLines(c)[i])
  <1>1. PICK f : f = TmpfilesLines(c) OBVIOUS
  <1>2. PICK n \in Nat : DOMAIN Recipes[c] = 1 .. n
    <2>1. PICK S : Recipes[c] \in Seq(S) BY DEF Scripted
    <2> QED BY <2>1
  <1>3. DOMAIN f = 1 .. n /\ f = [i \in 1 .. n |-> f[i]] BY <1>1, <1>2 DEF TmpfilesLines
  <1>4. ASSUME NEW i \in 1 .. n
        PROVE  PostStep(f[i]) /\ (Makes(f[i], Recipes[c][i].path) \/ Refuses(f[i]))
    <2>1. PICK e : e = Recipes[c][i] OBVIOUS
    <2>2. e.path \in Paths BY <1>2, <2>1 DEF Scripted
    <2>3. f[i] = IF e.type = "d" THEN Op("tmpdir", e.path, e.owner) ELSE Refusal
      BY <1>1, <1>2, <2>1 DEF TmpfilesLines
    <2>4. CASE f[i] = Op("tmpdir", e.path, e.owner)
      <3>1. f[i].op = "tmpdir" /\ f[i].path = e.path BY <2>4 DEF Op
      <3>2. PostStep(f[i]) BY <2>2, <3>1 DEF PostStep, ConfOps, TemplateOps, MakeOps, SeesTo
      <3>3. Makes(f[i], e.path) BY <3>1 DEF Makes, MakeOps, SeesTo
      <3> QED BY <2>1, <3>2, <3>3
    <2>5. CASE f[i] = Refusal
      <3>0. PICK x : x = f[i] OBVIOUS
      <3>1. x.op = "refuse" BY <2>5, <3>0, RefusalOp, Zenon
      <3> QED BY <3>0, <3>1 DEF PostStep, ConfOps, TemplateOps, MakeOps, Refuses
    <2> QED BY <2>3, <2>4, <2>5
  <1>5. PostSeq(f) BY <1>3, <1>4, FunPost
  <1>6. ASSUME NEW p, HasLine(c, p) PROVE \E i \in DOMAIN f : Makes(f[i], p) \/ Refuses(f[i])
    <2>1. PICK i \in DOMAIN Recipes[c] : Recipes[c][i].path = p BY <1>6 DEF HasLine
    <2> QED BY <1>2, <1>3, <1>4, <2>1
  <1> QED BY <1>1, <1>5, <1>6

\* A recipe is read: its lines are to be applied, or it was emptied.
LEMMA RecipeKeeps ==
    ASSUME Archived, Linked, Scripted, ScriptsInv, work # NoWork, NEW s, s = Head(work.steps), s.op = "recipe",
           ReadRecipe(s.path, s.v), menu' = menu
    PROVE  ScriptsInv'
  <1>1. TreeInv /\ DivsInv /\ WorkInv BY DEF ScriptsInv
  <1>2. Configuring(work) /\ Len(work.steps) >= 2 /\ PostStep(s)
    BY <1>1, HeadPhase DEF PreStep, PayStep, PreOps, TarTypes
  <1>3. PICK c, f : c = s.v /\ f = s.path OBVIOUS
  <1>4. c \in DOMAIN Recipes /\ f = RecipePath(c) BY <1>2, <1>3 DEF PostStep
  <1>5. f \in SourceFiles BY <1>4, Zenon DEF SourceFiles
  <1>6. CASE CanRead(f)
    <2>1. PICK ops : ops = (IF Contents(f) = << >> THEN << >> ELSE TmpfilesLines(c)) OBVIOUS
    <2>2. /\ work' = [work EXCEPT !.steps = ops \o Tail(@)]
          /\ UNCHANGED <<root, divs, lists, info, regd, fired, lost>>
      BY <1>3, <1>6, <2>1 DEF ReadRecipe
    <2>3. Plain BY <1>1, <2>2, SameIsPlain
    <2>4. PostSeq(ops) BY <1>4, <2>1, LinesAre, FewSteps
    <2>5. ASSUME NEW p \in Paths, Makes(s, p)
          PROVE  InPlace(p)' \/ \E i \in DOMAIN ops : Makes(ops[i], p) \/ Refuses(ops[i])
      <3>1. HasLine(c, p) BY <1>3, <2>5 DEF Makes, MakeOps
      <3>2. CASE Contents(f) = << >>
        <4>1. f \in lost BY <1>1, <1>5, <1>6, <3>2, EmptySource
        <4>2. f \in SourcesOf(p) BY <1>4, <3>1, Zenon DEF SourcesOf
        <4> QED BY <2>2, <4>1, <4>2, SourceTaken
      <3>3. CASE Contents(f) # << >> BY <1>4, <2>1, <3>1, <3>3, LinesAre
      <3> QED BY <3>2, <3>3
    <2>6. WorkInv' BY <1>1, <1>2, <2>2, <2>3, <2>4, <2>5, ConfigureExpands
    <2> QED BY <2>3, <2>6, PlainKeeps DEF ScriptsInv
  <1>7. CASE ~CanRead(f)
    <2>1. GiveUp BY <1>3, <1>7 DEF ReadRecipe
    <2> QED BY <2>1, GiveUpKeeps
  <1> QED BY <1>6, <1>7

(* the payload *)
LEMMA UnpackedPlain ==
    ASSUME TreeInv, NEW path, NEW at \in Paths, NEW n, Unpacked(path, at, n), menu' = menu,
           root'[at] = n => NodeMoves(at)
    PROVE  Plain /\ Listed(path) /\ root'[at] = n
  <1>1. root' = [root EXCEPT ![at] = n] /\ lost' = lost /\ divs' = divs /\ lists' = lists /\ info' = info
        /\ regd' = regd /\ fired' = fired /\ Listed(path)
    BY DEF Unpacked
  <1>2. RootMoves BY <1>1, OneNode
  <1>3. root'[at] = n BY <1>1 DEF TreeInv
  <1> QED BY <1>1, <1>2, <1>3 DEF Plain, DivsMove

LEMMA EntryPath ==
    ASSUME Archived, Linked, NEW q \in Debs, NEW s, FromPayload(q, s)
    PROVE  /\ s.path \in Paths
           /\ s.op = "link" => s.path \notin SourceFiles
           /\ s.op = "file" => s.v # << >>
  <1>1. PICK j \in DOMAIN Payloads[q] :
          Payloads[q][j].type = s.op /\ Payloads[q][j].path = s.path /\ Payloads[q][j].v = s.v
    BY DEF FromPayload
  <1>2. s.path \in Paths BY <1>1 DEF Archived
  <1>3. s.op = "link" => IsLinkEntry(q, j) BY <1>1 DEF IsLinkEntry
  <1>4. s.op = "link" => s.path \in LinkPaths BY <1>1, <1>2, <1>3 DEF LinkPaths
  <1>5. s.op = "file" => s.v # << >> BY <1>1 DEF Archived
  <1> QED BY <1>2, <1>4, <1>5 DEF Linked

LEMMA DirectoryPlain ==
    ASSUME TreeInv, NEW p \in Paths, Directory(p), menu' = menu
    PROVE  GiveUp \/ (Plain /\ Listed(p))
  <1>1. CASE Stats(p)
    <2>1. Unpacked(p, p, root[p]) BY <1>1 DEF Directory
    <2>2. root'[p] = root[p] => NodeMoves(p) BY DEF NodeMoves
    <2>3. PICK n : n = root[p] OBVIOUS
    <2> QED BY <2>1, <2>2, <2>3, UnpackedPlain
  <1>2. CASE ~Stats(p) /\ Writable(p)
    <2>1. PICK a, n : a = Final(p) /\ n = DirNode(<<"root">>) OBVIOUS
    <2>2. Unpacked(p, a, n) BY <1>2, <2>1 DEF Directory
    <2>3. a \in Paths /\ root[a].kind # "link" BY <1>2, <2>1 DEF TreeInv, Writable
    <2>4. n.kind = "dir" BY <2>1, NodeKinds
    <2>5. ASSUME root'[a] = n PROVE NodeMoves(a) BY <2>3, <2>4, <2>5 DEF NodeMoves
    <2> QED BY <2>2, <2>3, <2>5, UnpackedPlain
  <1>3. CASE ~Stats(p) /\ ~Writable(p) BY <1>3 DEF Directory
  <1> QED BY <1>1, <1>2, <1>3

LEMMA RegularPlain ==
    ASSUME TreeInv, NEW p \in Paths, NEW v, v # << >>, Regular(p, v), menu' = menu
    PROVE  GiveUp \/ (Plain /\ Listed(p))
  <1>1. CASE Writable(p)
    <2>1. PICK a, n : a = Final(p) /\ n = FileNode(v) OBVIOUS
    <2>2. Unpacked(p, a, n) BY <1>1, <2>1 DEF Regular
    <2>3. a \in Paths /\ root[a].kind # "link" BY <1>1, <2>1 DEF TreeInv, Writable
    <2>4. n.kind = "file" /\ n.v # << >> BY <2>1, NodeKinds
    <2>5. ASSUME root'[a] = n PROVE NodeMoves(a) BY <2>3, <2>4, <2>5 DEF NodeMoves
    <2> QED BY <2>2, <2>3, <2>5, UnpackedPlain
  <1>2. CASE ~Writable(p) BY <1>2 DEF Regular
  <1> QED BY <1>1, <1>2

LEMMA SymlinkPlain ==
    ASSUME Archived, Linked, TreeInv, work.pkg \in Debs, NEW s, s.op = "link", FromPayload(work.pkg, s),
           Symlink(s.path, s.v), menu' = menu
    PROVE  GiveUp \/ (Plain /\ Listed(s.path) /\ root'[s.path] = LinkNode(s.v))
  <1>1. PICK p, to, n : p = s.path /\ to = s.v /\ n = LinkNode(to) OBVIOUS
  <1>2. p \in Paths /\ p \notin SourceFiles BY <1>1, EntryPath
  <1>3. \/ root[p] \in {Gone, n} /\ Unpacked(p, p, n)
        \/ MayRetire(work.pkg, p, to) /\ Unpacked(p, p, n)
        \/ GiveUp
    BY <1>1 DEF Symlink
  <1>4. CASE root[p] \in {Gone, n} /\ Unpacked(p, p, n)
    <2>1. ASSUME root'[p] = n PROVE NodeMoves(p)
      <3>1. root[p].kind # "link" \/ root'[p] = root[p] BY <1>4, <2>1, NodeKinds
      <3> QED BY <1>1, <1>2, <2>1, <3>1 DEF NodeMoves
    <2> QED BY <1>1, <1>2, <1>4, <2>1, UnpackedPlain
  <1>5. CASE MayRetire(work.pkg, p, to) /\ Unpacked(p, p, n)
    <2>1. work.pkg = "dash" /\ p = Shell /\ ~Claimed("dash", Shell) BY <1>5 DEF MayRetire
    <2>2. PICK e : e = [op |-> "link", path |-> p, v |-> to] OBVIOUS
    <2>3. FromPayload("dash", e)
      <3>1. e.op = s.op /\ e.path = s.path /\ e.v = s.v BY <1>1, <2>2
      <3> QED BY <2>1, <3>1 DEF FromPayload
    <2>4. Retires(p, to) BY <2>1, <2>2, <2>3 DEF Retires
    <2>5. ASSUME root'[p] = n PROVE NodeMoves(p) BY <1>1, <1>2, <2>4, <2>5 DEF NodeMoves
    <2> QED BY <1>1, <1>2, <1>5, <2>5, UnpackedPlain
  <1> QED BY <1>3, <1>4, <1>5

------------------------------------------------------------------------------
(* The steps that write the database                                         *)

\* The list of the package at work names links that are there.
LEMMA ListKeeps ==
    ASSUME Archived, Linked, Scripted, ScriptsInv, work # NoWork, Head(work.steps).op = "list",
           WriteInfoList, menu' = menu
    PROVE  ScriptsInv'
  <1>1. TreeInv /\ DivsInv /\ ListsInv /\ EffectsInv /\ WorkInv BY DEF ScriptsInv
  <1>2. PICK s : s = Head(work.steps) OBVIOUS
  <1>3. PICK q, st : q = work.pkg /\ st = work.steps OBVIOUS
  <1>4. q \in Debs /\ Installing(work) /\ Len(st) = 3
    BY <1>1, <1>2, <1>3, HeadPhase DEF PreStep, PayStep, PostStep, PreOps, TarTypes, ConfOps, TemplateOps
  <1>5. PICK S : st \in Seq(S) BY <1>1, <1>3 DEF WorkInv
  <1>6. /\ lists' = [lists EXCEPT ![q] = work.list] /\ Done
        /\ root' = root /\ divs' = divs /\ info' = info /\ regd' = regd /\ fired' = fired /\ lost' = lost
    BY <1>3 DEF WriteInfoList
  <1>7. /\ work' = [pkg |-> work'.pkg, steps |-> work'.steps, list |-> work'.list]
        /\ work'.pkg = q /\ work'.steps = Tail(st) /\ work'.list = work.list
    <2>1. Advances({}) BY <1>1, <1>6, DoneAdvances
    <2>2. work.list \cup {} = work.list OBVIOUS
    <2> QED BY <1>1, <1>3, <2>1, <2>2, WorkAdvances
  <1>8. Tail(st) \in Seq(S) /\ Len(Tail(st)) = 2 BY <1>4, <1>5, TailIs
  <1>9. RootMoves /\ DivsMove BY <1>1, <1>6, SameRoot DEF DivsMove
  <1>10. TreeInv' /\ DivsInv' /\ EffectsInv' BY <1>1, <1>6, <1>9, TreeKept, DivsKept, EffectsKept
  <1>11. \A k \in Debs : lists'[k] = IF k = q THEN work.list ELSE lists[k] BY <1>1, <1>4, <1>6 DEF ListsInv
  <1>12. ASSUME NEW k \in Debs, NEW i \in DOMAIN Payloads[k], IsLinkEntry(k, i), regd[k] # "none",
                Payloads[k][i].path \in lists'[k]
         PROVE  Held(Payloads[k][i])'
    <2>1. Held(Payloads[k][i])
      <3>1. CASE k = q BY <1>3, <1>4, <1>11, <1>12, <3>1 DEF Installing
      <3>2. CASE k # q BY <1>1, <1>11, <1>12, <3>2 DEF ListsInv
      <3> QED BY <3>1, <3>2
    <2> QED BY <1>6, <2>1 DEF Held
  <1>13. ListsInv'
    <2>1. DOMAIN lists' = Debs BY <1>1, <1>6 DEF ListsInv
    <2> QED BY <1>1, <1>6, <1>12, <2>1 DEF ListsInv
  <1>14. InstallRest(q, Tail(st))
    <2>1. InstallRest(q, st) BY <1>3, <1>4 DEF Installing
    <2>2. Len(st) >= 2 BY <1>4
    <2> QED BY <1>5, <2>1, <2>2, RestShorter
  <1>15. ASSUME NEW i \in DOMAIN Payloads[q], IsLinkEntry(q, i), Payloads[q][i].path \in work.list
         PROVE  Held(Payloads[q][i])'
    <2>1. Held(Payloads[q][i]) BY <1>3, <1>4, <1>15 DEF Installing
    <2> QED BY <1>6, <2>1 DEF Held
  <1>16. lists'[q] = work.list BY <1>4, <1>11
  <1>17. Installing(work)'
    <2>0. Len(work'.steps) = 2 BY <1>7, <1>8, Zenon
    <2>1. ~(Len(work'.steps) < 2) BY <2>0
    <2>2. InstallRest(work'.pkg, work'.steps) BY <1>7, <1>14
    <2>3. lists'[work'.pkg] = work'.list BY <1>7, <1>16
    <2>4. \A i \in DOMAIN Payloads[work'.pkg] :
            IsLinkEntry(work'.pkg, i) /\ Payloads[work'.pkg][i].path \in work'.list
               => Held(Payloads[work.pkg][i])'
      BY <1>7, <1>15, Zenon
    <2> QED BY <2>1, <2>2, <2>3, <2>4, Zenon DEF Installing
  <1>18. WorkInv'
    <2>0. Len(work'.steps) = 2 BY <1>7, <1>8, Zenon
    <2>1. Len(work'.steps) >= 1 BY <2>0
    <2>2. work'.pkg \in Debs /\ work'.steps \in Seq(S) BY <1>4, <1>7, <1>8, Zenon
    <2> QED BY <1>7, <1>17, <2>1, <2>2, Zenon DEF WorkInv
  <1> QED BY <1>10, <1>13, <1>18 DEF ScriptsInv

LEMMA ControlKeeps ==
    ASSUME Archived, Linked, Scripted, ScriptsInv, work # NoWork, Head(work.steps).op = "control",
           CopyScripts, menu' = menu
    PROVE  ScriptsInv'
  <1>1. TreeInv /\ DivsInv /\ ListsInv /\ EffectsInv /\ WorkInv BY DEF ScriptsInv
  <1>2. PICK s : s = Head(work.steps) OBVIOUS
  <1>3. PICK q, st : q = work.pkg /\ st = work.steps OBVIOUS
  <1>4. q \in Debs /\ Installing(work) /\ Len(st) = 2
    BY <1>1, <1>2, <1>3, HeadPhase DEF PreStep, PayStep, PostStep, PreOps, TarTypes, ConfOps, TemplateOps
  <1>5. PICK S : st \in Seq(S) BY <1>1, <1>3 DEF WorkInv
  <1>6. /\ info' = [info EXCEPT ![q] = "whole"] /\ Done
        /\ root' = root /\ divs' = divs /\ lists' = lists /\ regd' = regd /\ fired' = fired /\ lost' = lost
    BY <1>3 DEF CopyScripts
  <1>7. /\ work' = [pkg |-> work'.pkg, steps |-> work'.steps, list |-> work'.list]
        /\ work'.pkg = q /\ work'.steps = Tail(st) /\ work'.list = work.list
    <2>1. Advances({}) BY <1>1, <1>6, DoneAdvances
    <2>2. work.list \cup {} = work.list OBVIOUS
    <2> QED BY <1>1, <1>3, <2>1, <2>2, WorkAdvances
  <1>8. Tail(st) \in Seq(S) /\ Len(Tail(st)) = 1 BY <1>4, <1>5, TailIs
  <1>9. RootMoves /\ DivsMove BY <1>1, <1>6, SameRoot DEF DivsMove
  <1>10. TreeInv' /\ DivsInv' /\ EffectsInv' BY <1>1, <1>6, <1>9, TreeKept, DivsKept, EffectsKept
  <1>11. \A k \in Debs : info'[k] = IF k = q THEN "whole" ELSE info[k] BY <1>1, <1>4, <1>6 DEF ListsInv
  <1>12. ListsInv'
    <2>1. DOMAIN info' = Debs BY <1>1, <1>6 DEF ListsInv
    <2> QED BY <1>1, <1>6, <1>11, <2>1 DEF ListsInv, Held
  <1>13. InstallRest(q, Tail(st))
    <2>1. InstallRest(q, st) BY <1>3, <1>4 DEF Installing
    <2>2. Len(st) >= 2 BY <1>4
    <2> QED BY <1>5, <2>1, <2>2, RestShorter
  <1>14. lists[q] = work.list BY <1>3, <1>4 DEF Installing
  <1>15. ASSUME NEW i \in DOMAIN Payloads[q], IsLinkEntry(q, i), Payloads[q][i].path \in work.list
         PROVE  Held(Payloads[q][i])'
    <2>1. Held(Payloads[q][i]) BY <1>3, <1>4, <1>15 DEF Installing
    <2> QED BY <1>6, <2>1 DEF Held
  <1>16. info'[q] # "none" BY <1>4, <1>11
  <1>17. Installing(work)' BY <1>6, <1>7, <1>8, <1>13, <1>14, <1>15, <1>16 DEF Installing
  <1>18. WorkInv'
    <2>1. Len(work'.steps) = 1 BY <1>7, <1>8, Zenon
    <2>2. Len(work'.steps) >= 1 BY <2>1
    <2>3. work'.pkg \in Debs /\ work'.steps \in Seq(S) BY <1>4, <1>7, <1>8, Zenon
    <2> QED BY <1>7, <1>17, <2>2, <2>3, Zenon DEF WorkInv
  <1> QED BY <1>10, <1>12, <1>18 DEF ScriptsInv

\* The stanza is written when list and control files are.
LEMMA StanzaKeeps ==
    ASSUME Archived, Linked, Scripted, ScriptsInv, work # NoWork, Head(work.steps).op = "stanza",
           AddStanza, menu' = menu
    PROVE  ScriptsInv'
  <1>1. TreeInv /\ DivsInv /\ ListsInv /\ EffectsInv /\ WorkInv BY DEF ScriptsInv
  <1>2. PICK s : s = Head(work.steps) OBVIOUS
  <1>3. PICK q : q = work.pkg OBVIOUS
  <1>4. q \in Debs /\ Installing(work) /\ Len(work.steps) = 1
    BY <1>1, <1>2, <1>3, HeadPhase DEF PreStep, PayStep, PostStep, PreOps, TarTypes, ConfOps, TemplateOps
  <1>5. lists[q] = work.list /\ info[q] # "none" BY <1>3, <1>4 DEF Installing
  <1>6. PICK r : r = (IF regd[q] = "none" THEN "unpacked" ELSE regd[q]) OBVIOUS
  <1>7. /\ regd' = [regd EXCEPT ![q] = r] /\ work' = NoWork
        /\ root' = root /\ divs' = divs /\ lists' = lists /\ info' = info /\ fired' = fired /\ lost' = lost
    BY <1>3, <1>6 DEF AddStanza, Refused
  <1>8. \A k \in Debs : regd'[k] = IF k = q THEN r ELSE regd[k] BY <1>1, <1>4, <1>7 DEF ListsInv
  <1>9. RootMoves /\ DivsMove BY <1>1, <1>7, SameRoot DEF DivsMove
  <1>10. \A k \in Debs : regd'[k] = "installed" => regd[k] = "installed" BY <1>6, <1>8
  <1>11. TreeInv' /\ DivsInv' /\ EffectsInv' BY <1>1, <1>7, <1>9, <1>10, TreeKept, DivsKept, EffectsKept
  <1>12. ASSUME NEW k \in Debs, NEW i \in DOMAIN Payloads[k], IsLinkEntry(k, i), regd'[k] # "none",
                Payloads[k][i].path \in lists[k]
         PROVE  Held(Payloads[k][i])'
    <2>1. Held(Payloads[k][i])
      <3>1. CASE k = q BY <1>3, <1>4, <1>5, <1>12, <3>1 DEF Installing
      <3>2. CASE k # q BY <1>1, <1>8, <1>12, <3>2 DEF ListsInv
      <3> QED BY <3>1, <3>2
    <2> QED BY <1>7, <2>1 DEF Held
  <1>13. ListsInv'
    <2>1. DOMAIN regd' = Debs BY <1>1, <1>7 DEF ListsInv
    <2> QED BY <1>1, <1>5, <1>7, <1>8, <1>12, <2>1 DEF ListsInv
  <1>14. WorkInv' BY <1>7 DEF WorkInv
  <1> QED BY <1>11, <1>13, <1>14 DEF ScriptsInv

\* The last step of a configure: nothing is left to see to.
LEMMA InstalledKeeps ==
    ASSUME Archived, Linked, Scripted, ScriptsInv, work # NoWork, Head(work.steps).op = "installed",
           SetInstalledState, menu' = menu
    PROVE  ScriptsInv'
  <1>1. TreeInv /\ DivsInv /\ ListsInv /\ EffectsInv /\ WorkInv BY DEF ScriptsInv
  <1>2. PICK s : s = Head(work.steps) OBVIOUS
  <1>3. PICK q : q = work.pkg OBVIOUS
  <1>4. q \in Debs /\ Configuring(work) /\ Len(work.steps) = 1
    BY <1>1, <1>2, <1>3, HeadPhase DEF PreStep, PayStep, PostStep, PreOps, TarTypes, ConfOps, TemplateOps
  <1>5. /\ regd' = [regd EXCEPT ![q] = "installed"] /\ work' = NoWork
        /\ root' = root /\ divs' = divs /\ lists' = lists /\ info' = info /\ fired' = fired /\ lost' = lost
    BY <1>3 DEF SetInstalledState, Refused
  <1>6. \A k \in Debs : regd'[k] = IF k = q THEN "installed" ELSE regd[k] BY <1>1, <1>4, <1>5 DEF ListsInv
  <1>7. RootMoves /\ DivsMove BY <1>1, <1>5, SameRoot DEF DivsMove
  <1>8. TreeInv' /\ DivsInv' BY <1>1, <1>5, <1>7, TreeKept, DivsKept
  <1>9. 1 .. Len(work.steps) - 1 = {} BY <1>4
  <1>10. ASSUME <<"info", q>> \notin lost
         PROVE  /\ \A p \in Promised[q] : InPlace(p)
                /\ q = "libc6" => Recorded /\ "libc-upgrade" \in fired
    BY <1>3, <1>4, <1>9, <1>10, Zenon DEF Configuring
  <1>11. EffectsInv'
    <2>1. SUFFICES ASSUME NEW k \in Debs, regd'[k] = "installed", <<"info", k>> \notin lost
                   PROVE  /\ \A p \in Promised[k] : InPlace(p)
                          /\ k = "libc6" => Recorded /\ "libc-upgrade" \in fired
      BY <1>5 DEF EffectsInv, InPlace, Present, Recorded
    <2>2. CASE k = q BY <1>10, <2>1, <2>2
    <2>3. CASE k # q BY <1>1, <1>6, <2>1, <2>3, Zenon DEF EffectsInv
    <2> QED BY <2>2, <2>3
  <1>12. regd[q] # "none" BY <1>3, <1>4 DEF Configuring
  <1>13. \A k \in Debs : regd'[k] # "none" => regd[k] # "none" BY <1>6, <1>12
  <1>14. ListsInv'
    <2>1. DOMAIN regd' = Debs BY <1>1, <1>5 DEF ListsInv
    <2> QED BY <1>1, <1>5, <1>13, <2>1 DEF ListsInv, Held
  <1>15. WorkInv' BY <1>5 DEF WorkInv
  <1> QED BY <1>8, <1>11, <1>14, <1>15 DEF ScriptsInv

------------------------------------------------------------------------------
(* The actions                                                               *)

\* what HeadPhase leaves for each kind of step
LEMMA StepPaths ==
    ASSUME Archived, Linked, WorkInv, work # NoWork, NEW s, s = Head(work.steps)
    PROVE  /\ work.pkg \in Debs
           /\ s.op = "master" => s.path \in Paths
           /\ s.op = "merged" => <<s.v>> \in Paths
           /\ s.op \in TarTypes => FromPayload(work.pkg, s) /\ s.path \in Paths
           /\ s.op \in MakeOps => SeesTo(s) \in Paths
           /\ s.op = "alternative" => s.path \in {Pager, PagerMan}
           /\ s.op = "pam" => \E i \in 1 .. 5 : s.v = PamNames[i]
           /\ s.op \in PreOps \cup TarTypes \cup ConfOps \cup {"list", "control", "stanza", "installed"}
  <1>1. work.pkg \in Debs BY HeadPhase
  <1>2. CASE PreStep(s) BY <1>1, <1>2 DEF PreStep, PreOps, TarTypes, MakeOps
  <1>3. CASE PayStep(work.pkg, s)
    <2>1. s.path \in Paths BY <1>1, <1>3, EntryPath DEF PayStep
    <2> QED BY <1>1, <1>3, <2>1 DEF PayStep, TarTypes, MakeOps
  <1>4. CASE PostStep(s) BY <1>1, <1>4 DEF PostStep, ConfOps, TemplateOps, TarTypes, MakeOps
  <1>5. CASE s.op \in {"list", "control", "stanza", "installed"} BY <1>1, <1>5 DEF TarTypes, MakeOps
  <1> QED BY <1>2, <1>3, <1>4, <1>5, HeadPhase

LEMMA PerformKeeps ==
    ASSUME Archived, Linked, Scripted, ScriptsInv, PerformStep
    PROVE  ScriptsInv'
  <1>1. TreeInv /\ WorkInv BY DEF ScriptsInv
  <1>2. PICK s : s = Head(work.steps) OBVIOUS
  <1>3. work # NoWork /\ menu' = menu BY DEF PerformStep
  <1>4. /\ work.pkg \in Debs
        /\ s.op = "master" => s.path \in Paths
        /\ s.op = "merged" => <<s.v>> \in Paths
        /\ s.op \in TarTypes => FromPayload(work.pkg, s) /\ s.path \in Paths
        /\ s.op \in MakeOps => SeesTo(s) \in Paths
        /\ s.op = "alternative" => s.path \in {Pager, PagerMan}
        /\ s.op = "pam" => \E i \in 1 .. 5 : s.v = PamNames[i]
        /\ s.op \in PreOps \cup TarTypes \cup ConfOps \cup {"list", "control", "stanza", "installed"}
    BY <1>1, <1>2, <1>3, StepPaths
  \* a step that makes nothing, of a preinst or a postinst
  <1>5. ASSUME s.op \in (PreOps \cup {"fifo"}) \ {"refuse"}, GiveUp \/ (Plain /\ Done) PROVE ScriptsInv'
    BY <1>2, <1>3, <1>5, GiveUpKeeps, PreinstKeeps
  <1>6. ASSUME s.op \in ConfOps \ {"refuse"}, s.op \notin MakeOps \cup {"recipe"}, s.op = "trigger" => s.v \in fired',
               GiveUp \/ (Plain /\ Done)
        PROVE  ScriptsInv'
    <2>1. \A p \in Paths : Makes(s, p) => InPlace(p)' BY <1>6 DEF Makes
    <2> QED BY <1>2, <1>3, <1>6, <2>1, GiveUpKeeps, PostinstKeeps
  \* a step of a postinst that makes a path
  <1>7. ASSUME s.op \in MakeOps, NEW p, p = SeesTo(s), GiveUp \/ (Plain /\ Done /\ InPlace(p)') PROVE ScriptsInv'
    <2>1. \A a \in Paths : Makes(s, a) => InPlace(a)' \/ GiveUp BY <1>7 DEF Makes, MakeOps
    <2>2. s.op \in ConfOps \ {"refuse"} /\ s.op # "trigger" BY <1>7 DEF MakeOps, ConfOps, TemplateOps
    <2> QED BY <1>2, <1>3, <1>7, <2>1, <2>2, GiveUpKeeps, PostinstKeeps
  \* an entry of the payload
  <1>8. ASSUME s.op \in {"dir", "link", "file"},
               GiveUp \/ (Plain /\ Listed(s.path) /\ (s.op = "link" => root'[s.path] = LinkNode(s.v)))
        PROVE  ScriptsInv'
    BY <1>2, <1>3, <1>8, GiveUpKeeps, PayloadKeeps
  <1>9. CASE s.op = "divert"
    <2>1. Divert(s.v) BY <1>2, <1>9 DEF PerformStep
    <2>2. GiveUp \/ (Plain /\ Done) BY <1>1, <1>3, <2>1, DivertPlain
    <2> QED BY <1>5, <1>9, <2>2 DEF PreOps
  <1>10. CASE s.op = "merged"
    <2>1. CheckMerged(s.v) BY <1>2, <1>10 DEF PerformStep
    <2>2. GiveUp \/ (Plain /\ Done) BY <1>1, <1>3, <1>4, <1>10, <2>1, MergedPlain
    <2> QED BY <1>5, <1>10, <2>2 DEF PreOps
  <1>11. CASE s.op = "master"
    <2>1. CreateMaster(s.path) BY <1>2, <1>11 DEF PerformStep
    <2>2. GiveUp \/ (Plain /\ Done) BY <1>1, <1>3, <1>4, <1>11, <2>1, MasterPlain
    <2> QED BY <1>5, <1>11, <2>2 DEF PreOps
  <1>12. CASE s.op \in {"usrlib64", "lib64"}
    <2>1. MakeUsrLib64 \/ MergeLib64 BY <1>2, <1>12 DEF PerformStep
    <2>2. GiveUp \/ (Plain /\ Done) BY <1>1, <1>3, <2>1, Lib64Plain
    <2> QED BY <1>5, <1>12, <2>2 DEF PreOps
  <1>13. CASE s.op = "zutils"
    <2>1. NoZutils BY <1>2, <1>13 DEF PerformStep
    <2>2. GiveUp \/ GoOn BY <2>1 DEF NoZutils
    <2>3. GiveUp \/ (Plain /\ Done) BY <1>1, <1>3, <2>2, GoOnPlain
    <2> QED BY <1>5, <1>13, <2>3 DEF PreOps
  <1>14. CASE s.op = "dir"
    <2>1. Directory(s.path) BY <1>2, <1>14 DEF PerformStep
    <2>2. GiveUp \/ (Plain /\ Listed(s.path)) BY <1>1, <1>3, <1>4, <1>14, <2>1, DirectoryPlain DEF TarTypes
    <2> QED BY <1>8, <1>14, <2>2
  <1>15. CASE s.op = "link"
    <2>1. Symlink(s.path, s.v) BY <1>2, <1>15 DEF PerformStep
    <2>2. GiveUp \/ (Plain /\ Listed(s.path) /\ root'[s.path] = LinkNode(s.v))
      BY <1>1, <1>3, <1>4, <1>15, <2>1, SymlinkPlain DEF TarTypes
    <2> QED BY <1>8, <1>15, <2>2
  <1>16. CASE s.op = "file"
    <2>1. Regular(s.path, s.v) BY <1>2, <1>16 DEF PerformStep
    <2>2. s.v # << >> BY <1>4, <1>16, EntryPath DEF TarTypes
    <2>3. GiveUp \/ (Plain /\ Listed(s.path)) BY <1>1, <1>3, <1>4, <1>16, <2>1, <2>2, RegularPlain DEF TarTypes
    <2> QED BY <1>8, <1>16, <2>3
  <1>17. CASE s.op = "list"
    <2>1. WriteInfoList BY <1>2, <1>17 DEF PerformStep
    <2> QED BY <1>2, <1>3, <1>17, <2>1, ListKeeps
  <1>18. CASE s.op = "control"
    <2>1. CopyScripts BY <1>2, <1>18 DEF PerformStep
    <2> QED BY <1>2, <1>3, <1>18, <2>1, ControlKeeps
  <1>19. CASE s.op = "stanza"
    <2>1. AddStanza BY <1>2, <1>19 DEF PerformStep
    <2> QED BY <1>2, <1>3, <1>19, <2>1, StanzaKeeps
  <1>20. CASE s.op = "installed"
    <2>1. SetInstalledState BY <1>2, <1>20 DEF PerformStep
    <2> QED BY <1>2, <1>3, <1>20, <2>1, InstalledKeeps
  <1>31. CASE s.op = "recipe"
    <2>1. ReadRecipe(s.path, s.v) BY <1>2, <1>31 DEF PerformStep
    <2> QED BY <1>2, <1>3, <1>31, <2>1, RecipeKeeps
  <1>21. CASE s.op = "profile"
    <2>1. GoOn \/ GiveUp BY <1>2, <1>21 DEF PerformStep, CheckProfile
    <2>2. GiveUp \/ (Plain /\ Done) BY <1>1, <1>3, <2>1, GoOnPlain
    <2> QED BY <1>6, <1>21, <2>2 DEF ConfOps, TemplateOps, MakeOps
  <1>22. CASE s.op = "tmpdir"
    <2>1. TmpDir(s.path, s.v) BY <1>2, <1>22 DEF PerformStep
    <2>2. SeesTo(s) = s.path /\ s.op \in MakeOps BY <1>22 DEF SeesTo, MakeOps
    <2>3. GiveUp \/ (Plain /\ Done /\ InPlace(s.path)') BY <1>1, <1>3, <1>4, <2>1, <2>2, TmpDirPlain
    <2> QED BY <1>7, <2>2, <2>3
  <1>23. CASE s.op = "trigger"
    <2>1. QueueTrigger(s.v) BY <1>2, <1>23 DEF PerformStep
    <2>2. fired' = fired \cup {s.v} /\ Done /\ UNCHANGED <<root, divs, lists, info, regd, lost>>
      BY <2>1 DEF QueueTrigger
    <2>3. RootMoves BY <1>1, <2>2, SameRoot
    <2>4. Plain BY <1>3, <2>2, <2>3 DEF Plain, DivsMove
    <2> QED BY <1>6, <1>23, <2>2, <2>4 DEF ConfOps, TemplateOps, MakeOps
  <1>24. CASE s.op = "default"
    <2>1. PICK src : src = NsswitchDefault OBVIOUS
    <2>2. CopyDefault(src, s.path) BY <1>2, <1>24, <2>1 DEF PerformStep
    <2>3. SeesTo(s) = s.path /\ s.op \in MakeOps BY <1>24 DEF SeesTo, MakeOps
    <2>4. GiveUp \/ (Plain /\ Done /\ InPlace(s.path)') BY <1>1, <1>3, <1>4, <2>2, <2>3, DefaultPlain
    <2> QED BY <1>7, <2>3, <2>4
  <1>25. CASE s.op = "pam"
    <2>1. PamGenerate(s.v) BY <1>2, <1>25 DEF PerformStep
    <2>2. PICK p : p = SeesTo(s) OBVIOUS
    <2>3. p = PamFile(s.v) /\ s.op \in MakeOps BY <1>25, <2>2 DEF SeesTo, MakeOps
    <2>4. PICK i \in 1 .. 5 : s.v = PamNames[i] BY <1>4, <1>25
    <2>5. PamGenerate(PamNames[i]) BY <2>1, <2>4, Zenon
    <2>6. GiveUp \/ (Plain /\ Done /\ InPlace(PamFile(PamNames[i]))') BY <1>1, <1>3, <2>5, PamPlain
    <2>7. p = PamFile(PamNames[i]) BY <2>3, <2>4, Zenon
    <2>8. GiveUp \/ (Plain /\ Done /\ InPlace(p)') BY <2>6, <2>7 DEF InPlace, Present, SourcesOf
    <2> QED BY <1>7, <2>2, <2>3, <2>8
  <1>26. CASE s.op = "touch"
    <2>1. Touch(s.path) BY <1>2, <1>26 DEF PerformStep
    <2>2. SeesTo(s) = s.path /\ s.op \in MakeOps BY <1>26 DEF SeesTo, MakeOps
    <2>3. GiveUp \/ (Plain /\ Done /\ InPlace(s.path)') BY <1>1, <1>3, <1>4, <2>1, <2>2, TouchPlain
    <2> QED BY <1>7, <2>2, <2>3
  <1>27. CASE s.op = "alternative"
    <2>1. Alternative(s.path, s.v) BY <1>2, <1>27 DEF PerformStep
    <2>2. SeesTo(s) = s.path /\ s.op \in MakeOps BY <1>27 DEF SeesTo, MakeOps
    <2>3. GiveUp \/ (Plain /\ Done /\ InPlace(s.path)')
      BY <1>1, <1>3, <1>4, <1>27, <2>1, <2>2, AlternativePlain
    <2> QED BY <1>7, <2>2, <2>3
  <1>28. CASE s.op = "refuse"
    <2>1. GiveUp BY <1>2, <1>28 DEF PerformStep
    <2> QED BY <1>3, <2>1, GiveUpKeeps
  <1>29. CASE s.op = "ldconfig"
    <2>1. GoOn BY <1>2, <1>29 DEF PerformStep
    <2>2. Plain /\ Done BY <1>1, <1>3, <2>1, GoOnPlain
    <2> QED BY <1>6, <1>29, <2>2 DEF ConfOps, TemplateOps, MakeOps
  <1>30. CASE s.op = "fifo"
    <2>1. GoOn BY <1>2, <1>30 DEF PerformStep
    <2>2. Plain /\ Done BY <1>1, <1>3, <2>1, GoOnPlain
    <2> QED BY <1>5, <1>30, <2>2
  <1> QED BY <1>4, <1>9, <1>10, <1>11, <1>12, <1>13, <1>14, <1>15, <1>16, <1>17, <1>18, <1>19, <1>20, <1>21,
             <1>22, <1>23, <1>24, <1>25, <1>26, <1>27, <1>28, <1>29, <1>30, <1>31
         DEF PreOps, TarTypes, ConfOps, TemplateOps

LEMMA LosesKeeps ==
    ASSUME Archived, Linked, Scripted, ScriptsInv, UnpackLoses
    PROVE  ScriptsInv'
  <1>1. TreeInv /\ WorkInv BY DEF ScriptsInv
  <1>2. PICK s : s = Head(work.steps) OBVIOUS
  <1>3. PICK a : a = Final(s.path) OBVIOUS
  <1>4. PICK n : n = (IF root[a] = Gone THEN Gone ELSE FileNode(<< >>)) OBVIOUS
  <1>5. /\ work # NoWork /\ menu' = menu /\ s.op = "file" /\ a \in DOMAIN root
        /\ root' = [root EXCEPT ![a] = n] /\ lost' = lost \cup {a} /\ Listed(s.path)
        /\ divs' = divs /\ lists' = lists /\ info' = info /\ regd' = regd /\ fired' = fired
    BY <1>2, <1>3, <1>4 DEF UnpackLoses, Writable
  <1>6. a \in Paths BY <1>1, <1>5 DEF TreeInv
  <1>7. n.kind # "link" BY <1>4, NodeKinds
  <1>8. root'[a] = n => NodeMoves(a) BY <1>5, <1>7 DEF NodeMoves
  <1>9. RootMoves BY <1>1, <1>5, <1>6, <1>8, OneNode
  <1>10. Plain BY <1>5, <1>9 DEF Plain, DivsMove
  <1> QED BY <1>2, <1>5, <1>10, PayloadKeeps

LEMMA FlushKeeps ==
    ASSUME Archived, Linked, Scripted, ScriptsInv, FlushFailsIn
    PROVE  ScriptsInv'
  <1>1. TreeInv /\ DivsInv /\ ListsInv /\ EffectsInv /\ WorkInv BY DEF ScriptsInv
  <1>2. PICK s : s = Head(work.steps) OBVIOUS
  <1>3. PICK q : q = work.pkg OBVIOUS
  <1>4. work # NoWork /\ work' = NoWork /\ menu' = menu /\ regd' = regd /\ fired' = fired
    BY DEF FlushFailsIn, Refused
  <1>5. WorkInv' BY <1>4 DEF WorkInv
  <1>6. q \in Debs /\ (s.op \in TarTypes => s.path \in Paths) /\ (s.op = "merged" => <<s.v>> \in Paths) BY <1>1, <1>2, <1>3, <1>4, StepPaths
  <1>7. ASSUME NEW p \in Rewrites(s), UNCHANGED <<divs, lists, info>>, lost' = lost \cup {p},
               root' = [root EXCEPT ![p] = IF s.op \in {"link", "merged"} THEN Gone ELSE FileNode(<< >>)]
        PROVE  ScriptsInv'
    <2>1. p \in Paths
      <3>1. CASE s.op \in {"file", "pam"}
        <4>1. p \in DOMAIN root BY <1>7, <3>1 DEF Rewrites
        <4> QED BY <1>1, <4>1 DEF TreeInv
      <3>2. CASE s.op = "link"
        <4>1. p = s.path BY <1>7, <3>2 DEF Rewrites
        <4> QED BY <1>6, <3>2, <4>1 DEF TarTypes
      <3>3. CASE s.op = "merged"
        <4>1. p = <<s.v>> BY <1>7, <3>3 DEF Rewrites
        <4> QED BY <1>6, <3>3, <4>1
      <3>4. CASE s.op \notin {"file", "pam", "link", "merged"} BY <1>7, <3>4 DEF Rewrites
      <3> QED BY <3>1, <3>2, <3>3, <3>4
    <2>2. PICK n : n = (IF s.op \in {"link", "merged"} THEN Gone ELSE FileNode(<< >>)) OBVIOUS
    <2>3. n.kind # "link" BY <2>2, NodeKinds
    <2>4. root'[p] = n => NodeMoves(p) BY <1>7, <2>3 DEF NodeMoves
    <2>5. root' = [root EXCEPT ![p] = n] /\ lost \subseteq lost' BY <1>7, <2>2
    <2>6. RootMoves BY <1>1, <2>1, <2>4, <2>5, OneNode
    <2>7. Plain BY <1>4, <1>7, <2>6 DEF Plain, DivsMove
    <2> QED BY <1>5, <2>7, PlainKeeps DEF ScriptsInv
  <1>8. ASSUME divs' = << >>, lost' = lost \cup {<<"diversions">>}, UNCHANGED <<root, lists, info>>
        PROVE  ScriptsInv'
    <2>1. RootMoves BY <1>1, <1>8, SameRoot
    <2>2. DivsMove BY <1>8 DEF DivsMove
    <2>3. Plain BY <1>4, <1>8, <2>1, <2>2 DEF Plain
    <2> QED BY <1>5, <2>3, PlainKeeps DEF ScriptsInv
  <1>9. ASSUME lost \subseteq lost', root' = root, divs' = divs PROVE TreeInv' /\ DivsInv' /\ EffectsInv'
    <2>1. RootMoves /\ DivsMove BY <1>1, <1>9, SameRoot DEF DivsMove
    <2> QED BY <1>1, <1>4, <1>9, <2>1, TreeKept, DivsKept, EffectsKept
  <1>10. ASSUME lists' = [lists EXCEPT ![q] = {}], lost \subseteq lost', UNCHANGED <<root, divs, info>>
         PROVE  ScriptsInv'
    <2>1. DOMAIN lists' = Debs /\ \A k \in Debs : lists'[k] \subseteq lists[k]
      BY <1>1, <1>6, <1>10 DEF ListsInv
    <2>2. ListsInv' BY <1>1, <1>4, <1>10, <2>1 DEF ListsInv, Held
    <2> QED BY <1>5, <1>9, <1>10, <2>2 DEF ScriptsInv
  <1>11. ASSUME info' = [info EXCEPT ![q] = "empty"], lost' = lost \cup {<<"info", q>>},
                UNCHANGED <<root, divs, lists>>
         PROVE  ScriptsInv'
    <2>1. DOMAIN info' = Debs /\ \A k \in Debs : info'[k] = IF k = q THEN "empty" ELSE info[k]
      BY <1>1, <1>6, <1>11 DEF ListsInv
    <2>2. ASSUME NEW k \in Debs
          PROVE  /\ regd'[k] # "none" => info'[k] # "none"
                 /\ info'[k] \notin {"none", "whole"} => <<"info", k>> \in lost'
      BY <1>1, <1>4, <1>11, <2>1 DEF ListsInv
    <2>3. ListsInv' BY <1>1, <1>4, <1>11, <2>1, <2>2 DEF ListsInv, Held
    <2> QED BY <1>5, <1>9, <1>11, <2>3 DEF ScriptsInv
  <1>12. \/ \E p \in Rewrites(s) :
              /\ root' = [root EXCEPT ![p] = IF s.op \in {"link", "merged"} THEN Gone ELSE FileNode(<< >>)]
              /\ lost' = lost \cup {p} /\ UNCHANGED <<divs, lists, info>>
         \/ divs' = << >> /\ lost' = lost \cup {<<"diversions">>} /\ UNCHANGED <<root, lists, info>>
         \/ /\ lists' = [lists EXCEPT ![q] = {}] /\ lost' = lost \cup {<<"list", q>>}
            /\ UNCHANGED <<root, divs, info>>
         \/ /\ info' = [info EXCEPT ![q] = "empty"] /\ lost' = lost \cup {<<"info", q>>}
            /\ UNCHANGED <<root, divs, lists>>
    BY <1>2, <1>3 DEF FlushFailsIn
  <1> QED BY <1>7, <1>8, <1>10, <1>11, <1>12

\* The steps of every preinst.
LEMMA PreinstsAre ==
    ASSUME Archived, NEW p
    PROVE  PreSeq(PreinstSteps(p))
  <1>1. ScriptPaths \subseteq Paths BY DEF Archived
  <1>2. ASSUME NEW v PROVE PreStep(Op("divert", << >>, v)) BY DEF PreStep, PreOps, Op
  <1>3. ASSUME NEW i \in 1 .. 7 PROVE PreStep(Op("merged", << >>, CheckDirs[i]))
    <2>1. <<CheckDirs[i]>> \in ScriptPaths BY DEF ScriptPaths
    <2>2. PICK d : d = CheckDirs[i] OBVIOUS
    <2>3. <<d>> \in Paths BY <1>1, <2>1, <2>2
    <2>4. PreStep(Op("merged", << >>, d)) BY <2>3 DEF PreStep, PreOps, Op
    <2> QED BY <2>2, <2>4
  <1>4. ASSUME NEW a \in {Passwd, Group} PROVE PreStep(Op("master", a, ""))
    <2>1. a \in Paths BY <1>1 DEF ScriptPaths
    <2> QED BY <2>1 DEF PreStep, PreOps, Op
  <1>5. PreStep(Op("zutils", << >>, "")) /\ PreStep(Op("usrlib64", << >>, ""))
        /\ PreStep(Op("lib64", << >>, "")) /\ PreStep(Op("refuse", << >>, ""))
    BY DEF PreStep, PreOps, Op
  <1>6. PreSeq(BaseFilesPreinst)
    <2>1. PICK f : f = [i \in 1 .. 7 |-> Op("merged", << >>, CheckDirs[i])] OBVIOUS
    <2>2. PICK g : g = [i \in 1 .. 3 |-> Diversion(BaseRecords[i])] OBVIOUS
    <2>3. f = [i \in 1 .. 7 |-> f[i]] /\ \A i \in 1 .. 7 : f[i] = Op("merged", << >>, CheckDirs[i]) BY <2>1, Zenon
    <2>4. g = [i \in 1 .. 3 |-> g[i]] /\ \A i \in 1 .. 3 : g[i] = Diversion(BaseRecords[i]) BY <2>2, Zenon
    <2>5. 7 \in Nat /\ 3 \in Nat OBVIOUS
    <2>6. \A i \in 1 .. 7 : PreStep(f[i]) BY <1>3, <2>3, Zenon
    <2>7. \A i \in 1 .. 3 : PreStep(g[i]) BY <1>2, <2>4, Zenon DEF Diversion
    <2>8. PreSeq(f) BY <2>3, <2>5, <2>6, FunPre, Zenon
    <2>9. PreSeq(g) BY <2>4, <2>5, <2>7, FunPre, Zenon
    <2> QED BY <2>1, <2>2, <2>8, <2>9, JoinedPre, Zenon DEF BaseFilesPreinst
  <1>7. PreSeq(BasePasswdPreinst)
    <2>1. PICK a, b : a = Op("master", Passwd, "") /\ b = Op("master", Group, "") OBVIOUS
    <2>2. PreSeq(<<a, b>>) BY <1>4, <2>1, TwoSteps
    <2> QED BY <2>1, <2>2, Zenon DEF BasePasswdPreinst
  <1>8. PreSeq(Libc6Preinst)
    <2>1. PICK a, b : a = Op("usrlib64", << >>, "") /\ b = Op("lib64", << >>, "") OBVIOUS
    <2>2. PICK g : g = [i \in 1 .. 2 |-> Diversion(LibcRecords[i])] OBVIOUS
    <2>3. g = [i \in 1 .. 2 |-> g[i]] /\ \A i \in 1 .. 2 : g[i] = Diversion(LibcRecords[i]) BY <2>2, Zenon
    <2>4. \A i \in 1 .. 2 : PreStep(g[i]) BY <1>2, <2>3, Zenon DEF Diversion
    <2>5. 2 \in Nat OBVIOUS
    <2>6. PreSeq(g) BY <2>3, <2>4, <2>5, FunPre, Zenon
    <2>7. PreSeq(<<a, b>>) BY <1>5, <2>1, TwoSteps
    <2> QED BY <2>1, <2>2, <2>6, <2>7, JoinedPre, Zenon DEF Libc6Preinst
  <1>9. PreSeq(GzipPreinst) /\ PreSeq(<<Op("refuse", << >>, "")>>) BY <1>5, FewSteps, Zenon DEF GzipPreinst
  <1>10. PreSeq(<< >>) BY FewSteps
  <1>11. PreinstSteps(p) \in {<< >>, <<Op("refuse", << >>, "")>>, BaseFilesPreinst, BasePasswdPreinst, GzipPreinst,
                              Libc6Preinst}
    BY DEF PreinstSteps, DashPreinst, LoginPreinst, LibpamModulesPreinst
  <1> QED BY <1>6, <1>7, <1>8, <1>9, <1>10, <1>11, Zenon

LEMMA InstallStepsAre ==
    ASSUME Archived, NEW q \in Debs
    PROVE  /\ \E S : InstallSteps(q) \in Seq(S)
           /\ Len(InstallSteps(q)) >= 3
           /\ InstallRest(q, InstallSteps(q))
  <1>1. PICK a : a = PreinstSteps(q) OBVIOUS
  <1>2. PICK S : a \in Seq(S) /\ \A s \in S : PreStep(s) BY <1>1, PreinstsAre DEF PreSeq
  <1>3. PICK b : b = [i \in DOMAIN Payloads[q] |-> Op(Payloads[q][i].type, Payloads[q][i].path, Payloads[q][i].v)]
    OBVIOUS
  <1>4. PICK n \in Nat : DOMAIN Payloads[q] = 1 .. n
    <2>1. PICK E : Payloads[q] \in Seq(E) BY DEF Archived
    <2> QED BY <2>1
  <1>5. ASSUME NEW i \in 1 .. n PROVE PayStep(q, b[i])
    <2>1. b[i] = Op(Payloads[q][i].type, Payloads[q][i].path, Payloads[q][i].v) BY <1>3, <1>4
    <2>2. b[i].op = Payloads[q][i].type /\ b[i].path = Payloads[q][i].path /\ b[i].v = Payloads[q][i].v
      BY <2>1 DEF Op
    <2>3. Payloads[q][i].type \in TarTypes BY <1>4 DEF Archived
    <2> QED BY <1>4, <2>2, <2>3 DEF PayStep, FromPayload
  <1>6. PICK T : T = {b[i] : i \in 1 .. n} OBVIOUS
  <1>7. b \in Seq(T) /\ Len(b) = n /\ \A s \in T : PayStep(q, s)
    <2>1. b \in [1 .. n -> T] BY <1>3, <1>4, <1>6
    <2>2. b \in Seq(T) /\ Len(b) = n BY <2>1, FunSeq
    <2>3. \A s \in T : PayStep(q, s) BY <1>5, <1>6, Zenon
    <2> QED BY <2>2, <2>3
  <1>8. PICK x, y, z : x = Op("list", << >>, "") /\ y = Op("control", << >>, "") /\ z = Op("stanza", << >>, "")
    OBVIOUS
  <1>9. x.op = "list" /\ y.op = "control" /\ z.op = "stanza" BY <1>8 DEF Op
  <1>10. PICK c, R : c = <<x, y, z>> /\ R = {x, y, z} OBVIOUS
  <1>11. c \in Seq(R) /\ Len(c) = 3 /\ c[1] = x /\ c[2] = y /\ c[3] = z BY <1>10
  <1>12. PICK d, U : d = a \o b /\ U = S \cup T OBVIOUS
  <1>13. d \in Seq(U) BY <1>2, <1>7, <1>12, Joined
  <1>14. \A s \in U : PreStep(s) \/ PayStep(q, s) BY <1>2, <1>7, <1>12
  <1>15. PICK st, V : st = d \o c /\ V = U \cup R OBVIOUS
  <1>16. st = InstallSteps(q) BY <1>1, <1>3, <1>8, <1>10, <1>12, <1>15, Zenon DEF InstallSteps
  <1>17. PICK m \in Nat : m = Len(d) BY <1>13
  <1>18. st \in Seq(V) /\ Len(st) = m + 3 /\ st[m + 1] = x /\ st[m + 2] = y /\ st[m + 3] = z
         /\ \A i \in 1 .. m : st[i] = d[i]
    <2>0. /\ d \o c \in Seq(U \cup R) /\ Len(d \o c) = Len(d) + Len(c)
          /\ \A i \in 1 .. Len(d) : (d \o c)[i] = d[i]
          /\ \A i \in 1 .. Len(c) : (d \o c)[Len(d) + i] = c[i]
      <3>1. c \in Seq(R) /\ d \in Seq(U) BY <1>11, <1>13, Zenon
      <3> QED BY <3>1, Joined
    <2>1. /\ st \in Seq(V) /\ Len(st) = m + Len(c)
          /\ \A i \in 1 .. m : st[i] = d[i]
          /\ \A i \in 1 .. Len(c) : st[m + i] = c[i]
      BY <1>15, <1>17, <2>0, Zenon
    <2>2. 1 \in 1 .. Len(c) /\ 2 \in 1 .. Len(c) /\ 3 \in 1 .. Len(c) BY <1>11
    <2>3. st[m + 1] = x /\ st[m + 2] = y /\ st[m + 3] = z BY <1>11, <2>1, <2>2, Zenon
    <2> QED BY <1>11, <2>1, <2>3
  <1>19. Len(st) >= 3 /\ Len(st) - 1 = m + 2 /\ Len(st) - 2 = m + 1 /\ Len(st) - 3 = m BY <1>17, <1>18
  <1>20. ASSUME NEW i \in 1 .. m PROVE PreStep(st[i]) \/ PayStep(q, st[i])
    <2>1. d[i] \in U BY <1>13, <1>17
    <2> QED BY <1>14, <1>18, <2>1
  <1>21. InstallRest(q, st) BY <1>9, <1>18, <1>19, <1>20 DEF InstallRest
  <1> QED BY <1>16, <1>18, <1>19, <1>21

LEMMA InstallDebKeeps ==
    ASSUME Archived, Linked, Scripted, ScriptsInv, NEW q \in menu, InstallDeb(q)
    PROVE  ScriptsInv'
  <1>1. TreeInv BY DEF ScriptsInv
  <1>2. q \in Debs BY <1>1 DEF TreeInv, Archived
  <1>3. PICK st : st = InstallSteps(q) OBVIOUS
  <1>4. work' = [pkg |-> q, steps |-> st, list |-> {}] /\ menu' = menu
        /\ UNCHANGED <<root, divs, lists, info, regd, fired, lost>>
    BY <1>3 DEF InstallDeb
  <1>5. Plain BY <1>1, <1>4, SameIsPlain
  <1>6. work'.pkg = q /\ work'.steps = st /\ work'.list = {} BY <1>4
  <1>7. (\E S : st \in Seq(S)) /\ Len(st) >= 3 /\ InstallRest(q, st) BY <1>2, <1>3, InstallStepsAre
  <1>8. Len(st) \in Nat BY <1>7
  <1>9. ~(Len(st) < 3) /\ ~(Len(st) < 2) /\ Len(st) >= 1 BY <1>7, <1>8
  <1>10. Installing(work)' BY <1>6, <1>7, <1>9, Zenon DEF Installing
  <1>11. WorkInv' BY <1>2, <1>4, <1>6, <1>7, <1>9, <1>10, Zenon DEF WorkInv
  <1> QED BY <1>5, <1>11, PlainKeeps DEF ScriptsInv

\* The steps of every postinst, and of one whose script was emptied.
LEMMA PostinstsAre ==
    ASSUME Archived, Linked, Scripted, NEW q \in Debs
    PROVE  PostSeq(PostinstSteps(q)) /\ PostSeq(EmptySteps(q))
  <1>1. ScriptPaths \subseteq Paths BY DEF Archived
  <1>2. ASSUME NEW op \in {"trigger", "refuse", "ldconfig", "profile"}, NEW p, NEW v
        PROVE  PostStep(Op(op, p, v))
    BY DEF PostStep, ConfOps, TemplateOps, MakeOps, Op
  <1>3. ASSUME NEW op \in {"default", "touch"}, NEW p \in Paths PROVE PostStep(Op(op, p, ""))
    BY DEF PostStep, ConfOps, TemplateOps, MakeOps, SeesTo, Op
  <1>4. ASSUME NEW p \in Paths, NEW v, p \in {Pager, PagerMan} PROVE PostStep(Op("alternative", p, v))
    BY <1>4 DEF PostStep, ConfOps, TemplateOps, MakeOps, SeesTo, Op
  <1>5. ASSUME NEW i \in 1 .. 5 PROVE PostStep(Op("pam", << >>, PamNames[i]))
    <2>1. PICK v : v = PamNames[i] OBVIOUS
    <2>2. PamFile(v) \in ScriptPaths BY <2>1, Zenon DEF ScriptPaths
    <2>3. PamFile(v) \in Paths BY <1>1, <2>2
    <2>4. PostStep(Op("pam", << >>, v)) BY <2>1, <2>3 DEF PostStep, ConfOps, TemplateOps, MakeOps, SeesTo, Op
    <2> QED BY <2>1, <2>4
  <1>6. PostSeq(<<Refusal>>) BY <1>2, FewSteps DEF Refusal
  <1>7. ASSUME NEW p, NEW st, PostSeq(st) PROVE PostSeq(Signed(p, st)) BY <1>6, <1>7 DEF Signed
  <1>8. PostSeq(Libc6Postinst)
    <2>1. PICK a : a = Op("trigger", << >>, "libc-upgrade") OBVIOUS
    <2>2. PostSeq(<<a>>) BY <1>2, <2>1, FewSteps
    <2> QED BY <1>7, <2>1, <2>2, Zenon DEF Libc6Postinst
  <1>9. PostSeq(LibcBinPostinst)
    <2>1. PICK a, b : a = Op("default", Nsswitch, "") /\ b = Op("ldconfig", << >>, "") OBVIOUS
    <2>2. Nsswitch \in Paths BY <1>1 DEF ScriptPaths
    <2>3. PostSeq(<<a, b>>) BY <1>2, <1>3, <2>1, <2>2, TwoSteps
    <2> QED BY <1>7, <2>1, <2>3, Zenon DEF LibcBinPostinst
  <1>10. PostSeq(LibpamRuntimePostinst)
    <2>1. PICK a : a = Op("profile", UnixProfile, "") OBVIOUS
    <2>2. DOMAIN PamNames = 1 .. 5 BY DEF PamNames
    <2>3. PICK g : g = [i \in 1 .. 5 |-> Op("pam", << >>, PamNames[i])] OBVIOUS
    <2>4. g = [i \in 1 .. 5 |-> g[i]] /\ \A i \in 1 .. 5 : g[i] = Op("pam", << >>, PamNames[i]) BY <2>3, Zenon
    <2>5. \A i \in 1 .. 5 : PostStep(g[i]) BY <1>5, <2>4, Zenon
    <2>6. 5 \in Nat OBVIOUS
    <2>7. PostSeq(g) BY <2>4, <2>5, <2>6, FunPost, Zenon
    <2>8. PostSeq(<<a>>) BY <1>2, <2>1, FewSteps
    <2> QED BY <2>1, <2>2, <2>3, <2>7, <2>8, JoinedPost, Zenon DEF LibpamRuntimePostinst
  <1>11. PostSeq(LibpamModulesPostinst)
    <2>1. PICK a, b : a = Op("touch", Opasswd, "") /\ b = Op("touch", Environment, "") OBVIOUS
    <2>2. Opasswd \in Paths /\ Environment \in Paths BY <1>1 DEF ScriptPaths
    <2>3. PostSeq(<<a, b>>) BY <1>3, <2>1, <2>2, TwoSteps
    <2> QED BY <2>1, <2>3, Zenon DEF LibpamModulesPostinst
  <1>12. PostSeq(UtilLinuxPostinst)
    <2>1. PICK a, b : /\ a = Op("alternative", Pager, <<"bin", "more">>)
                      /\ b = Op("alternative", PagerMan, <<"more.1.gz">>)
      OBVIOUS
    <2>2. Pager \in Paths /\ PagerMan \in Paths BY <1>1 DEF ScriptPaths
    <2>4. PostStep(a) /\ PostStep(b) BY <1>4, <2>1, <2>2
    <2>5. PostSeq(<<a, b>>) BY <2>4, TwoSteps
    <2> QED BY <1>7, <2>1, <2>5, Zenon DEF UtilLinuxPostinst
  <1>13. PostSeq(NoOpPostinst(q)) BY <1>7, FewSteps DEF NoOpPostinst
  <1>14. PostSeq(TemplateSteps(Postinsts[q]))
    <2>1. PICK S : S = ToSet(TemplateSteps(Postinsts[q])) OBVIOUS
    <2>0. TemplateSteps(Postinsts[q]) \in Seq(S) BY <2>1, Zenon DEF Scripted
    <2>2. ASSUME NEW s \in S PROVE PostStep(s)
      <3>1. /\ s.op \in TemplateOps
            /\ s.op = "recipe" => s.v \in DOMAIN Recipes /\ s.path = RecipePath(s.v)
        BY <2>1, <2>2, Zenon DEF Scripted
      <3> QED BY <3>1 DEF PostStep, ConfOps, TemplateOps, MakeOps, SeesTo
    <2> QED BY <2>0, <2>2, Zenon DEF PostSeq
  <1>15. PostinstSteps(q) \in {Libc6Postinst, LibcBinPostinst, LibpamRuntimePostinst, LibpamModulesPostinst,
                               UtilLinuxPostinst, NoOpPostinst(q), TemplateSteps(Postinsts[q])}
    BY DEF PostinstSteps
  <1>16. PostSeq(PostinstSteps(q)) BY <1>8, <1>9, <1>10, <1>11, <1>12, <1>13, <1>14, <1>15, Zenon
  <1>17. EmptySteps(q) \in {<<Refusal>>, PostinstSteps(q), << >>} BY DEF EmptySteps
  <1> QED BY <1>6, <1>16, <1>17, FewSteps, Zenon

LEMMA ConfigureDebKeeps ==
    ASSUME Archived, Linked, Scripted, ScriptsInv, NEW q \in menu, ConfigureDeb(q)
    PROVE  ScriptsInv'
  <1>1. TreeInv /\ ListsInv BY DEF ScriptsInv
  <1>2. q \in Debs BY <1>1 DEF TreeInv, Archived
  <1>3. PICK b : b = (IF info[q] = "whole" THEN PostinstSteps(q) ELSE EmptySteps(q)) OBVIOUS
  <1>4. PICK z : z = Op("installed", << >>, "") OBVIOUS
  <1>5. PICK st : st = b \o <<z>> OBVIOUS
  <1>6. /\ work' = [pkg |-> q, list |-> {}, steps |-> st] /\ menu' = menu
        /\ regd[q] = "unpacked" /\ Attested(q)
        /\ UNCHANGED <<root, divs, lists, info, regd, fired, lost>>
    BY <1>3, <1>4, <1>5 DEF ConfigureDeb
  <1>7. Plain BY <1>1, <1>6, SameIsPlain
  <1>8. /\ work'.pkg = q /\ work'.steps = st
        /\ work' = [pkg |-> work'.pkg, steps |-> work'.steps, list |-> work'.list]
    BY <1>6
  <1>9. PICK S : b \in Seq(S) /\ \A s \in S : PostStep(s)
    <2>1. PostSeq(b) BY <1>2, <1>3, PostinstsAre
    <2> QED BY <2>1 DEF PostSeq
  <1>10. PICK m \in Nat : m = Len(b) BY <1>9
  <1>11. PICK V : st \in Seq(V) /\ Len(st) = m + 1 /\ st[m + 1] = z /\ \A i \in 1 .. m : st[i] = b[i]
    <2>1. PICK c, R : c = <<z>> /\ R = {z} OBVIOUS
    <2>2. c \in Seq(R) /\ Len(c) = 1 /\ c[1] = z BY <2>1
    <2>3. /\ b \o c \in Seq(S \cup R) /\ Len(b \o c) = Len(b) + Len(c)
          /\ \A i \in 1 .. Len(b) : (b \o c)[i] = b[i]
          /\ \A i \in 1 .. Len(c) : (b \o c)[Len(b) + i] = c[i]
      BY <1>9, <2>2, Joined
    <2>4. 1 \in 1 .. Len(c) BY <2>2
    <2> QED BY <1>5, <1>10, <2>1, <2>2, <2>3, <2>4, Zenon
  <1>12. Len(st) - 1 = m /\ Len(st) >= 1 BY <1>10, <1>11
  <1>13. z.op = "installed" BY <1>4 DEF Op
  <1>14. ASSUME NEW i \in 1 .. m PROVE PostStep(st[i])
    <2>1. b[i] \in S BY <1>9, <1>10
    <2> QED BY <1>9, <1>11, <2>1
  <1>15. ConfigureRest(st)
    <2>1. st[Len(st)].op = "installed" BY <1>11, <1>13
    <2> QED BY <1>12, <1>14, <2>1 DEF ConfigureRest
  <1>16. ASSUME <<"info", q>> \notin lost PROVE b = PostinstSteps(q)
    <2>1. regd[q] # "none" BY <1>6
    <2>2. info[q] = "whole" BY <1>1, <1>2, <1>16, <2>1 DEF ListsInv
    <2> QED BY <1>3, <2>2
  <1>17. DOMAIN b = 1 .. m BY <1>9, <1>10
  <1>18. ASSUME <<"info", q>> \notin lost, NEW p \in Promised[q]
         PROVE  \E i \in 1 .. Len(st) - 1 : Makes(st[i], p) \/ Refuses(st[i])
    <2>1. PICK i \in DOMAIN b : Makes(b[i], p) \/ b[i].op = "refuse"
      BY <1>2, <1>16, <1>18 DEF Scripted
    <2> QED BY <1>11, <1>12, <1>17, <2>1 DEF Refuses
  <1>19. ASSUME <<"info", q>> \notin lost, q = "libc6"
         PROVE  /\ Recorded
                /\ \E i \in 1 .. Len(st) - 1 : (st[i].op = "trigger" /\ st[i].v = "libc-upgrade") \/ Refuses(st[i])
    <2>1. Recorded
      <3>1. Preinsts["libc6"] # "none" BY DEF Scripted
      <3> QED BY <1>6, <1>19, <3>1 DEF Attested, Recorded
    <2>2. b = Libc6Postinst
      <3>1. PostinstSteps("libc6") = Libc6Postinst BY DEF PostinstSteps, NoOps
      <3> QED BY <1>16, <1>19, <3>1, Zenon
    <2>3. PICK x : b = <<x>> /\ x \in {Op("trigger", << >>, "libc-upgrade"), Refusal}
      BY <2>2 DEF Libc6Postinst, Signed
    <2>4. (x.op = "trigger" /\ x.v = "libc-upgrade") \/ Refuses(x)
      <3>1. CASE x = Op("trigger", << >>, "libc-upgrade")
        <4>1. x.op = "trigger" /\ x.v = "libc-upgrade" BY <3>1 DEF Op
        <4> QED BY <4>1
      <3>2. CASE x = Refusal
        <4>1. x.op = "refuse" BY <3>2 DEF Refusal, Op
        <4> QED BY <4>1 DEF Refuses
      <3> QED BY <2>3, <3>1, <3>2, Zenon
    <2>5. m = 1 /\ b[1] = x BY <1>10, <2>3
    <2>6. st[1] = x /\ 1 \in 1 .. Len(st) - 1 BY <1>11, <1>12, <2>5
    <2> QED BY <2>1, <2>4, <2>6
  <1>20. Configuring(work)'
    <2>1. regd'[q] # "none" /\ lost' = lost BY <1>6
    <2>2. Recorded' <=> Recorded BY <1>6 DEF Recorded
    <2> QED BY <1>8, <1>15, <1>18, <1>19, <2>1, <2>2, Zenon DEF Configuring
  <1>21. WorkInv' BY <1>2, <1>8, <1>11, <1>12, <1>20, Zenon DEF WorkInv
  <1> QED BY <1>7, <1>21, PlainKeeps DEF ScriptsInv

------------------------------------------------------------------------------
(* The theorems                                                              *)

LEMMA InitHolds ==
    ASSUME Archived, Linked, ScriptsInit
    PROVE  ScriptsInv
  <1>1. TreeInv BY DEF ScriptsInit, TreeInv, Archived, Linked
  <1>2. DivsInv
    <2>1. divs \in Seq({}) /\ DOMAIN divs = {} BY DEF ScriptsInit
    <2> QED BY <2>1 DEF DivsInv, DiversionsUnique
  <1>3. ListsInv BY DEF ScriptsInit, ListsInv
  <1>4. EffectsInv BY DEF ScriptsInit, EffectsInv
  <1>5. WorkInv BY DEF ScriptsInit, WorkInv
  <1> QED BY <1>1, <1>2, <1>3, <1>4, <1>5 DEF ScriptsInv

\* ScriptsInv is an invariant: at every step of an install or a configure the target,
\* the diversions and the database are as far as the command says, wherever commands
\* fail, are repeated or lose a file that they rewrite.
THEOREM ScriptsInvCorrect == ScriptsSpec => []ScriptsInv
  <1> USE PackagesAssumption
  <1>1. ASSUME ScriptsInv, ScriptsNext PROVE ScriptsInv'
    <2>1. ASSUME StepFails PROVE ScriptsInv'
      <3>1. GiveUp /\ menu' = menu BY <2>1 DEF StepFails
      <3> QED BY <1>1, <3>1, GiveUpKeeps
    <2> QED BY <1>1, <2>1, InstallDebKeeps, ConfigureDebKeeps, LosesKeeps, PerformKeeps, FlushKeeps
            DEF ScriptsNext
  <1>2. ASSUME ScriptsInv, UNCHANGED scriptVars PROVE ScriptsInv'
    <2>1. UNCHANGED <<root, divs, lists, info, regd, fired, lost>> /\ menu' = menu /\ work' = work
      BY <1>2 DEF scriptVars
    <2>2. TreeInv BY <1>2 DEF ScriptsInv
    <2>3. Plain BY <2>1, <2>2, SameIsPlain
    <2>4. WorkInv'
      BY <1>2, <2>1 DEF ScriptsInv, WorkInv, Installing, Configuring, Held, InPlace, Present, Recorded
    <2> QED BY <1>2, <2>3, <2>4, PlainKeeps DEF ScriptsInv
  <1> QED BY <1>1, <1>2, InitHolds, PTL DEF ScriptsSpec

\* One name has one diversion, a link on the list of a registered package leads where
\* the package made it lead unless a failed write lost it, and a package that counts
\* as installed has what its scripts promise unless a failed write lost that, or the
\* recipe or template it is made from: for all packages and targets that are
\* Archived, Linked and Scripted and every sequence of failed and repeated commands.
THEOREM ScriptsCorrect == ScriptsSpec => []ScriptsSound
  <1>1. ASSUME ScriptsInv PROVE ScriptsSound
    <2>1. DiversionsUnique BY <1>1 DEF ScriptsInv, DivsInv
    <2>2. ClaimsHold
      <3>1. SUFFICES ASSUME NEW q \in Debs, NEW i \in DOMAIN Payloads[q], regd[q] # "none",
                            Payloads[q][i].type = "link", Payloads[q][i].path \in lists[q],
                            Payloads[q][i].path \notin lost
                     PROVE  root[Payloads[q][i].path] = LinkNode(Payloads[q][i].v)
        BY DEF ClaimsHold
      <3>2. IsLinkEntry(q, i) BY <3>1 DEF IsLinkEntry
      <3>3. Held(Payloads[q][i]) BY <1>1, <3>1, <3>2 DEF ScriptsInv, ListsInv
      <3> QED BY <3>1, <3>3 DEF Held
    <2>3. EffectsThere
      <3>1. SUFFICES ASSUME NEW q \in Debs, regd[q] = "installed", <<"info", q>> \notin lost
                     PROVE  /\ \A p \in Promised[q] : Exists(p) \/ ({p} \cup SourcesOf(p)) \cap lost # {}
                            /\ q = "libc6" => Recorded /\ "libc-upgrade" \in fired
        BY Zenon DEF EffectsThere, Recorded
      <3>2. /\ \A p \in Promised[q] : InPlace(p)
            /\ q = "libc6" => Recorded /\ "libc-upgrade" \in fired
        BY <1>1, <3>1, Zenon DEF ScriptsInv, EffectsInv
      <3>3. ASSUME NEW p \in Promised[q] PROVE Exists(p) \/ ({p} \cup SourcesOf(p)) \cap lost # {}
        <4>1. p \in Paths BY PackagesAssumption, Zenon DEF Scripted
        <4>2. p \in DOMAIN root BY <1>1, <4>1 DEF ScriptsInv, TreeInv
        <4>3. InPlace(p) BY <3>2
        <4> QED BY <4>2, <4>3 DEF InPlace, Present, Exists, Stats, Final, IsLink
      <3> QED BY <3>2, <3>3
    <2> QED BY <2>1, <2>2, <2>3 DEF ScriptsSound
  <1>2. ScriptsSpec => []ScriptsInv BY ScriptsInvCorrect
  <1> QED BY <1>1, <1>2, PTL
============================================================================
