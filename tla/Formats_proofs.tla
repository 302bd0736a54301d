--------------------------- MODULE Formats_proofs ---------------------------
(***************************************************************************)
(* Proofs about Formats, for volumes of every size and all options: a      *)
(* format that reports success, none of whose writes was dropped, has left *)
(* the FAT or NTFS file system that it planned.  A format is a program of  *)
(* writes; ProgramInv says that the writes made are steps of the program,  *)
(* and its first ones as long as none was dropped, so that a format that   *)
(* is through has then made them all, and what a unit holds is decided by  *)
(* the last of them over it.                                               *)
(***************************************************************************)
EXTENDS Formats, TLAPS, SequenceTheorems

------------------------------------------------------------------------------
(* The program of a format                                                   *)

\* the steps that a command with these arguments sets out with
Program(cmd, v, o) ==
    IF cmd # "ntfs" THEN IF OffsetFits(v, o) THEN FatSteps(v, o) ELSE <<EndWith(2)>>
    ELSE IF OffsetFits(v, o) /\ o.mft # o.mirr THEN NtfsSteps(v, o, Plan(v, o)) ELSE <<EndWith(2)>>

\* a write over unit u, and the last of the writes before the k-th over it
Over(w, u) == w.at <= u /\ u < w.at + w.len

LastOver(w, k, i, u) == i \in 1 .. k - 1 /\ Over(w[i], u) /\ \A j \in i + 1 .. k - 1 : ~Over(w[j], u)

\* write i is the one that step i of the program asked for; a copy took what its
\* source held then
Follows(S, w, i) ==
    /\ S[i].do # "stop" /\ w[i].at = S[i].at /\ w[i].len = S[i].len
    /\ S[i].do # "copy" => w[i].tag = S[i].tag
    /\ S[i].do = "copy" => \A j : LastOver(w, i, j, S[i].tag) => w[i].tag = w[j].tag

\* write w is one that step s asked for
Asked(s, w) == s.do # "stop" /\ w.at = s.at /\ w.len = s.len /\ (s.do # "copy" => w.tag = s.tag)

\* The inductive invariant: the format has gone through k steps of its program, every
\* write made was asked for by one of them, and a format that ends with another code
\* than that of a failed write does so where its program says.  As long as no write
\* was dropped, the writes made are those k steps in their order.
Gone(S, k) ==
    /\ k \in Nat /\ k < Len(S)
    /\ \A i \in 1 .. Len(writes) : \E j \in 1 .. k : Asked(S[j], writes[i])
    /\ fmt.rc = Running => fmt.steps = SubSeq(S, k + 1, Len(S))
    /\ fmt.rc \notin {Running, 4} => S[k + 1].do = "stop" /\ S[k + 1].tag = fmt.rc
    /\ ~dropped => k = Len(writes) /\ \A i \in 1 .. Len(writes) : Follows(S, writes, i)
Given ==
    /\ DOMAIN fmt = {"cmd", "vol", "opt", "steps", "rc"} /\ fmt.vol \in Volumes
    /\ \/ fmt.cmd \in {"fat", "vfat"} /\ fmt.opt \in FatOptions
       \/ fmt.cmd = "ntfs" /\ fmt.opt \in NtfsOptions
ProgramInv ==
    IF fmt.cmd = "none" THEN fmt = NoFormat /\ writes = << >> /\ ~dropped
    ELSE /\ Given
         /\ \E W : writes \in Seq(W)
         /\ \E k : Gone(Program(fmt.cmd, fmt.vol, fmt.opt), k)

\* every program ends with a stop, and a stop's code is a number that Running is not
ProgramOK(S) ==
    /\ \E T : S \in Seq(T)
    /\ Len(S) >= 1 /\ S[Len(S)].do = "stop"
    /\ \A i \in 1 .. Len(S) : S[i].do = "stop" => S[i].tag \in Nat

\* What a unit holds is the tag of the last write over it (Owner).
LEMMA OwnerIs ==
    ASSUME NEW W, writes \in Seq(W), NEW u, NEW i, LastOver(writes, Len(writes) + 1, i, u)
    PROVE  Owner(u) = writes[i].tag
  <1> DEFINE over == {j \in DOMAIN writes : writes[j].at <= u /\ u < writes[j].at + writes[j].len}
  <1>1. DOMAIN writes = 1 .. Len(writes) /\ Len(writes) \in Nat OBVIOUS
  <1>2. i \in over /\ \A j \in over : j <= i /\ j \in Nat
    BY <1>1 DEF LastOver, Over
  <1>3. (CHOOSE k \in over : \A j \in over : j <= k) = i
    <2> HIDE DEF over
    <2>1. \E k \in over : \A j \in over : j <= k BY <1>2
    <2>2. PICK c : c = CHOOSE k \in over : \A j \in over : j <= k OBVIOUS
    <2>3. c \in over /\ \A j \in over : j <= c BY <2>1, <2>2
    <2> QED BY <1>2, <2>2, <2>3
  <1>4. over # {} BY <1>2
  <1>5. Owner(u) = IF over = {} THEN "old" ELSE writes[CHOOSE k \in over : \A j \in over : j <= k].tag
    BY DEF Owner
  <1> QED BY <1>3, <1>4, <1>5

\* Taking the next step off what is left of a program.
LEMMA SubSeqFacts ==
    ASSUME NEW T, NEW S \in Seq(T), NEW n \in Nat, n < Len(S)
    PROVE  /\ Head(SubSeq(S, n + 1, Len(S))) = S[n + 1]
           /\ Tail(SubSeq(S, n + 1, Len(S))) = SubSeq(S, n + 2, Len(S))
  <1>l. Len(S) \in Nat OBVIOUS
  <1>1. PICK R : R = SubSeq(S, n + 1, Len(S)) OBVIOUS
  <1>2. R \in Seq(T) /\ Len(R) = Len(S) - n /\ \A i \in 1 .. Len(S) - n : R[i] = S[n + i]
    BY <1>1, <1>l, SubSeqProperties
  <1>3. R # << >> BY <1>2, <1>l
  <1>4. Head(R) = R[1] /\ Tail(R) \in Seq(T) /\ Len(Tail(R)) = Len(R) - 1
          /\ \A i \in 1 .. Len(R) - 1 : Tail(R)[i] = R[i + 1]
    BY <1>2, <1>3, HeadTailProperties
  <1>5. PICK Q : Q = SubSeq(S, n + 2, Len(S)) OBVIOUS
  <1>6. Q \in Seq(T) /\ Len(Q) = Len(S) - n - 1 /\ \A i \in 1 .. Len(S) - n - 1 : Q[i] = S[n + 1 + i]
    BY <1>5, <1>l, SubSeqProperties
  <1>7. \A i \in 1 .. Len(Tail(R)) : Tail(R)[i] = Q[i] BY <1>2, <1>4, <1>6, <1>l
  <1>8. Tail(R) = Q BY <1>2, <1>4, <1>6, <1>7, <1>l, SeqEqual
  <1> QED BY <1>1, <1>2, <1>4, <1>5, <1>8, <1>l

\* what a step does, and a step that ends the format
Does(s, do, at, len, tag) == s.do = do /\ s.at = at /\ s.len = len /\ s.tag = tag
Stops(s, rc) == s.do = "stop" /\ s.tag = rc

\* the program of mkfs_fat_format, step by step
FatList(F, lba, fatsz, S) ==
    LET fat1 == lba + Rsvd(F)
        fat2 == lba + Rsvd(F) + fatsz
        root == lba + Rsvd(F) + fatsz + fatsz
    IN  IF F = 32
        THEN /\ Len(S) = 8
             /\ Does(S[1], "write", lba, 1, "boot")
             /\ Does(S[2], "write", lba + 1, 1, "fsinfo")
             /\ Does(S[3], "write", lba + 6, 1, "boot")
             /\ Does(S[4], "write", fat1, fatsz, "fat")
             /\ Does(S[5], "write", fat2, fatsz, "fat")
             /\ Does(S[6], "write", fat1, 1, "head")
             /\ Does(S[7], "write", fat2, 1, "head")
             /\ Stops(S[8], 0)
        ELSE /\ Len(S) = 7
             /\ Does(S[1], "write", lba, 1, "boot")
             /\ Does(S[2], "write", fat1, fatsz, "fat")
             /\ Does(S[3], "write", fat2, fatsz, "fat")
             /\ Does(S[4], "write", root, RootSecs(F), "root")
             /\ Does(S[5], "write", fat1, 1, "head")
             /\ Does(S[6], "write", fat2, 1, "head")
             /\ Stops(S[7], 0)

CopyOf(L, r) ==
    [do |-> "copy", at |-> RecordAt(L, L.mirr, r), len |-> RecordBytes \div 512,
     tag |-> RecordAt(L, L.mft, r)]

\* the program of mkfs_ntfs_core behind the check of the layout, step by step
NtfsList(L, S) ==
    /\ Len(S) = 21
    /\ Does(S[1], "write", L.base, 1, "boot")
    /\ Does(S[2], "write", L.base + (L.totsec - 1) * L.sector, 1, "boot")
    /\ Does(S[3], "write", ClusterAt(L, L.mft), 32, "zero")
    /\ Does(S[4], "write", ClusterAt(L, L.mirr), 8, "zero")
    /\ \A r \in 0 .. 8 :
         \/ RecordBuilds(L, r) /\ Does(S[5 + r], "checked", RecordAt(L, L.mft, r), 2, <<"record", r>>)
         \/ ~RecordBuilds(L, r) /\ Stops(S[5 + r], 4)
    /\ Does(S[14], "checked", ClusterAt(L, L.attrdef), 8, "attrdef")
    /\ Does(S[15], "write", ClusterAt(L, L.log), 16 * L.unit, "log")
    /\ Does(S[16], "checked", ClusterAt(L, L.bitmap), L.bitmapLen * L.unit, <<"bitmap", Marked(L)>>)
    /\ \A r \in 0 .. 3 :
         Does(S[17 + r], "copy", RecordAt(L, L.mirr, r), 2, RecordAt(L, L.mft, r))
    /\ Stops(S[21], 0)

\* The steps of the nine records, one by one and together.
LEMMA RecordSteps ==
    ASSUME NEW L, NEW S,
           S[5] = RecordStep(L, 0), S[6] = RecordStep(L, 1), S[7] = RecordStep(L, 2),
           S[8] = RecordStep(L, 3), S[9] = RecordStep(L, 4), S[10] = RecordStep(L, 5),
           S[11] = RecordStep(L, 6), S[12] = RecordStep(L, 7), S[13] = RecordStep(L, 8)
    PROVE  \A r \in 0 .. 8 : S[5 + r] = RecordStep(L, r)
  OBVIOUS

\* The copies of the four records to the mirror, one by one and together.
LEMMA CopySteps ==
    ASSUME NEW L, NEW S,
           S[17] = CopyOf(L, 0), S[18] = CopyOf(L, 1), S[19] = CopyOf(L, 2), S[20] = CopyOf(L, 3)
    PROVE  \A r \in 0 .. 3 : S[17 + r] = CopyOf(L, r)
  OBVIOUS

\* FatWrites and the end are the steps of FatList.
LEMMA FatProgram ==
    ASSUME NEW F, NEW lba, NEW fatsz
    PROVE  LET S == FatWrites(F, lba, fatsz) \o <<EndWith(0)>>
           IN  FatList(F, lba, fatsz, S) /\ \E T : S \in Seq(T)
  <1>a. PICK a : a = Write(lba, 1, "boot") OBVIOUS
  <1>b. PICK b : b = Write(lba + 1, 1, "fsinfo") OBVIOUS
  <1>c. PICK c : c = Write(lba + 6, 1, "boot") OBVIOUS
  <1>d. PICK d : d = Write(lba + Rsvd(F), fatsz, "fat") OBVIOUS
  <1>e. PICK e : e = Write(lba + Rsvd(F) + fatsz, fatsz, "fat") OBVIOUS
  <1>f. PICK f : f = Write(lba + Rsvd(F) + fatsz + fatsz, RootSecs(F), "root") OBVIOUS
  <1>g. PICK g : g = Write(lba + Rsvd(F), 1, "head") OBVIOUS
  <1>h. PICK h : h = Write(lba + Rsvd(F) + fatsz, 1, "head") OBVIOUS
  <1>z. PICK z : z = EndWith(0) OBVIOUS
  <1>w. /\ Does(a, "write", lba, 1, "boot") /\ Does(b, "write", lba + 1, 1, "fsinfo")
        /\ Does(c, "write", lba + 6, 1, "boot") /\ Does(d, "write", lba + Rsvd(F), fatsz, "fat")
    BY <1>a, <1>b, <1>c, <1>d DEF Does, Write
  <1>x. /\ Does(e, "write", lba + Rsvd(F) + fatsz, fatsz, "fat")
        /\ Does(f, "write", lba + Rsvd(F) + fatsz + fatsz, RootSecs(F), "root")
        /\ Does(g, "write", lba + Rsvd(F), 1, "head") /\ Does(h, "write", lba + Rsvd(F) + fatsz, 1, "head")
        /\ Stops(z, 0)
    BY <1>e, <1>f, <1>g, <1>h, <1>z DEF Does, Write, Stops, EndWith
  <1>1. CASE F = 32
    <2>0. PICK S : S = (((((<<a>> \o <<b, c>>) \o <<d, e>>) \o << >>) \o <<g, h>>) \o <<z>>)
      OBVIOUS
    <2>1. S = FatWrites(F, lba, fatsz) \o <<EndWith(0)>>
      BY <2>0, <1>1, <1>a, <1>b, <1>c, <1>d, <1>e, <1>g, <1>h, <1>z DEF FatWrites
    <2>10. /\ S \in Seq({a, b, c, d, e, g, h, z}) /\ Len(S) = 8 /\ S[1] = a /\ S[2] = b /\ S[3] = c /\ S[4] = d /\ S[5] = e
           /\ S[6] = g /\ S[7] = h /\ S[8] = z
      BY <2>0
    <2>12. FatList(F, lba, fatsz, S)
      BY <2>10, <1>1, <1>w, <1>x, Zenon DEF FatList
    <2> QED BY <2>1, <2>10, <2>12, Zenon
  <1>2. CASE F # 32
    <2>0. PICK S : S = (((((<<a>> \o << >>) \o <<d, e>>) \o <<f>>) \o <<g, h>>) \o <<z>>)
      OBVIOUS
    <2>1. S = FatWrites(F, lba, fatsz) \o <<EndWith(0)>>
      BY <2>0, <1>2, <1>a, <1>d, <1>e, <1>f, <1>g, <1>h, <1>z DEF FatWrites
    <2>11. /\ S \in Seq({a, d, e, f, g, h, z}) /\ Len(S) = 7 /\ S[1] = a /\ S[2] = d /\ S[3] = e /\ S[4] = f
           /\ S[5] = g /\ S[6] = h /\ S[7] = z
      BY <2>0
    <2>12. FatList(F, lba, fatsz, S)
      BY <2>11, <1>2, <1>w, <1>x, Zenon DEF FatList
    <2> QED BY <2>1, <2>11, <2>12, Zenon
  <1> QED BY <1>1, <1>2

\* BootWrites and NtfsMetadata are the steps of NtfsList.
LEMMA NtfsProgram ==
    ASSUME NEW L
    PROVE  LET S == BootWrites(L) \o NtfsMetadata(L)
           IN  NtfsList(L, S) /\ \E T : S \in Seq(T)
  <1>a. PICK a : a = Write(L.base, 1, "boot") OBVIOUS
  <1>b. PICK b : b = Write(L.base + (L.totsec - 1) * L.sector, 1, "boot") OBVIOUS
  <1>c. PICK c : c = Write(ClusterAt(L, L.mft), MftRecords * (RecordBytes \div 512), "zero") OBVIOUS
  <1>d. PICK d : d = Write(ClusterAt(L, L.mirr), MirrorRecords * (RecordBytes \div 512), "zero") OBVIOUS
  <1>e. PICK e : e = Checked(ClusterAt(L, L.attrdef), AttrDefUnits, "attrdef") OBVIOUS
  <1>f. PICK f : f = Write(ClusterAt(L, L.log), LogClusters * L.unit, "log") OBVIOUS
  <1>g. PICK g : g = Checked(ClusterAt(L, L.bitmap), L.bitmapLen * L.unit, <<"bitmap", Marked(L)>>) OBVIOUS
  <1>z. PICK z : z = EndWith(0) OBVIOUS
  <1> DEFINE Rf == [i \in 1 .. 9 |-> RecordStep(L, i - 1)]
             Kf == [i \in 1 .. MirrorRecords |->
                      [do |-> "copy", at |-> RecordAt(L, L.mirr, i - 1), len |-> RecordBytes \div 512,
                       tag |-> RecordAt(L, L.mft, i - 1)]]
             Rs == <<RecordStep(L, 0), RecordStep(L, 1), RecordStep(L, 2), RecordStep(L, 3), RecordStep(L, 4),
                     RecordStep(L, 5), RecordStep(L, 6), RecordStep(L, 7), RecordStep(L, 8)>>
             Ks == <<CopyOf(L, 0), CopyOf(L, 1), CopyOf(L, 2), CopyOf(L, 3)>>
  <1>1. Rf = Rs OBVIOUS
  <1>2. Kf = Ks
    <2>1. Kf = [i \in 1 .. 4 |-> CopyOf(L, i - 1)] BY DEF MirrorRecords, CopyOf
    <2>2. [i \in 1 .. 4 |-> CopyOf(L, i - 1)] = Ks OBVIOUS
    <2> QED BY <2>1, <2>2, Zenon
  <1>3. BootWrites(L) = <<a, b>> BY <1>a, <1>b DEF BootWrites
  <1>4. NtfsMetadata(L) = ((((<<c, d>> \o Rf) \o <<e, f, g>>) \o Kf) \o <<z>>)
    BY <1>c, <1>d, <1>e, <1>f, <1>g, <1>z DEF NtfsMetadata
  <1> HIDE DEF Rf, Kf
  <1>5. PICK S : S = <<a, b>> \o ((((<<c, d>> \o Rs) \o <<e, f, g>>) \o Ks) \o <<z>>) OBVIOUS
  <1>s. S = BootWrites(L) \o NtfsMetadata(L) BY <1>1, <1>2, <1>3, <1>4, <1>5, Zenon
  <1>6. /\ Len(S) = 21
        /\ S[1] = a /\ S[2] = b /\ S[3] = c /\ S[4] = d
        /\ S[5] = RecordStep(L, 0) /\ S[6] = RecordStep(L, 1) /\ S[7] = RecordStep(L, 2)
        /\ S[8] = RecordStep(L, 3) /\ S[9] = RecordStep(L, 4) /\ S[10] = RecordStep(L, 5)
        /\ S[11] = RecordStep(L, 6) /\ S[12] = RecordStep(L, 7) /\ S[13] = RecordStep(L, 8)
        /\ S[14] = e /\ S[15] = f /\ S[16] = g
        /\ S[17] = CopyOf(L, 0) /\ S[18] = CopyOf(L, 1) /\ S[19] = CopyOf(L, 2) /\ S[20] = CopyOf(L, 3)
        /\ S[21] = z
    BY <1>5
  <1>10. S \in Seq({a, b, c, d, e, f, g, z, RecordStep(L, 0), RecordStep(L, 1), RecordStep(L, 2),
                    RecordStep(L, 3), RecordStep(L, 4), RecordStep(L, 5), RecordStep(L, 6),
                    RecordStep(L, 7), RecordStep(L, 8), CopyOf(L, 0), CopyOf(L, 1), CopyOf(L, 2), CopyOf(L, 3)})
    BY <1>5
  <1>7. \A r \in 0 .. 8 : S[5 + r] = RecordStep(L, r) BY <1>6, RecordSteps, Zenon
  <1>8. \A r \in 0 .. 3 : S[17 + r] = CopyOf(L, r) BY <1>6, CopySteps, Zenon
  <1>11. /\ Does(a, "write", L.base, 1, "boot")
         /\ Does(b, "write", L.base + (L.totsec - 1) * L.sector, 1, "boot")
         /\ Does(c, "write", ClusterAt(L, L.mft), 32, "zero")
         /\ Does(d, "write", ClusterAt(L, L.mirr), 8, "zero")
    BY <1>a, <1>b, <1>c, <1>d DEF Does, Write, MftRecords, MirrorRecords, RecordBytes
  <1>12. /\ Does(e, "checked", ClusterAt(L, L.attrdef), 8, "attrdef")
         /\ Does(f, "write", ClusterAt(L, L.log), 16 * L.unit, "log")
         /\ Does(g, "checked", ClusterAt(L, L.bitmap), L.bitmapLen * L.unit, <<"bitmap", Marked(L)>>)
         /\ Stops(z, 0)
    BY <1>e, <1>f, <1>g, <1>z DEF Does, Checked, Write, Stops, EndWith, AttrDefUnits, LogClusters
  <1>13. ASSUME NEW r \in 0 .. 8
         PROVE  \/ RecordBuilds(L, r) /\ Does(S[5 + r], "checked", RecordAt(L, L.mft, r), 2, <<"record", r>>)
                \/ ~RecordBuilds(L, r) /\ Stops(S[5 + r], 4)
    <2>1. PICK s : s = S[5 + r] OBVIOUS
    <2>2. CASE RecordBuilds(L, r)
      <3>1. s = Checked(RecordAt(L, L.mft, r), RecordBytes \div 512, <<"record", r>>)
        BY <1>7, <2>1, <2>2 DEF RecordStep
      <3>2. Does(s, "checked", RecordAt(L, L.mft, r), 2, <<"record", r>>)
        BY <3>1 DEF Does, Checked, RecordBytes
      <3> QED BY <2>1, <2>2, <3>2, Zenon
    <2>3. CASE ~RecordBuilds(L, r)
      <3>1. s = EndWith(4) BY <1>7, <2>1, <2>3 DEF RecordStep
      <3>2. Stops(s, 4) BY <3>1 DEF Stops, EndWith
      <3> QED BY <2>1, <2>3, <3>2, Zenon
    <2> QED BY <2>2, <2>3
  <1>14. ASSUME NEW r \in 0 .. 3
         PROVE  Does(S[17 + r], "copy", RecordAt(L, L.mirr, r), 2, RecordAt(L, L.mft, r))
    <2>1. PICK s : s = S[17 + r] OBVIOUS
    <2>2. s = CopyOf(L, r) BY <1>8, <2>1
    <2>3. Does(s, "copy", RecordAt(L, L.mirr, r), 2, RecordAt(L, L.mft, r)) BY <2>2 DEF CopyOf, Does, RecordBytes
    <2> QED BY <2>1, <2>3, Zenon
  <1>15. Len(S) = 21 BY <1>6
  <1>9. NtfsList(L, S)
    BY <1>15, <1>6, <1>11, <1>12, <1>13, <1>14, Zenon DEF NtfsList
  <1> QED BY <1>s, <1>9, <1>10, Zenon

\* A command that only refuses is a program.
LEMMA SingleOK == ASSUME NEW rc \in Nat PROVE ProgramOK(<<EndWith(rc)>>)
  <1>1. PICK e : e = EndWith(rc) OBVIOUS
  <1>2. e.do = "stop" /\ e.tag \in Nat BY <1>1 DEF EndWith
  <1>3. PICK Q : Q = <<e>> OBVIOUS
  <1>4. Q \in Seq({e}) /\ Len(Q) = 1 /\ Q[1] = e BY <1>3
  <1>5. ProgramOK(Q) BY <1>2, <1>4 DEF ProgramOK
  <1> QED BY <1>1, <1>3, <1>5, Zenon

\* The program of a FAT format stops at its end only, and copies nothing.
LEMMA FatOK ==
    ASSUME NEW F, NEW lba, NEW fatsz, NEW S, FatList(F, lba, fatsz, S), \E T : S \in Seq(T)
    PROVE  /\ ProgramOK(S)
           /\ \A i \in 1 .. Len(S) : S[i].do = "stop" => i = Len(S)
           /\ S[Len(S)].tag = 0
           /\ \A i \in 1 .. Len(S) : S[i].do # "copy"
  <1>1. CASE F = 32
    <2>1. Len(S) = 8 BY <1>1 DEF FatList
    <2>2. /\ S[1].do = "write" /\ S[2].do = "write" /\ S[3].do = "write" /\ S[4].do = "write"
          /\ S[5].do = "write" /\ S[6].do = "write" /\ S[7].do = "write"
          /\ S[8].do = "stop" /\ S[8].tag = 0
      BY <1>1, Zenon DEF FatList, Does, Stops
    <2>3. \A i \in 1 .. 8 : i # 8 => S[i].do = "write"
      BY <2>2
    <2> QED BY <2>1, <2>2, <2>3 DEF ProgramOK
  <1>2. CASE F # 32
    <2>1. Len(S) = 7 BY <1>2 DEF FatList
    <2>2. /\ S[1].do = "write" /\ S[2].do = "write" /\ S[3].do = "write" /\ S[4].do = "write"
          /\ S[5].do = "write" /\ S[6].do = "write"
          /\ S[7].do = "stop" /\ S[7].tag = 0
      BY <1>2, Zenon DEF FatList, Does, Stops
    <2>3. \A i \in 1 .. 7 : i # 7 => S[i].do = "write"
      BY <2>2
    <2> QED BY <2>1, <2>2, <2>3 DEF ProgramOK
  <1> QED BY <1>1, <1>2

\* The program of an NTFS format stops before its end at a record that cannot be
\* built (write_metadata_record fails), with 4.
LEMMA NtfsStops ==
    ASSUME NEW L, NEW S, NtfsList(L, S)
    PROVE  /\ Len(S) = 21 /\ S[21].do = "stop" /\ S[21].tag = 0
           /\ \A i \in 1 .. 20 : S[i].do = "stop" => S[i].tag = 4 /\ \E r \in 0 .. 8 : i = 5 + r /\ ~RecordBuilds(L, r)
  <1>1. Len(S) = 21 BY DEF NtfsList
  <1>2. S[21].do = "stop" /\ S[21].tag = 0 BY Zenon DEF NtfsList, Does, Stops
  <1>3. /\ S[1].do = "write" /\ S[2].do = "write" /\ S[3].do = "write" /\ S[4].do = "write"
    BY Zenon DEF NtfsList, Does, Stops
  <1>4. S[14].do = "checked" /\ S[15].do = "write" /\ S[16].do = "checked" BY Zenon DEF NtfsList, Does, Stops
  <1>5. \A r \in 0 .. 3 : S[17 + r].do = "copy"
    <2> TAKE r \in 0 .. 3
    <2> QED BY Zenon DEF NtfsList, Does
  <1>6. \A r \in 0 .. 8 : \/ RecordBuilds(L, r) /\ S[5 + r].do = "checked"
                          \/ ~RecordBuilds(L, r) /\ S[5 + r].do = "stop" /\ S[5 + r].tag = 4
    <2> TAKE r \in 0 .. 8
    <2> QED BY Zenon DEF NtfsList, Does, Stops
  <1>7. ASSUME NEW i \in 1 .. 20, S[i].do = "stop"
        PROVE  S[i].tag = 4 /\ \E r \in 0 .. 8 : i = 5 + r /\ ~RecordBuilds(L, r)
    <2>1. CASE i \in 1 .. 4
      <3>1. i = 1 \/ i = 2 \/ i = 3 \/ i = 4 BY <2>1
      <3> QED BY <3>1, <1>3, <1>7
    <2>2. CASE i \in 14 .. 16
      <3>1. i = 14 \/ i = 15 \/ i = 16 BY <2>2
      <3> QED BY <3>1, <1>4, <1>7
    <2>3. CASE i \in 17 .. 20
      <3>1. PICK r \in 0 .. 3 : i = 17 + r
        <4>1. i - 17 \in 0 .. 3 /\ i = 17 + (i - 17) BY <2>3
        <4> QED BY <4>1
      <3> QED BY <3>1, <1>5, <1>7
    <2>4. CASE i \in 5 .. 13
      <3>1. PICK r \in 0 .. 8 : i = 5 + r
        <4>1. i - 5 \in 0 .. 8 /\ i = 5 + (i - 5) BY <2>4
        <4> QED BY <4>1
      <3> QED BY <3>1, <1>6, <1>7
    <2> QED BY <2>1, <2>2, <2>3, <2>4
  <1> QED BY <1>1, <1>2, <1>7

\* Every command sets out with a program.
LEMMA ProgramFits == ASSUME NEW cmd, NEW v, NEW o PROVE ProgramOK(Program(cmd, v, o))
  <1>a. ProgramOK(<<EndWith(2)>>) /\ ProgramOK(<<EndWith(3)>>) BY SingleOK
  <1>1. ProgramOK(FatSteps(v, o))
    <2>1. PICK F, lba, fatsz : F = FatType(v, o) /\ lba = VolumeStart(v, o) /\ fatsz = FatSize(FatType(v, o), Spc(v, o), v.size)
      OBVIOUS
    <2>2. PICK S : S = FatWrites(F, lba, fatsz) \o <<EndWith(0)>> OBVIOUS
    <2>3. FatList(F, lba, fatsz, S) /\ \E T : S \in Seq(T) BY <2>2, FatProgram, Zenon
    <2>4. ProgramOK(S) BY <2>3, FatOK, Zenon
    <2>5. FatSteps(v, o) = IF v.size < 100 THEN <<EndWith(3)>> ELSE S BY <2>1, <2>2, Zenon DEF FatSteps
    <2> QED BY <1>a, <2>4, <2>5, Zenon
  <1>2. ASSUME NEW L PROVE ProgramOK(NtfsSteps(v, o, L))
    <2>1. PICK S : S = BootWrites(L) \o NtfsMetadata(L) OBVIOUS
    <2>2. NtfsList(L, S) /\ \E T : S \in Seq(T) BY <2>1, NtfsProgram, Zenon
    <2>3. ProgramOK(S)
      <3>1. Len(S) = 21 /\ S[21].do = "stop" /\ S[21].tag = 0
              /\ \A i \in 1 .. 20 : S[i].do = "stop" => S[i].tag = 4
        BY <2>2, NtfsStops, Zenon
      <3>2. \A i \in 1 .. Len(S) : S[i].do = "stop" => S[i].tag \in Nat BY <3>1
      <3> QED BY <3>1, <3>2, <2>2 DEF ProgramOK
    <2>a. PICK a : a = Write(L.base, 1, "boot") OBVIOUS
    <2>b. PICK b : b = Write(L.base + (L.totsec - 1) * L.sector, 1, "boot") OBVIOUS
    <2>e. PICK e : e = EndWith(3) OBVIOUS
    <2>4. BootWrites(L) = <<a, b>> /\ a.do = "write" /\ b.do = "write" /\ e = EndWith(3)
      BY <2>a, <2>b, <2>e DEF BootWrites, Write
    <2>5. PICK Q : Q = <<a, b>> \o <<e>> OBVIOUS
    <2>6. Q \in Seq({a, b, e}) /\ Len(Q) = 3 /\ Q[1] = a /\ Q[2] = b /\ Q[3] = e BY <2>5
    <2>7. ProgramOK(Q)
      <3>1. e.do = "stop" /\ e.tag = 3 BY <2>e DEF EndWith
      <3>2. \A i \in 1 .. 3 : Q[i].do = "stop" => Q[i].tag \in Nat BY <2>4, <2>6, <3>1
      <3> QED BY <2>6, <3>1, <3>2 DEF ProgramOK
    <2>8. \/ NtfsSteps(v, o, L) = <<EndWith(3)>>
          \/ NtfsSteps(v, o, L) = S
          \/ NtfsSteps(v, o, L) = Q
      BY <2>1, <2>4, <2>5, <2>e, Zenon DEF NtfsSteps
    <2> QED BY <1>a, <2>3, <2>7, <2>8, Zenon
  <1>3. ProgramOK(NtfsSteps(v, o, Plan(v, o))) BY <1>2
  <1> QED BY <1>a, <1>1, <1>3, Zenon DEF Program

------------------------------------------------------------------------------
(* The invariant                                                             *)

\* The invariant holds before any command.
LEMMA ProgramInit == FormatsInit => ProgramInv
  BY DEF FormatsInit, ProgramInv, NoFormat

\* A command that begins has written nothing and has its program before it.
LEMMA BeginKeeps ==
    ASSUME ProgramInv, NEW v \in Volumes, NEW cmd, NEW o,
           \/ cmd \in {"fat", "vfat"} /\ o \in FatOptions
           \/ cmd = "ntfs" /\ o \in NtfsOptions,
           BeginFormat(cmd, v, o, Program(cmd, v, o))
    PROVE  ProgramInv'
  <1>1. fmt.cmd = "none" /\ writes = << >> /\ ~dropped
    BY DEF BeginFormat, ProgramInv
  <1>2. writes' = writes /\ dropped' = dropped BY DEF BeginFormat
  <1>3. PICK S : S = Program(cmd, v, o) OBVIOUS
  <1>4. fmt' = [cmd |-> cmd, vol |-> v, opt |-> o, steps |-> S, rc |-> Running]
    BY <1>3, Zenon DEF BeginFormat
  <1>5. fmt'.cmd = cmd /\ fmt'.vol = v /\ fmt'.opt = o /\ fmt'.steps = S /\ fmt'.rc = Running BY <1>4
  <1>6. cmd # "none" /\ DOMAIN fmt' = {"cmd", "vol", "opt", "steps", "rc"} BY <1>4
  <1>7. ProgramOK(S) BY <1>3, ProgramFits
  <1>8. PICK T : S \in Seq(T) BY <1>7 DEF ProgramOK
  <1>9. Len(S) >= 1 /\ Len(S) \in Nat BY <1>7, <1>8 DEF ProgramOK
  <1>10. SubSeq(S, 1, Len(S)) = S BY <1>8, SubSeqFull
  <1>11. Len(writes') = 0 /\ \E W : writes' \in Seq(W)
    BY <1>1, <1>2
  <1>12. Gone(S, 0)'
    <2>1. 0 + 1 = 1 /\ 1 .. 0 = {} /\ 0 \in Nat OBVIOUS
    <2>2. 0 < Len(S) BY <1>9
    <2>3. fmt'.steps = SubSeq(S, 0 + 1, Len(S)) BY <1>5, <1>10, <2>1, Zenon
    <2>4. \A i \in 1 .. Len(writes') : FALSE BY <1>11, <2>1
    <2> QED BY <1>5, <1>11, <2>1, <2>2, <2>3, <2>4, Zenon DEF Gone
  <1>13. Given' BY <1>5, <1>6, Zenon DEF Given
  <1>14. S = Program(fmt'.cmd, fmt'.vol, fmt'.opt) BY <1>3, <1>5, Zenon
  <1> QED BY <1>5, <1>6, <1>11, <1>12, <1>13, <1>14, Zenon DEF ProgramInv

\* A later write does not change what an earlier one was.
LEMMA FollowsKept ==
    ASSUME NEW S, NEW W, NEW w \in Seq(W), NEW x \in Seq(W), NEW i \in 1 .. Len(w),
           Len(x) = Len(w) + 1, \A j \in 1 .. Len(w) : x[j] = w[j], Follows(S, w, i)
    PROVE  Follows(S, x, i)
  <1>1. Len(w) \in Nat /\ x[i] = w[i] OBVIOUS
  <1>2. ASSUME NEW j, LastOver(x, i, j, S[i].tag), S[i].do = "copy" PROVE x[i].tag = x[j].tag
    <2>1. j \in 1 .. i - 1 /\ j \in 1 .. Len(w) BY <1>1, <1>2 DEF LastOver
    <2>2. \A k \in j .. i - 1 : x[k] = w[k] BY <1>1, <2>1
    <2>3. LastOver(w, i, j, S[i].tag) BY <1>2, <2>1, <2>2 DEF LastOver
    <2>4. w[i].tag = w[j].tag BY <1>2, <2>3 DEF Follows
    <2> QED BY <1>1, <2>1, <2>4
  <1> QED BY <1>1, <1>2 DEF Follows

\* A write, a copy, an end or a failed write keeps the invariant.
LEMMA StepKeeps == ASSUME ProgramInv, FormatStep \/ FormatWriteFails PROVE ProgramInv'
  <1>0. fmt.rc = Running BY DEF FormatStep, FormatWriteFails
  <1>1. fmt.cmd # "none" BY <1>0 DEF ProgramInv, NoFormat, Running
  <1>2. Given BY <1>1 DEF ProgramInv
  <1>3. PICK s : s = Head(fmt.steps) OBVIOUS
  <1>4. Stepped \/ \E rc : Ended(rc)
    BY DEF FormatStep, FormatWriteFails
  <1>5. DOMAIN fmt' = DOMAIN fmt /\ fmt'.cmd = fmt.cmd /\ fmt'.vol = fmt.vol /\ fmt'.opt = fmt.opt
    <2>1. ASSUME NEW rc, Ended(rc)
          PROVE  DOMAIN fmt' = DOMAIN fmt /\ fmt'.cmd = fmt.cmd /\ fmt'.vol = fmt.vol /\ fmt'.opt = fmt.opt
      BY <1>2, <2>1 DEF Ended, Given
    <2>2. CASE Stepped BY <1>2, <2>2 DEF Stepped, Given
    <2> QED BY <1>4, <2>1, <2>2
  <1>6. Given' /\ fmt'.cmd # "none" BY <1>1, <1>2, <1>5, Zenon DEF Given
  <1>7. PICK W : writes \in Seq(W) BY <1>1 DEF ProgramInv
  <1>8. PICK S : S = Program(fmt.cmd, fmt.vol, fmt.opt) OBVIOUS
  <1>9. PICK k : Gone(S, k) BY <1>1, <1>8, Zenon DEF ProgramInv
  <1>10. S = Program(fmt'.cmd, fmt'.vol, fmt'.opt) BY <1>5, <1>8, Zenon
  <1>11. ProgramOK(S) BY <1>8, ProgramFits, Zenon
  <1>12. PICK T : S \in Seq(T) BY <1>11 DEF ProgramOK
  <1>13. k \in Nat /\ k < Len(S) /\ Len(S) \in Nat /\ fmt.steps = SubSeq(S, k + 1, Len(S))
    BY <1>0, <1>9, <1>12 DEF Gone
  <1>14. s = S[k + 1] /\ Tail(fmt.steps) = SubSeq(S, k + 2, Len(S))
    <2>1. PICK R : R = SubSeq(S, k + 1, Len(S)) OBVIOUS
    <2>2. Head(R) = S[k + 1] /\ Tail(R) = SubSeq(S, k + 2, Len(S)) BY <1>12, <1>13, <2>1, SubSeqFacts
    <2>3. fmt.steps = R BY <1>13, <2>1
    <2> QED BY <1>3, <2>2, <2>3
  <1>15. \A i \in 1 .. Len(writes) : \E j \in 1 .. k : Asked(S[j], writes[i]) BY <1>9 DEF Gone
  <1>16. ~dropped => k = Len(writes) /\ \A i \in 1 .. Len(writes) : Follows(S, writes, i) BY <1>9 DEF Gone
  \* a step that is not the end is followed by others
  <1>17. s.do # "stop" => k + 1 < Len(S)
    <2>1. s.do # "stop" => k + 1 # Len(S) BY <1>11, <1>14 DEF ProgramOK
    <2> QED BY <1>13, <2>1
  <1>18. Stepped => fmt'.rc = Running /\ fmt'.steps = SubSeq(S, k + 2, Len(S))
    BY <1>0, <1>2, <1>14 DEF Stepped, Given
  <1>19. CASE \/ s.do = "stop" /\ Ended(s.tag) /\ UNCHANGED <<writes, dropped>>
              \/ s.do \in {"checked", "copy"} /\ Ended(4) /\ UNCHANGED <<writes, dropped>>
    <2>1. writes' = writes /\ dropped' = dropped BY <1>19
    <2>2. fmt'.rc = 4 \/ (s.do = "stop" /\ fmt'.rc = s.tag) BY <1>2, <1>19 DEF Ended, Given
    <2>3. s.do = "stop" => s.tag \in Nat
      <3>1. k + 1 \in 1 .. Len(S) BY <1>13
      <3> QED BY <1>11, <1>14, <3>1, Zenon DEF ProgramOK
    <2>4. fmt'.rc # Running BY <2>2, <2>3 DEF Running
    <2>5. fmt'.rc # 4 => S[k + 1].do = "stop" /\ S[k + 1].tag = fmt'.rc BY <1>14, <2>2, Zenon
    <2>6. Gone(S, k)' BY <1>13, <1>15, <1>16, <2>1, <2>4, <2>5, Zenon DEF Gone
    <2> QED BY <1>6, <1>7, <1>10, <2>1, <2>6, Zenon DEF ProgramInv
  <1>20. CASE s.do # "stop" /\ Stepped /\ writes' = writes /\ dropped'
    <2>1. fmt'.rc = Running /\ fmt'.steps = SubSeq(S, k + 2, Len(S)) BY <1>18, <1>20
    <2>2. k + 1 \in Nat /\ k + 1 < Len(S) /\ k + 2 = (k + 1) + 1 /\ 1 .. k \subseteq 1 .. k + 1
      BY <1>13, <1>17, <1>20
    <2>3. \A i \in 1 .. Len(writes') : \E j \in 1 .. k + 1 : Asked(S[j], writes'[i]) BY <1>15, <1>20, <2>2, Zenon
    <2>4. fmt'.steps = SubSeq(S, (k + 1) + 1, Len(S)) BY <2>1, <2>2, Zenon
    <2>5. PICK n : n = k + 1 OBVIOUS
    <2>6. Gone(S, n)' BY <1>20, <2>1, <2>2, <2>3, <2>4, <2>5, Zenon DEF Gone
    <2> QED BY <1>6, <1>7, <1>10, <1>20, <2>6, Zenon DEF ProgramInv
  <1>21. ASSUME NEW t, s.do # "stop", Stepped, dropped' = dropped,
                writes' = Append(writes, [at |-> s.at, len |-> s.len, tag |-> t]),
                t = IF s.do = "copy" THEN Owner(s.tag) ELSE s.tag
         PROVE  ProgramInv'
    <2>0. fmt'.rc = Running /\ fmt'.steps = SubSeq(S, k + 2, Len(S)) BY <1>18, <1>21
    <2>1. PICK n \in Nat : n = Len(writes) BY <1>7
    <2>2. PICK e : e = [at |-> s.at, len |-> s.len, tag |-> t] OBVIOUS
    <2>3. e.at = s.at /\ e.len = s.len /\ e.tag = t BY <2>2
    <2>4. PICK V : V = W \cup {e} OBVIOUS
    <2>5. writes \in Seq(V) BY <1>7, <2>4, SeqMonotonic
    <2>6. PICK x : x = Append(writes, e) OBVIOUS
    <2>7. x \in Seq(V) /\ Len(x) = n + 1 /\ (\A j \in 1 .. n : x[j] = writes[j]) /\ x[n + 1] = e
      BY <2>1, <2>4, <2>5, <2>6, AppendProperties
    <2>8. writes' = x BY <1>21, <2>2, <2>6
    <2>9. S[k + 1].do # "stop" /\ e.at = S[k + 1].at /\ e.len = S[k + 1].len
            /\ (S[k + 1].do # "copy" => e.tag = S[k + 1].tag)
      BY <1>14, <1>21, <2>3
    <2>10. \A i \in 1 .. Len(x) : \E j \in 1 .. k + 1 : Asked(S[j], x[i])
      <3>1. Asked(S[k + 1], e) BY <2>9 DEF Asked
      <3>2. k + 1 \in 1 .. k + 1 /\ 1 .. k \subseteq 1 .. k + 1 BY <1>13
      <3>3. \A i \in 1 .. Len(x) : i \in 1 .. n \/ i = n + 1 BY <2>7
      <3> QED BY <1>15, <2>1, <2>7, <3>1, <3>2, <3>3, Zenon
    <2>11. ASSUME ~dropped PROVE k + 1 = Len(x) /\ \A i \in 1 .. Len(x) : Follows(S, x, i)
      <3>1. k = n BY <1>16, <2>1, <2>11
      <3>2. Follows(S, x, n + 1)
        <4>1. x[n + 1].at = S[n + 1].at /\ x[n + 1].len = S[n + 1].len /\ S[n + 1].do # "stop"
                /\ (S[n + 1].do # "copy" => x[n + 1].tag = S[n + 1].tag)
          BY <2>7, <2>9, <3>1
        <4>3. ASSUME NEW j, S[n + 1].do = "copy", LastOver(x, n + 1, j, S[n + 1].tag)
              PROVE  x[n + 1].tag = x[j].tag
          <5>1. j \in 1 .. n /\ x[j] = writes[j] BY <2>7, <4>3 DEF LastOver
          <5>2. \A i \in j .. n : x[i] = writes[i] BY <2>7, <5>1
          <5>3. LastOver(writes, n + 1, j, S[n + 1].tag) BY <4>3, <5>1, <5>2 DEF LastOver
          <5>4. Owner(S[n + 1].tag) = writes[j].tag BY <1>7, <2>1, <5>3, OwnerIs
          <5> QED BY <1>14, <1>21, <2>3, <2>7, <3>1, <4>3, <5>1, <5>4
        <4> QED BY <4>1, <4>3 DEF Follows
      <3>3. \A i \in 1 .. n : Follows(S, x, i)
        <4> TAKE i \in 1 .. n
        <4>1. Follows(S, writes, i) BY <1>16, <2>1, <2>11
        <4> QED BY <2>1, <2>5, <2>7, <4>1, FollowsKept
      <3>4. \A i \in 1 .. Len(x) : i \in 1 .. n \/ i = n + 1 BY <2>7
      <3> QED BY <2>7, <3>1, <3>2, <3>3, <3>4, Zenon
    <2>12. k + 1 \in Nat /\ k + 1 < Len(S) /\ k + 2 = (k + 1) + 1 BY <1>13, <1>17, <1>21
    <2>13. fmt'.steps = SubSeq(S, (k + 1) + 1, Len(S)) BY <2>0, <2>12, Zenon
    <2>14. PICK m : m = k + 1 OBVIOUS
    <2>15. Gone(S, m)' BY <1>21, <2>0, <2>8, <2>10, <2>11, <2>12, <2>13, <2>14, Zenon DEF Gone
    <2> QED BY <1>6, <1>10, <2>7, <2>8, <2>15, Zenon DEF ProgramInv
  <1>22. CASE FormatStep
    <2>1. CASE s.do = "stop" /\ Ended(s.tag) /\ UNCHANGED <<writes, dropped>> BY <1>19, <2>1
    <2>2. CASE /\ s.do \in {"write", "checked"} /\ Stepped /\ dropped' = dropped
               /\ writes' = Append(writes, [at |-> s.at, len |-> s.len, tag |-> s.tag])
      BY <1>21, <2>2
    <2>3. CASE /\ s.do = "copy" /\ Stepped /\ dropped' = dropped
               /\ writes' = Append(writes, [at |-> s.at, len |-> s.len, tag |-> Owner(s.tag)])
      BY <1>21, <2>3
    <2> QED BY <1>3, <1>22, <2>1, <2>2, <2>3 DEF FormatStep
  <1>23. CASE FormatWriteFails
    <2>1. CASE s.do \in {"checked", "copy"} /\ Ended(4) /\ UNCHANGED <<writes, dropped>> BY <1>19, <2>1
    <2>2. CASE Unnoticed(fmt.steps) /\ Stepped /\ writes' = writes /\ dropped'
      <3>1. s.do # "stop" BY <1>3, <2>2 DEF Unnoticed
      <3> QED BY <1>20, <2>2, <3>1
    <2> QED BY <1>3, <1>23, <2>1, <2>2 DEF FormatWriteFails
  <1> QED BY <1>22, <1>23

\* For all volumes and options, whichever writes fail and whether anyone looks at it
\* or not: a format writes nothing that its program does not ask for, and reports
\* success or a refusal only where the program ends so; while no write was dropped,
\* the writes made are the program's first steps in their order (mkfs_fat_format,
\* mkfs_ntfs_core).
THEOREM ProgramKept == FormatsSpec => []ProgramInv
  <1>1. ASSUME ProgramInv, FormatsNext PROVE ProgramInv'
    <2>1. CASE FormatStep \/ FormatWriteFails BY <1>1, <2>1, StepKeeps
    <2>2. ASSUME NEW v \in Volumes, NEW o \in FatOptions, MkfsFat(v, o) PROVE ProgramInv'
      <3>1. BeginFormat("fat", v, o, Program("fat", v, o)) BY <2>2, Zenon DEF MkfsFat, Program
      <3> QED BY <1>1, <3>1, BeginKeeps
    <2>3. ASSUME NEW v \in Volumes, NEW o \in FatOptions, MkfsVfat(v, o) PROVE ProgramInv'
      <3>1. BeginFormat("vfat", v, o, Program("vfat", v, o)) BY <2>3, Zenon DEF MkfsVfat, Program
      <3> QED BY <1>1, <3>1, BeginKeeps
    <2>4. ASSUME NEW v \in Volumes, NEW o \in NtfsOptions, MkfsNtfs(v, o) PROVE ProgramInv'
      <3>1. BeginFormat("ntfs", v, o, Program("ntfs", v, o)) BY <2>4, Zenon DEF MkfsNtfs, Program
      <3> QED BY <1>1, <3>1, BeginKeeps
    <2> QED BY <1>1, <2>1, <2>2, <2>3, <2>4 DEF FormatsNext
  <1>2. ASSUME ProgramInv, UNCHANGED formatVars PROVE ProgramInv'
    <2>1. fmt' = fmt /\ writes' = writes /\ dropped' = dropped BY <1>2 DEF formatVars
    <2>2. Given' <=> Given BY <2>1, Zenon DEF Given
    <2>3. \A S, k : Gone(S, k)' <=> Gone(S, k) BY <2>1, Zenon DEF Gone
    <2> QED BY <1>2, <2>1, <2>2, <2>3, Zenon DEF ProgramInv
  <1> QED BY <1>1, <1>2, ProgramInit, PTL DEF FormatsSpec

------------------------------------------------------------------------------
(* Figures of a FAT volume                                                   *)

\* The quotient and what it leaves.
LEMMA DivBounds ==
    ASSUME NEW x \in Nat, NEW u \in Nat \ {0}
    PROVE  x \div u \in Nat /\ (x \div u) * u <= x /\ x < (x \div u) * u + u
  OBVIOUS

\* Multiplying keeps the order.
LEMMA MulMono ==
    ASSUME NEW a \in Nat, NEW b \in Nat, NEW u \in Nat, a <= b
    PROVE  a * u <= b * u
  OBVIOUS

\* Dividing by a common factor keeps the order.
LEMMA MulUp ==
    ASSUME NEW a \in Int, NEW b \in Int, NEW u \in Nat \ {0}, a * u < b * u
    PROVE  a < b
  OBVIOUS

\* A product of a sum.
LEMMA Dist ==
    ASSUME NEW a \in Nat, NEW b \in Nat, NEW u \in Nat
    PROVE  (a + b) * u = a * u + b * u
  OBVIOUS

\* An upper bound of a quotient.
LEMMA DivHigh ==
    ASSUME NEW x \in Nat, NEW u \in Nat \ {0}, NEW d \in Nat, x < d * u
    PROVE  x \div u < d
  <1>1. x \div u \in Nat /\ (x \div u) * u <= x BY DivBounds
  <1>2. (x \div u) * u < d * u BY <1>1
  <1> QED BY <1>1, <1>2, MulUp

\* A lower bound of a quotient.
LEMMA DivLow ==
    ASSUME NEW x \in Nat, NEW u \in Nat \ {0}, NEW c \in Nat, c * u <= x
    PROVE  c <= x \div u
  <1>1. x \div u \in Nat /\ x < (x \div u) * u + u BY DivBounds
  <1>2. PICK q \in Nat : q = x \div u BY <1>1
  <1>3. c * u < (q + 1) * u BY <1>1, <1>2
  <1>4. c < q + 1 BY <1>3, MulUp
  <1> QED BY <1>2, <1>4

\* Division keeps the order.
LEMMA DivMono ==
    ASSUME NEW x \in Nat, NEW y \in Nat, NEW u \in Nat \ {0}, x <= y
    PROVE  x \div u <= y \div u
  <1>1. x \div u \in Nat /\ (x \div u) * u <= x BY DivBounds
  <1>2. PICK q \in Nat : q = x \div u BY <1>1
  <1>3. q * u <= y /\ q * u \in Nat BY <1>1, <1>2
  <1> QED BY <1>2, <1>3, DivLow

\* CeilDiv is enough, and no more than it takes.
LEMMA CeilBounds ==
    ASSUME NEW x \in Nat, NEW u \in Nat \ {0}
    PROVE  CeilDiv(x, u) \in Nat /\ x <= CeilDiv(x, u) * u /\ CeilDiv(x, u) * u <= x + u - 1
  <1>1. PICK y \in Nat : y = x + u - 1 OBVIOUS
  <1>2. y \div u \in Nat /\ (y \div u) * u <= y /\ y < (y \div u) * u + u BY DivBounds
  <1>3. CeilDiv(x, u) = y \div u BY <1>1 DEF CeilDiv
  <1>4. PICK q \in Nat : q = y \div u BY <1>2
  <1>5. q * u \in Nat OBVIOUS
  <1> QED BY <1>1, <1>2, <1>3, <1>4, <1>5

\* The same for sectors.
LEMMA Ceil512 ==
    ASSUME NEW b \in Nat
    PROVE  \E n \in Nat : n = CeilDiv(b, 512) /\ b <= n * 512 /\ n * 512 <= b + 511
  BY DEF CeilDiv

\* the figures of a FAT format, and what they come to
FatPlan(F, spc, size, fatsz, data) ==
    /\ F \in {12, 16, 32} /\ spc \in Nat \ {0} /\ size \in Nat /\ size >= 100
    /\ fatsz = FatSize(F, spc, size) /\ data = Rsvd(F) + 2 * fatsz + RootSecs(F)
FatInFigures(F, spc, size, fatsz, data) ==
    /\ fatsz \in Nat \ {0} /\ data < size
    /\ LengthKept(F, spc, size) => 512 * fatsz >= FatBytes(F, (size - data) \div spc)
    /\ Rsvd(F) = (IF F = 32 THEN 32 ELSE 1) /\ RootSecs(F) = (IF F = 32 THEN 0 ELSE 32)

\* The FATs, the reserved sectors and the root directory leave room for data; and with
\* a length that 16 bits hold where the field has 16, a FAT has an entry for every
\* cluster, though the guess of the clusters did not take the FATs off.
LEMMA FatFigures ==
    ASSUME NEW F, NEW spc, NEW size, NEW fatsz, NEW data, FatPlan(F, spc, size, fatsz, data)
    PROVE  FatInFigures(F, spc, size, fatsz, data)
  <1> SUFFICES ASSUME F \in {12, 16, 32}, spc \in Nat \ {0}, size \in Nat, size >= 100,
                      fatsz = FatSize(F, spc, size), data = Rsvd(F) + 2 * fatsz + RootSecs(F)
               PROVE  FatInFigures(F, spc, size, fatsz, data)
    BY SMT DEF FatPlan
  <1>1. Rsvd(F) = (IF F = 32 THEN 32 ELSE 1) /\ RootSecs(F) = (IF F = 32 THEN 0 ELSE 32)
    BY DEF Rsvd, RootSecs, CeilDiv
  <1>2. PICK m \in Nat : m = size - 33 OBVIOUS
  <1>3. ClusGuess(F, spc, size) = m \div spc BY <1>1, <1>2 DEF ClusGuess
  <1>4. PICK g \in Nat : g = m \div spc BY DivBounds
  <1>5. g <= m
    <2>1. g * spc <= m BY <1>4, DivBounds
    <2>2. g <= g * spc OBVIOUS
    <2> QED BY <2>1, <2>2
  <1>6. FatBytes(F, g) \in Nat /\ FatBytes(F, g) <= 4 * g BY DEF FatBytes
  <1>7. PICK b \in Nat : b = FatBytes(F, g) BY <1>6
  <1>8. PICK n \in Nat : n = CeilDiv(b, 512) /\ b <= n * 512 /\ n * 512 <= b + 511 BY Ceil512
  <1>9. n = FatLength(F, spc, size) BY <1>3, <1>4, <1>7, <1>8 DEF FatLength
  <1>10. PICK y \in Nat : /\ fatsz = (IF y < 1 THEN 1 ELSE y)
                          /\ y <= n /\ (F = 32 \/ n < 65536 => y = n)
    <2>1. n % 65536 \in Nat /\ n % 65536 <= n /\ (n < 65536 => n % 65536 = n) OBVIOUS
    <2>2. PICK y : y = IF F = 32 THEN n ELSE n % 65536 OBVIOUS
    <2>3. PICK x : x = FatLength(F, spc, size) OBVIOUS
    <2>4. FatSize(F, spc, size) = IF (IF F = 32 THEN x ELSE x % 65536) < 1 THEN 1
                                  ELSE (IF F = 32 THEN x ELSE x % 65536)
      BY <2>3 DEF FatSize
    <2>5. y \in Nat /\ y <= n /\ (F = 32 \/ n < 65536 => y = n) BY <2>1, <2>2
    <2>6. fatsz = IF y < 1 THEN 1 ELSE y BY <1>9, <2>2, <2>3, <2>4
    <2> QED BY <2>5, <2>6
  <1>11. fatsz \in Nat \ {0} /\ (F = 32 \/ n < 65536 => fatsz * 512 >= b) BY <1>8, <1>10
  <1>12. data < size
    <2>1. 512 * n <= 4 * m + 511 BY <1>5, <1>6, <1>7, <1>8
    <2>2. data <= 33 + 2 * fatsz /\ data \in Nat BY <1>1, <1>11
    <2>3. 2 * n < m BY <2>1, <1>2
    <2>4. fatsz <= 1 \/ fatsz <= n BY <1>10
    <2> QED BY <1>2, <1>8, <1>11, <2>2, <2>3, <2>4
  <1>13. PICK d \in Nat : d = size - data /\ d <= m
    BY <1>1, <1>2, <1>11, <1>12
  <1>14. PICK c \in Nat : c = d \div spc /\ c <= g BY <1>4, <1>13, DivBounds, DivMono
  <1>15. FatBytes(F, c) <= FatBytes(F, g) BY <1>14 DEF FatBytes
  <1>16. F = 32 \/ n < 65536 => 512 * fatsz >= FatBytes(F, c)
    <2>1. FatBytes(F, c) \in Nat BY DEF FatBytes
    <2> QED BY <1>7, <1>11, <1>15, <2>1
  <1>17. LengthKept(F, spc, size) => F = 32 \/ n < 65536 BY <1>9 DEF LengthKept
  <1>18. c = (size - data) \div spc BY <1>13, <1>14
  <1> QED BY <1>1, <1>11, <1>12, <1>16, <1>17, <1>18 DEF FatInFigures

------------------------------------------------------------------------------
(* What a FAT format leaves                                                  *)

\* write i, as it was made
Wrote(i, at, len, tag) == writes[i].at = at /\ writes[i].len = len /\ writes[i].tag = tag

\* A write that follows its step is what the step says.
LEMMA WroteFrom ==
    ASSUME NEW S, NEW i, Follows(S, writes, i), NEW do, NEW at, NEW len, NEW tag,
           Does(S[i], do, at, len, tag), do # "copy"
    PROVE  Wrote(i, at, len, tag)
  BY Zenon DEF Follows, Does, Wrote

\* all writes of a FAT format
FatWrote(F, lba, fatsz) ==
    LET fat1 == lba + Rsvd(F)
        fat2 == lba + Rsvd(F) + fatsz
        root == lba + Rsvd(F) + fatsz + fatsz
    IN  IF F = 32
        THEN /\ Len(writes) = 7
             /\ Wrote(1, lba, 1, "boot") /\ Wrote(2, lba + 1, 1, "fsinfo") /\ Wrote(3, lba + 6, 1, "boot")
             /\ Wrote(4, fat1, fatsz, "fat") /\ Wrote(5, fat2, fatsz, "fat")
             /\ Wrote(6, fat1, 1, "head") /\ Wrote(7, fat2, 1, "head")
        ELSE /\ Len(writes) = 6
             /\ Wrote(1, lba, 1, "boot")
             /\ Wrote(2, fat1, fatsz, "fat") /\ Wrote(3, fat2, fatsz, "fat")
             /\ Wrote(4, root, RootSecs(F), "root")
             /\ Wrote(5, fat1, 1, "head") /\ Wrote(6, fat2, 1, "head")

\* A FAT format that is through has made them all.
LEMMA FatWroteAll ==
    ASSUME NEW F, NEW lba, NEW fatsz, NEW S, FatList(F, lba, fatsz, S), \E T : S \in Seq(T),
           \E W : writes \in Seq(W), \A i \in 1 .. Len(writes) : Follows(S, writes, i),
           Len(writes) < Len(S), S[Len(writes) + 1].do = "stop"
    PROVE  FatWrote(F, lba, fatsz)
  <1>1. PICK n \in Nat : n = Len(writes) OBVIOUS
  <1>2. n = Len(S) - 1
    <2>1. Len(S) \in Nat /\ n + 1 \in 1 .. Len(S) BY <1>1
    <2>2. \A i \in 1 .. Len(S) : S[i].do = "stop" => i = Len(S) BY FatOK, Zenon
    <2> QED BY <1>1, <2>1, <2>2
  <1>3. CASE F = 32
    <2>0. Len(S) = 8 BY <1>3, Zenon DEF FatList
    <2>3. n = 7 BY <1>2, <2>0
    <2>1. Len(writes) = 7 BY <1>1, <2>3, Zenon
    <2>2. /\ Follows(S, writes, 1) /\ Follows(S, writes, 2) /\ Follows(S, writes, 3) /\ Follows(S, writes, 4)
          /\ Follows(S, writes, 5) /\ Follows(S, writes, 6) /\ Follows(S, writes, 7)
      BY <2>1
    <2> QED BY <1>3, <2>1, <2>2, WroteFrom, Zenon DEF FatWrote, FatList
  <1>4. CASE F # 32
    <2>0. Len(S) = 7 BY <1>4, Zenon DEF FatList
    <2>3. n = 6 BY <1>2, <2>0
    <2>1. Len(writes) = 6 BY <1>1, <2>3, Zenon
    <2>2. /\ Follows(S, writes, 1) /\ Follows(S, writes, 2) /\ Follows(S, writes, 3) /\ Follows(S, writes, 4)
          /\ Follows(S, writes, 5) /\ Follows(S, writes, 6)
      BY <2>1
    <2> QED BY <1>4, <2>1, <2>2, WroteFrom, Zenon DEF FatWrote, FatList
  <1> QED BY <1>3, <1>4

\* What the parts of a FAT volume hold when all is written: the first entries lie on
\* the FATs, and nothing else is written over.
LEMMA FatOwners ==
    ASSUME NEW F \in {12, 16, 32}, NEW lba \in Nat, NEW fatsz \in Nat \ {0}, FatWrote(F, lba, fatsz),
           NEW W, writes \in Seq(W),
           Rsvd(F) = (IF F = 32 THEN 32 ELSE 1), RootSecs(F) = (IF F = 32 THEN 0 ELSE 32)
    PROVE  LET fat1 == lba + Rsvd(F)
           IN  /\ Owner(lba) = "boot"
               /\ Owner(fat1) = "head" /\ Holds(fat1 + 1, fatsz - 1, {"fat"})
               /\ Owner(fat1 + fatsz) = "head" /\ Holds(fat1 + fatsz + 1, fatsz - 1, {"fat"})
               /\ Holds(fat1 + 2 * fatsz, RootSecs(F), {"root"})
  <1>1. ASSUME NEW i, NEW at, NEW len, NEW tag, Wrote(i, at, len, tag), NEW u,
               LastOver(writes, Len(writes) + 1, i, u)
        PROVE  Owner(u) = tag
    BY <1>1, OwnerIs, Zenon DEF Wrote
  <1>o. ASSUME NEW i, NEW at, NEW len, NEW tag, Wrote(i, at, len, tag), NEW u
        PROVE  Over(writes[i], u) <=> at <= u /\ u < at + len
    BY <1>o, Zenon DEF Wrote, Over
  <1>p. ASSUME NEW i, NEW at \in Nat, NEW tag, Wrote(i, at, 1, tag), NEW u \in Nat
        PROVE  Over(writes[i], u) <=> u = at
    <2>1. at <= u /\ u < at + 1 <=> u = at OBVIOUS
    <2> QED BY <1>p, <1>o, <2>1, Zenon
  <1>2. CASE F = 32
    <2>1. PICK f \in Nat : f = lba + 32 OBVIOUS
    <2>2. /\ Len(writes) = 7
          /\ Wrote(1, lba, 1, "boot") /\ Wrote(2, lba + 1, 1, "fsinfo") /\ Wrote(3, lba + 6, 1, "boot")
          /\ Wrote(4, f, fatsz, "fat") /\ Wrote(5, f + fatsz, fatsz, "fat")
          /\ Wrote(6, f, 1, "head") /\ Wrote(7, f + fatsz, 1, "head")
      BY <1>2, <2>1 DEF FatWrote
    <2>3. \A u \in Nat :
            /\ Over(writes[1], u) <=> u = lba
            /\ Over(writes[2], u) <=> u = lba + 1
            /\ Over(writes[3], u) <=> u = lba + 6
            /\ Over(writes[4], u) <=> f <= u /\ u < f + fatsz
            /\ Over(writes[5], u) <=> f + fatsz <= u /\ u < f + fatsz + fatsz
            /\ Over(writes[6], u) <=> u = f
            /\ Over(writes[7], u) <=> u = f + fatsz
      <3>0. lba + 1 \in Nat /\ lba + 6 \in Nat /\ f + fatsz \in Nat OBVIOUS
      <3>1. \A u \in Nat : /\ Over(writes[1], u) <=> u = lba
                           /\ Over(writes[2], u) <=> u = lba + 1
                           /\ Over(writes[3], u) <=> u = lba + 6
        BY <2>2, <3>0, <1>p, Zenon
      <3>2. \A u \in Nat : /\ Over(writes[4], u) <=> f <= u /\ u < f + fatsz
                           /\ Over(writes[5], u) <=> f + fatsz <= u /\ u < f + fatsz + fatsz
        BY <2>2, <1>o, Zenon
      <3>3. \A u \in Nat : /\ Over(writes[6], u) <=> u = f
                           /\ Over(writes[7], u) <=> u = f + fatsz
        BY <2>2, <3>0, <1>p, Zenon
      <3> QED BY <3>1, <3>2, <3>3, Zenon
    <2>4. LastOver(writes, 8, 1, lba) BY <2>1, <2>3 DEF LastOver
    <2>5. LastOver(writes, 8, 6, f) BY <2>1, <2>3 DEF LastOver
    <2>6. LastOver(writes, 8, 7, f + fatsz) BY <2>1, <2>3 DEF LastOver
    <2>7. \A u \in f + 1 .. f + 1 + (fatsz - 1) - 1 : LastOver(writes, 8, 4, u)
      BY <2>1, <2>3 DEF LastOver
    <2>8. \A u \in f + fatsz + 1 .. f + fatsz + 1 + (fatsz - 1) - 1 : LastOver(writes, 8, 5, u)
      BY <2>1, <2>3 DEF LastOver
    <2>9. Owner(lba) = "boot" /\ Owner(f) = "head" /\ Owner(f + fatsz) = "head"
      BY <2>2, <2>4, <2>5, <2>6, <1>1
    <2>10. Holds(f + 1, fatsz - 1, {"fat"}) BY <2>2, <2>7, <1>1 DEF Holds
    <2>11. Holds(f + fatsz + 1, fatsz - 1, {"fat"}) BY <2>2, <2>8, <1>1 DEF Holds
    <2>12. Holds(f + 2 * fatsz, 0, {"root"}) BY DEF Holds
    <2> QED BY <1>2, <2>1, <2>9, <2>10, <2>11, <2>12
  <1>3. CASE F # 32
    <2>1. PICK f \in Nat : f = lba + 1 OBVIOUS
    <2>2. /\ Len(writes) = 6
          /\ Wrote(1, lba, 1, "boot")
          /\ Wrote(2, f, fatsz, "fat") /\ Wrote(3, f + fatsz, fatsz, "fat")
          /\ Wrote(4, f + fatsz + fatsz, 32, "root")
          /\ Wrote(5, f, 1, "head") /\ Wrote(6, f + fatsz, 1, "head")
      BY <1>3, <2>1 DEF FatWrote
    <2>3. \A u \in Nat :
            /\ Over(writes[1], u) <=> u = lba
            /\ Over(writes[2], u) <=> f <= u /\ u < f + fatsz
            /\ Over(writes[3], u) <=> f + fatsz <= u /\ u < f + fatsz + fatsz
            /\ Over(writes[4], u) <=> f + fatsz + fatsz <= u /\ u < f + fatsz + fatsz + 32
            /\ Over(writes[5], u) <=> u = f
            /\ Over(writes[6], u) <=> u = f + fatsz
      <3>0. f + fatsz \in Nat OBVIOUS
      <3>1. \A u \in Nat : /\ Over(writes[1], u) <=> u = lba
                           /\ Over(writes[5], u) <=> u = f
                           /\ Over(writes[6], u) <=> u = f + fatsz
        BY <2>2, <3>0, <1>p, Zenon
      <3>2. \A u \in Nat :
              /\ Over(writes[2], u) <=> f <= u /\ u < f + fatsz
              /\ Over(writes[3], u) <=> f + fatsz <= u /\ u < f + fatsz + fatsz
              /\ Over(writes[4], u) <=> f + fatsz + fatsz <= u /\ u < f + fatsz + fatsz + 32
        BY <2>2, <1>o, Zenon
      <3> QED BY <3>1, <3>2, Zenon
    <2>4. LastOver(writes, 7, 1, lba) BY <2>1, <2>3 DEF LastOver
    <2>5. LastOver(writes, 7, 5, f) BY <2>1, <2>3 DEF LastOver
    <2>6. LastOver(writes, 7, 6, f + fatsz) BY <2>1, <2>3 DEF LastOver
    <2>7. \A u \in f + 1 .. f + 1 + (fatsz - 1) - 1 : LastOver(writes, 7, 2, u)
      BY <2>1, <2>3 DEF LastOver
    <2>8. \A u \in f + fatsz + 1 .. f + fatsz + 1 + (fatsz - 1) - 1 : LastOver(writes, 7, 3, u)
      BY <2>1, <2>3 DEF LastOver
    <2>13. \A u \in f + 2 * fatsz .. f + 2 * fatsz + 32 - 1 : LastOver(writes, 7, 4, u)
      BY <2>1, <2>3 DEF LastOver
    <2>9. Owner(lba) = "boot" /\ Owner(f) = "head" /\ Owner(f + fatsz) = "head"
      BY <2>2, <2>4, <2>5, <2>6, <1>1
    <2>10. Holds(f + 1, fatsz - 1, {"fat"}) BY <2>2, <2>7, <1>1 DEF Holds
    <2>11. Holds(f + fatsz + 1, fatsz - 1, {"fat"}) BY <2>2, <2>8, <1>1 DEF Holds
    <2>12. Holds(f + 2 * fatsz, 32, {"root"}) BY <2>2, <2>13, <1>1 DEF Holds
    <2> QED BY <1>3, <2>1, <2>9, <2>10, <2>11, <2>12
  <1> QED BY <1>2, <1>3

\* All of them lie between the start of the volume and its data area.
LEMMA FatInside ==
    ASSUME NEW F \in {12, 16, 32}, NEW lba \in Nat, NEW fatsz \in Nat \ {0}, FatWrote(F, lba, fatsz),
           NEW W, writes \in Seq(W), NEW data, data = Rsvd(F) + 2 * fatsz + RootSecs(F),
           Rsvd(F) = (IF F = 32 THEN 32 ELSE 1), RootSecs(F) = (IF F = 32 THEN 0 ELSE 32)
    PROVE  \A i \in DOMAIN writes : writes[i].at >= lba /\ writes[i].at + writes[i].len <= lba + data
  <1> DEFINE In(i) == writes[i].at >= lba /\ writes[i].at + writes[i].len <= lba + data
  <1>1. CASE F = 32
    <2>1. DOMAIN writes = 1 .. 7 BY <1>1 DEF FatWrote
    <2>d. data = 32 + 2 * fatsz /\ Rsvd(F) = 32 BY <1>1
    <2>w. /\ writes[1].at = lba /\ writes[2].at = lba + 1 /\ writes[3].at = lba + 6
          /\ writes[1].len = 1 /\ writes[2].len = 1 /\ writes[3].len = 1
          /\ writes[4].at = lba + 32 /\ writes[4].len = fatsz
          /\ writes[5].at = lba + 32 + fatsz /\ writes[5].len = fatsz
          /\ writes[6].at = lba + 32 /\ writes[6].len = 1
          /\ writes[7].at = lba + 32 + fatsz /\ writes[7].len = 1
      BY <1>1, <2>d DEF FatWrote, Wrote
    <2>a. /\ lba >= lba /\ lba + 1 >= lba /\ lba + 6 >= lba
          /\ lba + 1 <= lba + data /\ lba + 1 + 1 <= lba + data /\ lba + 6 + 1 <= lba + data
      BY <2>d
    <2>2. In(1) /\ In(2) /\ In(3) BY <2>a, <2>w, Zenon
    <2>3. In(4) /\ In(5) /\ In(6) /\ In(7) BY <2>d, <2>w
    <2>4. \A i \in 1 .. 7 : i \in {1, 2, 3, 4, 5, 6, 7} OBVIOUS
    <2>5. \A i \in 1 .. 7 : In(i) BY <2>2, <2>3, <2>4, Zenon
    <2> QED BY <2>1, <2>5, Zenon
  <1>2. CASE F # 32
    <2>1. DOMAIN writes = 1 .. 6 BY <1>2 DEF FatWrote
    <2>d. data = 33 + 2 * fatsz /\ Rsvd(F) = 1 /\ RootSecs(F) = 32 BY <1>2
    <2>w. /\ writes[1].at = lba /\ writes[1].len = 1
          /\ writes[2].at = lba + 1 /\ writes[2].len = fatsz
          /\ writes[3].at = lba + 1 + fatsz /\ writes[3].len = fatsz
          /\ writes[4].at = lba + 1 + fatsz + fatsz /\ writes[4].len = 32
          /\ writes[5].at = lba + 1 /\ writes[5].len = 1
          /\ writes[6].at = lba + 1 + fatsz /\ writes[6].len = 1
      BY <1>2, <2>d DEF FatWrote, Wrote
    <2>a. /\ lba >= lba /\ lba + 1 >= lba /\ lba + 1 + fatsz >= lba
          /\ lba + 1 <= lba + data /\ lba + 1 + fatsz <= lba + data
          /\ lba + 1 + fatsz + fatsz <= lba + data
      BY <2>d
    <2>2. In(1) /\ In(2) /\ In(3) BY <2>a, <2>w, Zenon
    <2>3. In(4) /\ In(5) /\ In(6) BY <2>d, <2>w
    <2>4. \A i \in 1 .. 6 : i \in {1, 2, 3, 4, 5, 6} OBVIOUS
    <2>5. \A i \in 1 .. 6 : In(i) BY <2>2, <2>3, <2>4, Zenon
    <2> QED BY <2>1, <2>5, Zenon
  <1> QED BY <1>1, <1>2

------------------------------------------------------------------------------
(* Figures of an NTFS volume                                                 *)

\* The fields of the plan.
LEMMA PlanFields ==
    ASSUME NEW v, NEW o
    PROVE  LET L == Plan(v, o)
               cluster == o.bps * o.spc
           IN  /\ L.sector = o.bps \div 512
               /\ L.unit = (o.bps \div 512) * o.spc
               /\ L.base = VolumeStart(v, o) * (o.bps \div 512)
               /\ L.totsec = v.size \div (o.bps \div 512)
               /\ L.total = (v.size \div (o.bps \div 512)) \div o.spc
               /\ L.mft = o.mft /\ L.mftLen = CeilDiv(16 * 1024, cluster)
               /\ L.mirr = o.mirr /\ L.mirrLen = CeilDiv(4 * 1024, cluster)
               /\ L.bitmap = o.mirr + CeilDiv(4 * 1024, cluster)
               /\ L.bitmapLen = CeilDiv(CeilDiv((v.size \div (o.bps \div 512)) \div o.spc, 8), cluster)
               /\ L.attrdef = o.mirr + CeilDiv(4 * 1024, cluster)
                                + CeilDiv(CeilDiv((v.size \div (o.bps \div 512)) \div o.spc, 8), cluster)
               /\ L.log = o.mirr + CeilDiv(4 * 1024, cluster)
                                + CeilDiv(CeilDiv((v.size \div (o.bps \div 512)) \div o.spc, 8), cluster) + 1
  BY DEF Plan, MftRecords, MirrorRecords, RecordBytes, AttrDefClusters

\* the plan in figures
PlanFits(L, size) ==
    /\ L.sector \in {1, 2} /\ L.unit \in Nat /\ L.unit >= 2 /\ L.base \in Nat
    /\ L.totsec \in Nat /\ L.total \in Nat
    /\ L.mft \in Nat /\ L.mft >= 2 /\ L.mftLen \in Nat /\ L.mftLen > 0
    /\ L.mirr \in Nat /\ L.mirrLen \in Nat /\ L.mirrLen > 0
    /\ L.bitmapLen \in Nat /\ L.bitmapLen > 0
    /\ 32 <= L.mftLen * L.unit /\ (L.mftLen - 1) * L.unit < 32
    /\ 8 <= L.mirrLen * L.unit /\ (L.mirrLen - 1) * L.unit < 8
    /\ L.mft + L.mftLen <= L.mirr
    /\ L.bitmap = L.mirr + L.mirrLen
    /\ L.attrdef = L.bitmap + L.bitmapLen
    /\ L.log = L.attrdef + 1
    /\ L.log + 16 < L.total
    /\ (L.total - 1) * L.unit <= (L.totsec - 1) * L.sector
    /\ (L.totsec - 1) * L.sector < size

Positive(u) == u \in Nat /\ u > 0

\* c clusters of 512 * u bytes are what it takes for 512 * k bytes
Units(c, k, u) == /\ c = CeilDiv(512 * k, 512 * u)
                  /\ c \in Nat /\ c > 0 /\ k <= c * u /\ (c - 1) * u < k
\* Clusters that it takes for a table.
LEMMA CeilUnits ==
    ASSUME NEW k, NEW u, Positive(k), Positive(u)
    PROVE  \E c : Units(c, k, u)
  <1> USE DEF Positive, Units
  <1>0. PICK c : c = CeilDiv(512 * k, 512 * u) OBVIOUS
  <1>1. PICK x \in Nat : x = 512 * k OBVIOUS
  <1>2. PICK d \in Nat \ {0} : d = 512 * u OBVIOUS
  <1>3. c \in Nat /\ x <= c * d /\ c * d <= x + d - 1 BY <1>0, <1>1, <1>2, CeilBounds
  <1>4. PICK q \in Nat : q = c * u /\ c * d = 512 * q
    <2>1. c * u \in Nat /\ c * (512 * u) = 512 * (c * u) BY <1>3
    <2> QED BY <1>2, <2>1
  <1>5. k <= q BY <1>1, <1>3, <1>4
  <1>6. c # 0 BY <1>4, <1>5
  <1>7. (c - 1) * u = q - u BY <1>3, <1>4
  <1>8. 512 * q <= 512 * k + 512 * u - 1 BY <1>1, <1>2, <1>3, <1>4
  <1>9. q - u < k BY <1>8
  <1> QED BY <1>0, <1>3, <1>4, <1>5, <1>6, <1>7, <1>9

\* A table that is not empty takes a cluster.
LEMMA CeilPositive ==
    ASSUME NEW x \in Nat, x > 0, NEW u \in Nat, u > 0
    PROVE  \E c \in Nat : c = CeilDiv(x, u) /\ c > 0
  <1>1. CeilDiv(x, u) \in Nat /\ x <= CeilDiv(x, u) * u BY CeilBounds
  <1>2. PICK c \in Nat : c = CeilDiv(x, u) BY <1>1
  <1>3. x <= c * u BY <1>1, <1>2
  <1>4. c # 0 BY <1>3
  <1> QED BY <1>2, <1>4

\* the clusters of a volume end with its last sector, or before it
Extent(size, s, spc, t, n) ==
    /\ t = size \div s /\ n = t \div spc /\ t \in Nat /\ n \in Nat
    /\ n # 0 => (n - 1) * (s * spc) <= (t - 1) * s /\ (t - 1) * s < size
\* The last cluster does not begin behind the last sector, which lies in the volume.
LEMMA VolumeEnd ==
    ASSUME NEW size \in Nat, NEW s \in {1, 2}, NEW spc, Positive(spc)
    PROVE  \E t, n : Extent(size, s, spc, t, n)
  <1>0. spc \in Nat /\ spc > 0 BY DEF Positive
  <1>1. PICK t \in Nat : t = size \div s /\ t * s <= size BY DivBounds
  <1>2. PICK n \in Nat : n = t \div spc /\ n * spc <= t
    <2>1. t \div spc \in Nat /\ (t \div spc) * spc <= t BY <1>0, DivBounds
    <2> QED BY <2>1
  <1>3. ASSUME n # 0 PROVE (n - 1) * (s * spc) <= (t - 1) * s /\ (t - 1) * s < size
    <2>1. PICK p \in Nat : p = n * spc BY <1>0
    <2>2. n * spc >= 1 * spc BY <1>0, <1>3
    <2>3. (n - 1) * spc = p - spc BY <1>0, <2>1
    <2>4. PICK k \in Int : k = (n - 1) * spc /\ k <= t - 1 BY <1>0, <1>2, <2>1, <2>2, <2>3
    <2>5. CASE s = 1
      <3>1. (n - 1) * (1 * spc) = k BY <1>0, <2>4
      <3> QED BY <1>1, <2>4, <2>5, <3>1
    <2>6. CASE s = 2
      <3>1. (n - 1) * (2 * spc) = 2 * k BY <1>0, <2>4
      <3> QED BY <1>1, <2>4, <2>6, <3>1
    <2> QED BY <2>5, <2>6
  <1> QED BY <1>1, <1>2, <1>3 DEF Extent

\* $MFT, its mirror and the bitmap in clusters
Lengths(u, n, a, m, e) ==
    /\ a = CeilDiv(16 * 1024, 512 * u) /\ a \in Nat /\ a > 0 /\ 32 <= a * u /\ (a - 1) * u < 32
    /\ m = CeilDiv(4 * 1024, 512 * u) /\ m \in Nat /\ m > 0 /\ 8 <= m * u /\ (m - 1) * u < 8
    /\ e = CeilDiv(CeilDiv(n, 8), 512 * u) /\ e \in Nat /\ e > 0
\* The lengths of $MFT, its mirror and the bitmap.
LEMMA TableLengths ==
    ASSUME NEW u, Positive(u), NEW n, Positive(n)
    PROVE  \E a, m, e : Lengths(u, n, a, m, e)
  <1>1. PICK k : k = 32 /\ Positive(k) BY DEF Positive
  <1>2. PICK a : Units(a, k, u) BY <1>1, CeilUnits, Zenon
  <1>3. PICK j : j = 8 /\ Positive(j) BY DEF Positive
  <1>4. PICK m : Units(m, j, u) BY <1>3, CeilUnits, Zenon
  <1>5. PICK y \in Nat : y = CeilDiv(n, j) /\ y > 0 BY <1>3, CeilPositive DEF Positive
  <1>6. PICK d \in Nat : d = 512 * u /\ d > 0 BY DEF Positive
  <1>7. PICK e \in Nat : e = CeilDiv(y, d) /\ e > 0 BY <1>5, <1>6, CeilPositive
  <1>8. 512 * k = 16 * 1024 /\ 512 * j = 4 * 1024 BY <1>1, <1>3
  <1>9. a = CeilDiv(16 * 1024, 512 * u) /\ 32 <= a * u /\ (a - 1) * u < 32 BY <1>1, <1>2, <1>8 DEF Units
  <1>10. m = CeilDiv(4 * 1024, 512 * u) /\ 8 <= m * u /\ (m - 1) * u < 8 BY <1>3, <1>4, <1>8 DEF Units
  <1>11. e = CeilDiv(CeilDiv(n, 8), 512 * u) BY <1>3, <1>5, <1>6, <1>7
  <1>12. a \in Nat /\ a > 0 /\ m \in Nat /\ m > 0 BY <1>2, <1>4 DEF Units
  <1>13. Lengths(u, n, a, m, e) BY <1>7, <1>9, <1>10, <1>11, <1>12, Zenon DEF Lengths
  <1> QED BY <1>13, Zenon

\* a format of the kind FormatSound is about, whose layout was accepted
NtfsGiven(v, o, L) ==
    /\ v.size \in Nat /\ v.base \in Nat /\ o.at = 0
    /\ o.bps \in {512, 1024, 2048, 4096} /\ o.spc \in Nat \ {0} /\ o.mft \in Nat /\ o.mirr \in Nat
    /\ o.bps * o.spc >= 1024 /\ o.mft >= 2 /\ (v.base = 0 \/ o.bps = 512)
    /\ L = Plan(v, o) /\ L.sector \in {1, 2} /\ LayoutFits(L)

\* A layout that was accepted is in these figures.
LEMMA PlanInFigures ==
    ASSUME NEW v, NEW o, NEW L, NtfsGiven(v, o, L)
    PROVE  PlanFits(L, v.size) /\ L.base = v.base
  <1>l. L = Plan(v, o) BY DEF NtfsGiven
  <1>s. PICK s \in {1, 2} : s = o.bps \div 512 /\ L.sector = s BY <1>l, PlanFields DEF NtfsGiven
  <1>b. o.bps = 512 * s BY <1>s DEF NtfsGiven
  <1>p. PICK spc \in Nat : spc = o.spc /\ spc > 0 BY DEF NtfsGiven
  <1>q. Positive(spc) BY <1>p DEF Positive
  <1>z. PICK size \in Nat : size = v.size BY DEF NtfsGiven
  <1>u. PICK u \in Nat : u = s * spc /\ u > 0 BY <1>p
  <1>c. o.bps * o.spc = 512 * u BY <1>b, <1>p, <1>u
  <1>1. u >= 2 BY <1>c DEF NtfsGiven
  <1>2. L.unit = u BY <1>s, <1>p, <1>u, <1>l, PlanFields
  <1>3. L.base = v.base
    <2>1. L.base = v.base * s BY <1>s, <1>l, PlanFields DEF VolumeStart, NtfsGiven
    <2> QED BY <1>b, <2>1 DEF NtfsGiven
  <1>d. PICK t, n : Extent(size, s, spc, t, n) BY <1>s, <1>q, <1>z, VolumeEnd, Zenon
  <1>4. /\ t \in Nat /\ n \in Nat /\ t = size \div s /\ n = t \div spc
        /\ n # 0 => (n - 1) * (s * spc) <= (t - 1) * s /\ (t - 1) * s < size
    BY <1>d, Zenon DEF Extent
  <1>6. L.totsec = t /\ L.total = n BY <1>s, <1>p, <1>z, <1>4, <1>l, PlanFields
  <1>7. n # 0 /\ n > 0 BY <1>4, <1>6 DEF LayoutFits, NtfsGiven
  <1>8. Positive(u) /\ Positive(n) BY <1>u, <1>4, <1>7 DEF Positive
  <1>e. PICK a, m, e : Lengths(u, n, a, m, e) BY <1>8, TableLengths, Zenon
  <1>9. /\ a = CeilDiv(16 * 1024, 512 * u) /\ a \in Nat /\ a > 0 /\ 32 <= a * u /\ (a - 1) * u < 32
        /\ m = CeilDiv(4 * 1024, 512 * u) /\ m \in Nat /\ m > 0 /\ 8 <= m * u /\ (m - 1) * u < 8
        /\ e = CeilDiv(CeilDiv(n, 8), 512 * u) /\ e \in Nat /\ e > 0
    BY <1>e, Zenon DEF Lengths
  <1>15. L.mft = o.mft /\ L.mirr = o.mirr BY <1>l, PlanFields
  <1>16. L.mftLen = a BY <1>c, <1>9, <1>l, PlanFields
  <1>17. L.mirrLen = m /\ L.bitmap = o.mirr + m BY <1>c, <1>9, <1>l, PlanFields
  <1>18. L.bitmapLen = e /\ L.attrdef = o.mirr + m + e /\ L.log = o.mirr + m + e + 1
    BY <1>c, <1>s, <1>p, <1>z, <1>4, <1>9, <1>l, PlanFields
  <1>19. L.mft + L.mftLen <= L.mirr /\ L.log + 16 < L.total BY DEF LayoutFits, LogClusters, NtfsGiven
  <1>20. /\ (L.total - 1) * L.unit <= (L.totsec - 1) * L.sector
         /\ (L.totsec - 1) * L.sector < v.size
    BY <1>s, <1>u, <1>2, <1>4, <1>6, <1>7, <1>z
  <1>21. /\ 32 <= L.mftLen * L.unit /\ (L.mftLen - 1) * L.unit < 32
         /\ 8 <= L.mirrLen * L.unit /\ (L.mirrLen - 1) * L.unit < 8
    BY <1>2, <1>9, <1>16, <1>17
  <1>22. L.sector \in {1, 2} /\ L.unit \in Nat /\ L.unit >= 2 /\ L.base \in Nat
    BY <1>1, <1>2, <1>3, <1>s, <1>u DEF NtfsGiven
  <1>23. L.totsec \in Nat /\ L.total \in Nat BY <1>4, <1>6
  <1>24. /\ L.mft \in Nat /\ L.mft >= 2 /\ L.mftLen \in Nat /\ L.mftLen > 0
         /\ L.mirr \in Nat /\ L.mirrLen \in Nat /\ L.mirrLen > 0
         /\ L.bitmapLen \in Nat /\ L.bitmapLen > 0
    BY <1>9, <1>15, <1>16, <1>17, <1>18 DEF NtfsGiven
  <1>25. /\ L.bitmap = L.mirr + L.mirrLen
         /\ L.attrdef = L.bitmap + L.bitmapLen
         /\ L.log = L.attrdef + 1
    BY <1>15, <1>17, <1>18
  <1>26. PlanFits(L, v.size)
    BY <1>19, <1>20, <1>21, <1>22, <1>23, <1>24, <1>25 DEF PlanFits
  <1> QED BY <1>3, <1>26

\* where the parts of the volume lie: boot sector, its copy, $MFT, its mirror, the
\* bitmap, $AttrDef and the log, in clusters of U units
Places(b, K, M, R, B, A, G, U) ==
    /\ b \in Nat /\ K \in Nat /\ M \in Nat /\ R \in Nat /\ B \in Nat /\ A \in Nat /\ G \in Nat /\ U \in Nat
    /\ U >= 2 /\ b + 2 * U <= M /\ M + 32 <= R /\ R + 8 <= B /\ B < A /\ A + U = G /\ G + 16 * U <= K

PlacesOf(L, b, K, M, R, B, A, G, U) ==
    /\ b = L.base /\ K = L.base + (L.totsec - 1) * L.sector /\ U = L.unit
    /\ M = ClusterAt(L, L.mft) /\ R = ClusterAt(L, L.mirr) /\ B = ClusterAt(L, L.bitmap)
    /\ A = ClusterAt(L, L.attrdef) /\ G = ClusterAt(L, L.log) /\ L.bitmapLen * L.unit = A - B

\* The places follow one another in the volume without overlap.
LEMMA PlacesFit ==
    ASSUME NEW L, NEW size, PlanFits(L, size)
    PROVE  \E b, K, M, R, B, A, G, U : PlacesOf(L, b, K, M, R, B, A, G, U) /\ Places(b, K, M, R, B, A, G, U)
  <1>1. PICK U \in Nat, b \in Nat : U = L.unit /\ U >= 2 /\ b = L.base BY DEF PlanFits
  <1>2. PICK mft \in Nat, a \in Nat, mirr \in Nat, m \in Nat, e \in Nat, n \in Nat :
          /\ mft = L.mft /\ mft >= 2 /\ a = L.mftLen /\ mirr = L.mirr /\ m = L.mirrLen /\ e = L.bitmapLen
          /\ n = L.total /\ mft + a <= mirr /\ e > 0
    BY DEF PlanFits
  <1>3. L.bitmap = mirr + m /\ L.attrdef = mirr + m + e /\ L.log = mirr + m + e + 1 /\ mirr + m + e + 1 + 16 < n
    BY <1>2 DEF PlanFits
  <1>4. 32 <= a * U /\ 8 <= m * U BY <1>1, <1>2 DEF PlanFits
  <1>5. PICK k \in Nat : k = (L.totsec - 1) * L.sector /\ (n - 1) * U <= k
    <2>1. L.totsec \in Nat /\ L.sector \in {1, 2} BY DEF PlanFits
    <2>2. (L.totsec - 1) * L.sector \in Int BY <2>1
    <2>3. (n - 1) * U <= (L.totsec - 1) * L.sector BY <1>1, <1>2 DEF PlanFits
    <2>4. n - 1 \in Nat BY <1>2, <1>3
    <2>5. (n - 1) * U \in Nat BY <2>4
    <2> QED BY <2>2, <2>3, <2>5
  <1>6. PICK x \in Nat, au \in Nat, y \in Nat, mu \in Nat, eu \in Nat :
          x = mft * U /\ au = a * U /\ y = mirr * U /\ mu = m * U /\ eu = e * U
    OBVIOUS
  <1>7. 2 * U <= x
    <2>1. 2 * U <= mft * U BY <1>2
    <2> QED BY <1>6, <2>1
  <1>8. x + au <= y
    <2>1. (mft + a) * U <= mirr * U BY <1>2, MulMono
    <2>2. (mft + a) * U = mft * U + a * U BY Dist
    <2> QED BY <1>6, <2>1, <2>2
  <1>9. (mirr + m) * U = y + mu BY <1>6, Dist
  <1>10. (mirr + m + e) * U = y + mu + eu BY <1>6
  <1>11. (mirr + m + e + 1) * U = y + mu + eu + U BY <1>6
  <1>12. U <= eu
    <2>1. 1 * U <= e * U BY <1>2
    <2> QED BY <1>6, <2>1
  <1>13. y + mu + eu + U + 16 * U <= k
    <2>1. mirr + m + e + 1 + 16 <= n - 1 /\ n - 1 \in Nat BY <1>2, <1>3
    <2>2. (mirr + m + e + 1 + 16) * U <= (n - 1) * U BY <2>1, MulMono
    <2>3. (mirr + m + e + 1 + 16) * U = y + mu + eu + U + 16 * U BY <1>6
    <2>4. PICK z \in Int : z = (n - 1) * U BY <2>1
    <2> QED BY <1>5, <2>2, <2>3, <2>4
  <1>14. /\ ClusterAt(L, L.mft) = b + x /\ ClusterAt(L, L.mirr) = b + y
         /\ ClusterAt(L, L.bitmap) = b + y + mu /\ ClusterAt(L, L.attrdef) = b + y + mu + eu
         /\ ClusterAt(L, L.log) = b + y + mu + eu + U
    BY <1>1, <1>2, <1>3, <1>6, <1>9, <1>10, <1>11 DEF ClusterAt
  <1>15. Places(b, b + k, b + x, b + y, b + y + mu, b + y + mu + eu, b + y + mu + eu + U, U)
    BY <1>1, <1>4, <1>6, <1>7, <1>8, <1>12, <1>13 DEF Places
  <1>16. PlacesOf(L, b, b + k, b + x, b + y, b + y + mu, b + y + mu + eu, b + y + mu + eu + U, U)
    <2>1. L.bitmapLen * L.unit = b + y + mu + eu - (b + y + mu) BY <1>1, <1>2, <1>6
    <2> QED BY <1>1, <1>5, <1>14, <2>1 DEF PlacesOf
  <1> QED BY <1>15, <1>16, Zenon

\* where the twenty writes went
WroteAt(b, K, M, R, B, A, G, U) ==
    \A j \in 1 .. 20 :
      /\ writes[j].at = IF j = 1 THEN b ELSE IF j = 2 THEN K ELSE IF j = 3 THEN M ELSE IF j = 4 THEN R
                        ELSE IF j <= 13 THEN M + 2 * (j - 5) ELSE IF j = 14 THEN A ELSE IF j = 15 THEN G
                        ELSE IF j = 16 THEN B ELSE R + 2 * (j - 17)
      /\ writes[j].len = IF j <= 2 THEN 1 ELSE IF j = 3 THEN 32 ELSE IF j = 4 THEN 8
                         ELSE IF j <= 13 THEN 2 ELSE IF j = 14 THEN 8 ELSE IF j = 15 THEN 16 * U
                         ELSE IF j = 16 THEN A - B ELSE 2

\* Writes that follow the program went there.
LEMMA NtfsWroteAt ==
    ASSUME NEW L, NEW S, NtfsList(L, S), \A j \in 1 .. 20 : Follows(S, writes, j),
           NEW b, NEW K, NEW M, NEW R, NEW B, NEW A, NEW G, NEW U, PlacesOf(L, b, K, M, R, B, A, G, U)
    PROVE  WroteAt(b, K, M, R, B, A, G, U)
  <1>0. \A j \in 1 .. 20 : writes[j].at = S[j].at /\ writes[j].len = S[j].len BY DEF Follows
  <1>1. S[1].at = b /\ S[1].len = 1 BY Zenon DEF NtfsList, Does, PlacesOf
  <1>2. S[2].at = K /\ S[2].len = 1 BY Zenon DEF NtfsList, Does, PlacesOf
  <1>3. S[3].at = M /\ S[3].len = 32 BY Zenon DEF NtfsList, Does, PlacesOf
  <1>4. S[4].at = R /\ S[4].len = 8 BY Zenon DEF NtfsList, Does, PlacesOf
  <1>5. \A r \in 0 .. 8 : S[5 + r].at = M + 2 * r /\ S[5 + r].len = 2
    <2> TAKE r \in 0 .. 8
    <2>1. r * 2 = 2 * r OBVIOUS
    <2>2. RecordAt(L, L.mft, r) = M + 2 * r
      <3>1. RecordBytes \div 512 = 2 BY DEF RecordBytes
      <3> QED BY <2>1, <3>1 DEF RecordAt, PlacesOf
    <2>3. PICK s : s = S[5 + r] OBVIOUS
    <2>4. s.do # "stop"
      <3>1. 5 + r \in 1 .. 20 OBVIOUS
      <3> QED BY <2>3, <3>1 DEF Follows
    <2>5. Does(s, "checked", RecordAt(L, L.mft, r), 2, <<"record", r>>)
      BY <2>3, <2>4, Zenon DEF NtfsList, Stops
    <2>6. s.at = RecordAt(L, L.mft, r) /\ s.len = 2 BY <2>5, Zenon DEF Does
    <2> QED BY <2>2, <2>3, <2>6
  <1>6. S[14].at = A /\ S[14].len = 8 BY Zenon DEF NtfsList, Does, PlacesOf
  <1>7. S[15].at = G /\ S[15].len = 16 * U BY Zenon DEF NtfsList, Does, PlacesOf
  <1>8. S[16].at = B /\ S[16].len = A - B BY Zenon DEF NtfsList, Does, PlacesOf
  <1>9. \A r \in 0 .. 3 : S[17 + r].at = R + 2 * r /\ S[17 + r].len = 2
    <2> TAKE r \in 0 .. 3
    <2>1. RecordAt(L, L.mirr, r) = R + 2 * r
      <3>1. RecordBytes \div 512 = 2 /\ r * 2 = 2 * r BY DEF RecordBytes
      <3> QED BY <3>1 DEF RecordAt, PlacesOf
    <2>2. PICK s : s = S[17 + r] OBVIOUS
    <2>3. Does(s, "copy", RecordAt(L, L.mirr, r), 2, RecordAt(L, L.mft, r)) BY <2>2, Zenon DEF NtfsList
    <2>4. s.at = RecordAt(L, L.mirr, r) /\ s.len = 2 BY <2>3, Zenon DEF Does
    <2> QED BY <2>1, <2>2, <2>4
  <1>10. \A j \in 5 .. 13 : S[j].at = M + 2 * (j - 5) /\ S[j].len = 2
    <2> TAKE j \in 5 .. 13
    <2>1. PICK r \in 0 .. 8 : r = j - 5 /\ j = 5 + r OBVIOUS
    <2>2. S[5 + r].at = M + 2 * r /\ S[5 + r].len = 2 BY <1>5
    <2> QED BY <2>1, <2>2
  <1>11. \A j \in 17 .. 20 : S[j].at = R + 2 * (j - 17) /\ S[j].len = 2
    <2> TAKE j \in 17 .. 20
    <2>1. PICK r \in 0 .. 3 : r = j - 17 /\ j = 17 + r OBVIOUS
    <2>2. S[17 + r].at = R + 2 * r /\ S[17 + r].len = 2 BY <1>9
    <2> QED BY <2>1, <2>2
  <1>12. SUFFICES ASSUME NEW j \in 1 .. 20
         PROVE  /\ S[j].at = IF j = 1 THEN b ELSE IF j = 2 THEN K ELSE IF j = 3 THEN M ELSE IF j = 4 THEN R
                        ELSE IF j <= 13 THEN M + 2 * (j - 5) ELSE IF j = 14 THEN A ELSE IF j = 15 THEN G
                        ELSE IF j = 16 THEN B ELSE R + 2 * (j - 17)
                /\ S[j].len = IF j <= 2 THEN 1 ELSE IF j = 3 THEN 32 ELSE IF j = 4 THEN 8
                         ELSE IF j <= 13 THEN 2 ELSE IF j = 14 THEN 8 ELSE IF j = 15 THEN 16 * U
                         ELSE IF j = 16 THEN A - B ELSE 2
    BY <1>0 DEF WroteAt
  <1>13. CASE j \in 1 .. 4
    <2>1. j = 1 \/ j = 2 \/ j = 3 \/ j = 4 BY <1>13
    <2> QED BY <1>1, <1>2, <1>3, <1>4, <2>1
  <1>14. CASE j \in 5 .. 13 BY <1>10, <1>14
  <1>15. CASE j \in 14 .. 16
    <2>1. j = 14 \/ j = 15 \/ j = 16 BY <1>15
    <2> QED BY <1>6, <1>7, <1>8, <2>1
  <1>16. CASE j \in 17 .. 20 BY <1>11, <1>16
  <1> QED BY <1>13, <1>14, <1>15, <1>16

------------------------------------------------------------------------------
(* What an NTFS format leaves in its units                                   *)

\* The last write over each unit that matters, of all twenty; and for a copy, over its
\* source among the writes before it.
LEMMA LastWriters ==
    ASSUME NEW b, NEW K, NEW M, NEW R, NEW B, NEW A, NEW G, NEW U,
           Places(b, K, M, R, B, A, G, U), WroteAt(b, K, M, R, B, A, G, U)
    PROVE  /\ LastOver(writes, 21, 1, b) /\ LastOver(writes, 21, 2, K)
           /\ \A r \in 0 .. 8 : \A u \in M + 2 * r .. M + 2 * r + 1 : LastOver(writes, 21, 5 + r, u)
           /\ \A u \in M + 18 .. M + 31 : LastOver(writes, 21, 3, u)
           /\ \A r \in 0 .. 3 : LastOver(writes, 21, 17 + r, R + 2 * r)
           /\ \A u \in A .. A + 1 : LastOver(writes, 21, 14, u)
           /\ \A u \in G .. G + 16 * U - 1 : LastOver(writes, 21, 15, u)
           /\ \A u \in B .. A - 1 : LastOver(writes, 21, 16, u)
           /\ \A r \in 0 .. 3 : LastOver(writes, 17 + r, 5 + r, M + 2 * r)
  <1>p. /\ b \in Nat /\ K \in Nat /\ M \in Nat /\ R \in Nat /\ B \in Nat /\ A \in Nat /\ G \in Nat /\ U \in Nat
        /\ U >= 2 /\ b + 2 * U <= M /\ M + 32 <= R /\ R + 8 <= B /\ B < A /\ A + U = G /\ G + 16 * U <= K
    BY Zenon DEF Places
  <1>1. \A u \in Nat :
          /\ Over(writes[1], u) <=> u = b
          /\ Over(writes[2], u) <=> u = K
          /\ Over(writes[3], u) <=> M <= u /\ u < M + 32
          /\ Over(writes[4], u) <=> R <= u /\ u < R + 8
          /\ Over(writes[14], u) <=> A <= u /\ u < A + 8
          /\ Over(writes[15], u) <=> G <= u /\ u < G + 16 * U
          /\ Over(writes[16], u) <=> B <= u /\ u < A
    <2> TAKE u \in Nat
    <2>1. Over(writes[1], u) <=> u = b BY <1>p DEF Over, WroteAt
    <2>2. Over(writes[2], u) <=> u = K BY <1>p DEF Over, WroteAt
    <2>3. Over(writes[3], u) <=> M <= u /\ u < M + 32 BY <1>p DEF Over, WroteAt
    <2>4. Over(writes[4], u) <=> R <= u /\ u < R + 8 BY <1>p DEF Over, WroteAt
    <2>5. Over(writes[14], u) <=> A <= u /\ u < A + 8 BY <1>p DEF Over, WroteAt
    <2>6. Over(writes[15], u) <=> G <= u /\ u < G + 16 * U BY <1>p DEF Over, WroteAt
    <2>7. Over(writes[16], u) <=> B <= u /\ u < A BY <1>p DEF Over, WroteAt
    <2> QED BY <2>1, <2>2, <2>3, <2>4, <2>5, <2>6, <2>7, Zenon
  <1>2. \A j \in 5 .. 13 : \A u \in Nat : Over(writes[j], u) <=> M + 2 * (j - 5) <= u /\ u <= M + 2 * (j - 5) + 1
    BY <1>p DEF Over, WroteAt
  <1>3. \A j \in 17 .. 20 : \A u \in Nat : Over(writes[j], u) <=> R + 2 * (j - 17) <= u /\ u <= R + 2 * (j - 17) + 1
    BY <1>p DEF Over, WroteAt
  <1>4. \A j \in 1 .. 20 : \/ j \in {1, 2, 3, 4, 14, 15, 16} \/ j \in 5 .. 13 \/ j \in 17 .. 20 OBVIOUS
  <1>5. LastOver(writes, 21, 1, b)
    <2>1. ASSUME NEW j \in 2 .. 20 PROVE ~Over(writes[j], b) BY <1>p, <1>1, <1>2, <1>3, <1>4
    <2> QED BY <1>p, <1>1, <2>1 DEF LastOver
  <1>6. LastOver(writes, 21, 2, K)
    <2>1. ASSUME NEW j \in 3 .. 20 PROVE ~Over(writes[j], K) BY <1>p, <1>1, <1>2, <1>3, <1>4
    <2> QED BY <1>p, <1>1, <2>1 DEF LastOver
  <1>7. ASSUME NEW r \in 0 .. 8, NEW u \in M + 2 * r .. M + 2 * r + 1 PROVE LastOver(writes, 21, 5 + r, u)
    <2>0. u \in Nat /\ M <= u /\ u < M + 18 BY <1>p
    <2>1. ASSUME NEW j \in 5 + r + 1 .. 20 PROVE ~Over(writes[j], u)
      BY <1>p, <1>1, <1>2, <1>3, <1>4, <2>0
    <2>2. Over(writes[5 + r], u) BY <1>p, <1>2, <2>0
    <2> QED BY <2>1, <2>2 DEF LastOver
  <1>8. ASSUME NEW u \in M + 18 .. M + 31 PROVE LastOver(writes, 21, 3, u)
    <2>0. u \in Nat BY <1>p
    <2>1. ASSUME NEW j \in 4 .. 20 PROVE ~Over(writes[j], u)
      BY <1>p, <1>1, <1>2, <1>3, <1>4, <2>0
    <2> QED BY <1>p, <1>1, <2>0, <2>1 DEF LastOver
  <1>9. ASSUME NEW r \in 0 .. 3 PROVE LastOver(writes, 21, 17 + r, R + 2 * r)
    <2>1. ASSUME NEW j \in 17 + r + 1 .. 20 PROVE ~Over(writes[j], R + 2 * r) BY <1>p, <1>3
    <2>2. Over(writes[17 + r], R + 2 * r) BY <1>p, <1>3
    <2> QED BY <2>1, <2>2 DEF LastOver
  <1>10. ASSUME NEW u \in A .. A + 1 PROVE LastOver(writes, 21, 14, u)
    <2>0. u \in Nat BY <1>p
    <2>1. ASSUME NEW j \in 15 .. 20 PROVE ~Over(writes[j], u)
      BY <1>p, <1>1, <1>3, <1>4, <2>0
    <2> QED BY <1>p, <1>1, <2>0, <2>1 DEF LastOver
  <1>11. ASSUME NEW u \in G .. G + 16 * U - 1 PROVE LastOver(writes, 21, 15, u)
    <2>0. u \in Nat BY <1>p
    <2>1. ASSUME NEW j \in 16 .. 20 PROVE ~Over(writes[j], u)
      BY <1>p, <1>1, <1>3, <1>4, <2>0
    <2> QED BY <1>p, <1>1, <2>0, <2>1 DEF LastOver
  <1>12. ASSUME NEW u \in B .. A - 1 PROVE LastOver(writes, 21, 16, u)
    <2>0. u \in Nat BY <1>p
    <2>1. ASSUME NEW j \in 17 .. 20 PROVE ~Over(writes[j], u)
      BY <1>p, <1>3, <2>0
    <2> QED BY <1>p, <1>1, <2>0, <2>1 DEF LastOver
  <1>13. ASSUME NEW r \in 0 .. 3 PROVE LastOver(writes, 17 + r, 5 + r, M + 2 * r)
    <2>0. M + 2 * r \in Nat BY <1>p
    <2>1. ASSUME NEW j \in 5 + r + 1 .. 17 + r - 1 PROVE ~Over(writes[j], M + 2 * r)
      BY <1>p, <1>1, <1>2, <1>3, <1>4, <2>0
    <2>2. Over(writes[5 + r], M + 2 * r) BY <1>p, <1>2, <2>0
    <2> QED BY <2>1, <2>2 DEF LastOver
  <1> QED BY <1>5, <1>6, <1>7, <1>8, <1>9, <1>10, <1>11, <1>12, <1>13

\* what NtfsSound says of the units
Owners(L) ==
    /\ Owner(L.base) = "boot" /\ Owner(L.base + (L.totsec - 1) * L.sector) = "boot"
    /\ \A r \in 0 .. 8 : Owner(RecordAt(L, L.mft, r)) = <<"record", r>>
    /\ Holds(ClusterAt(L, L.mft), MftRecords * 2, {<<"record", r>> : r \in 0 .. 8} \cup {"zero"})
    /\ \A r \in 0 .. MirrorRecords - 1 : Owner(RecordAt(L, L.mirr, r)) = Owner(RecordAt(L, L.mft, r))
    /\ Holds(ClusterAt(L, L.attrdef), AttrDefUsed, {"attrdef"})
    /\ Holds(ClusterAt(L, L.log), LogClusters * L.unit, {"log"})
    /\ Holds(ClusterAt(L, L.bitmap), L.bitmapLen * L.unit, {<<"bitmap", Marked(L)>>})

\* every write of the metadata was made
NtfsWrote(L, S) ==
    /\ NtfsList(L, S) /\ \E W : writes \in Seq(W)
    /\ Len(writes) = 20 /\ \A j \in 1 .. 20 : Follows(S, writes, j)

\* Every file's units hold what was written for it, and the mirror what the records
\* held when they were copied.
LEMMA NtfsOwners ==
    ASSUME NEW L, NEW S, NtfsWrote(L, S), NEW size, PlanFits(L, size)
    PROVE  Owners(L)
  <1>1. PICK b, K, M, R, B, A, G, U : PlacesOf(L, b, K, M, R, B, A, G, U) /\ Places(b, K, M, R, B, A, G, U)
    BY PlacesFit, Zenon
  <1>2. NtfsList(L, S) /\ (\A j \in 1 .. 20 : Follows(S, writes, j)) /\ Len(writes) = 20
    BY Zenon DEF NtfsWrote
  <1>3. WroteAt(b, K, M, R, B, A, G, U) BY <1>1, <1>2, NtfsWroteAt, Zenon
  <1>4. /\ LastOver(writes, 21, 1, b) /\ LastOver(writes, 21, 2, K)
        /\ \A r \in 0 .. 8 : \A u \in M + 2 * r .. M + 2 * r + 1 : LastOver(writes, 21, 5 + r, u)
        /\ \A u \in M + 18 .. M + 31 : LastOver(writes, 21, 3, u)
        /\ \A r \in 0 .. 3 : LastOver(writes, 21, 17 + r, R + 2 * r)
        /\ \A u \in A .. A + 1 : LastOver(writes, 21, 14, u)
        /\ \A u \in G .. G + 16 * U - 1 : LastOver(writes, 21, 15, u)
        /\ \A u \in B .. A - 1 : LastOver(writes, 21, 16, u)
        /\ \A r \in 0 .. 3 : LastOver(writes, 17 + r, 5 + r, M + 2 * r)
    BY <1>1, <1>3, LastWriters, Zenon
  <1>5. ASSUME NEW i, NEW u, LastOver(writes, 21, i, u) PROVE Owner(u) = writes[i].tag
    <2>1. PICK W : writes \in Seq(W) BY Zenon DEF NtfsWrote
    <2>2. LastOver(writes, Len(writes) + 1, i, u) BY <1>2, <1>5
    <2> QED BY <2>1, <2>2, OwnerIs, Zenon
  <1>f. /\ Follows(S, writes, 1) /\ Follows(S, writes, 2) /\ Follows(S, writes, 3)
        /\ Follows(S, writes, 14) /\ Follows(S, writes, 15) /\ Follows(S, writes, 16)
    BY <1>2
  <1>6. writes[1].tag = "boot"
    <2>1. S[1].do = "write" /\ S[1].tag = "boot" BY <1>2, Zenon DEF NtfsList, Does
    <2>2. S[1].do # "copy" BY <2>1
    <2> QED BY <1>f, <2>1, <2>2, Zenon DEF Follows
  <1>7. writes[2].tag = "boot"
    <2>1. S[2].do = "write" /\ S[2].tag = "boot" BY <1>2, Zenon DEF NtfsList, Does
    <2>2. S[2].do # "copy" BY <2>1
    <2> QED BY <1>f, <2>1, <2>2, Zenon DEF Follows
  <1>8. writes[3].tag = "zero"
    <2>1. S[3].do = "write" /\ S[3].tag = "zero" BY <1>2, Zenon DEF NtfsList, Does
    <2>2. S[3].do # "copy" BY <2>1
    <2> QED BY <1>f, <2>1, <2>2, Zenon DEF Follows
  <1>9. writes[14].tag = "attrdef"
    <2>1. S[14].do = "checked" /\ S[14].tag = "attrdef" BY <1>2, Zenon DEF NtfsList, Does
    <2>2. S[14].do # "copy" BY <2>1
    <2> QED BY <1>f, <2>1, <2>2, Zenon DEF Follows
  <1>10. writes[15].tag = "log"
    <2>1. S[15].do = "write" /\ S[15].tag = "log" BY <1>2, Zenon DEF NtfsList, Does
    <2>2. S[15].do # "copy" BY <2>1
    <2> QED BY <1>f, <2>1, <2>2, Zenon DEF Follows
  <1>11. writes[16].tag = <<"bitmap", Marked(L)>>
    <2>1. S[16].do = "checked" /\ S[16].tag = <<"bitmap", Marked(L)>> BY <1>2, Zenon DEF NtfsList, Does
    <2>2. S[16].do # "copy" BY <2>1
    <2> QED BY <1>f, <2>1, <2>2, Zenon DEF Follows
  <1>12. ASSUME NEW r \in 0 .. 8 PROVE writes[5 + r].tag = <<"record", r>>
    <2>1. 5 + r \in 1 .. 20 OBVIOUS
    <2>2. Follows(S, writes, 5 + r) BY <1>2, <2>1
    <2>3. S[5 + r].do # "stop" BY <2>2, Zenon DEF Follows
    <2>4. Does(S[5 + r], "checked", RecordAt(L, L.mft, r), 2, <<"record", r>>)
      BY <1>2, <2>3, Zenon DEF NtfsList, Stops
    <2>5. S[5 + r].do = "checked" /\ S[5 + r].tag = <<"record", r>> BY <2>4, Zenon DEF Does
    <2>6. S[5 + r].do # "copy" BY <2>5
    <2> QED BY <2>2, <2>5, <2>6, Zenon DEF Follows
  <1>n. /\ b \in Nat /\ K \in Nat /\ M \in Nat /\ R \in Nat /\ B \in Nat /\ A \in Nat /\ G \in Nat /\ U \in Nat /\ B < A
    BY <1>1, Zenon DEF Places
  <1>p. /\ b = L.base /\ K = L.base + (L.totsec - 1) * L.sector /\ U = L.unit
        /\ M = ClusterAt(L, L.mft) /\ R = ClusterAt(L, L.mirr) /\ B = ClusterAt(L, L.bitmap)
        /\ A = ClusterAt(L, L.attrdef) /\ G = ClusterAt(L, L.log) /\ L.bitmapLen * L.unit = A - B
    BY <1>1, Zenon DEF PlacesOf
  <1>13. \A r \in 0 .. 8 : RecordAt(L, L.mft, r) = M + 2 * r /\ RecordAt(L, L.mirr, r) = R + 2 * r
    <2> TAKE r \in 0 .. 8
    <2>1. RecordBytes \div 512 = 2 /\ r * 2 = 2 * r BY DEF RecordBytes
    <2> QED BY <1>p, <2>1 DEF RecordAt
  <1>14. ASSUME NEW r \in 0 .. 3 PROVE writes[17 + r].tag = <<"record", r>>
    <2>1. 17 + r \in 1 .. 20 /\ r \in 0 .. 8 OBVIOUS
    <2>2. Follows(S, writes, 17 + r) BY <1>2, <2>1
    <2>3. Does(S[17 + r], "copy", RecordAt(L, L.mirr, r), 2, RecordAt(L, L.mft, r))
      BY <1>2, Zenon DEF NtfsList
    <2>4. S[17 + r].do = "copy" /\ S[17 + r].tag = M + 2 * r BY <1>13, <2>1, <2>3, Zenon DEF Does
    <2>5. LastOver(writes, 17 + r, 5 + r, S[17 + r].tag) BY <1>4, <2>4, Zenon
    <2>6. writes[17 + r].tag = writes[5 + r].tag BY <2>2, <2>4, <2>5, Zenon DEF Follows
    <2> QED BY <1>12, <2>1, <2>6, Zenon
  <1>15. ASSUME NEW r \in 0 .. 8 PROVE \A u \in M + 2 * r .. M + 2 * r + 1 : Owner(u) = <<"record", r>>
    BY <1>4, <1>5, <1>12, Zenon
  <1>16. ASSUME NEW r \in 0 .. 8 PROVE Owner(RecordAt(L, L.mft, r)) = <<"record", r>>
    <2>1. M + 2 * r \in M + 2 * r .. M + 2 * r + 1 BY <1>n
    <2> QED BY <1>13, <1>15, <2>1, Zenon
  <1>17. ASSUME NEW r \in 0 .. 3 PROVE Owner(RecordAt(L, L.mirr, r)) = <<"record", r>>
    <2>1. r \in 0 .. 8 OBVIOUS
    <2> QED BY <1>4, <1>5, <1>13, <1>14, <2>1, Zenon
  <1>18. Holds(M, 32, {<<"record", r>> : r \in 0 .. 8} \cup {"zero"})
    <2>1. SUFFICES ASSUME NEW u \in M .. M + 32 - 1
                   PROVE  Owner(u) \in {<<"record", r>> : r \in 0 .. 8} \cup {"zero"}
      BY DEF Holds
    <2>2. CASE u \in M + 18 .. M + 31
      <3>1. Owner(u) = "zero" BY <1>4, <1>5, <1>8, <2>2, Zenon
      <3> QED BY <3>1, Zenon
    <2>3. CASE u \notin M + 18 .. M + 31
      <3>1. PICK r \in 0 .. 8 : u \in M + 2 * r .. M + 2 * r + 1
        <4>1. (u - M) \div 2 \in 0 .. 8 /\ u \in M + 2 * ((u - M) \div 2) .. M + 2 * ((u - M) \div 2) + 1
          BY <1>n, <2>3
        <4> QED BY <4>1, Zenon
      <3>2. Owner(u) = <<"record", r>> BY <1>15, <3>1, Zenon
      <3> QED BY <3>2, Zenon
    <2> QED BY <2>2, <2>3
  <1>19. Holds(A, 2, {"attrdef"})
    <2>1. A .. A + 2 - 1 = A .. A + 1 BY <1>n
    <2> QED BY <1>4, <1>5, <1>9, <2>1, Zenon DEF Holds
  <1>20. Holds(G, 16 * U, {"log"})
    BY <1>4, <1>5, <1>10, Zenon DEF Holds
  <1>21. Holds(B, A - B, {<<"bitmap", Marked(L)>>})
    <2>1. B .. B + (A - B) - 1 = B .. A - 1 BY <1>n
    <2> QED BY <1>4, <1>5, <1>11, <2>1, Zenon DEF Holds
  <1>22. Owner(b) = "boot" /\ Owner(K) = "boot" BY <1>4, <1>5, <1>6, <1>7, Zenon
  <1>23. \A r \in 0 .. MirrorRecords - 1 : Owner(RecordAt(L, L.mirr, r)) = Owner(RecordAt(L, L.mft, r))
    <2>1. MirrorRecords - 1 = 3 BY DEF MirrorRecords
    <2>2. \A r \in 0 .. 3 : r \in 0 .. 8 OBVIOUS
    <2> QED BY <1>16, <1>17, <2>1, <2>2, Zenon
  <1>24. MftRecords * 2 = 32 /\ AttrDefUsed = 2 /\ LogClusters = 16 BY DEF MftRecords, AttrDefUsed, LogClusters
  <1> QED BY <1>16, <1>18, <1>19, <1>20, <1>21, <1>22, <1>23, <1>24, <1>p, Zenon DEF Owners

------------------------------------------------------------------------------
(* The clusters that an NTFS format reaches                                  *)

\* the clusters of a run of units
ClusterNo(b, U, u) == (u - b) \div U
Reached(b, U, at, len) == ClusterNo(b, U, at) .. ClusterNo(b, U, at + len - 1)

Lies(b, U, at, len, c, n) ==
    /\ b \in Nat /\ at = b + c * U
    /\ c \in Nat /\ n \in Nat /\ len \in Nat /\ U \in Nat /\ U > 0 /\ n > 0
    /\ (n - 1) * U < len /\ len <= n * U

Covers(b, U, at, len, c, n) == Reached(b, U, at, len) = Span(c, n)
\* A write that begins at a cluster reaches that cluster and those it needs.
LEMMA ReachedRange ==
    ASSUME NEW b, NEW U, NEW at, NEW len, NEW c, NEW n, Lies(b, U, at, len, c, n)
    PROVE  Covers(b, U, at, len, c, n)
  <1>0. b \in Nat /\ at = b + c * U BY Zenon DEF Lies
  <1>1. /\ c \in Nat /\ n \in Nat /\ len \in Nat /\ U \in Nat /\ U > 0 /\ n > 0
        /\ (n - 1) * U < len /\ len <= n * U
    BY Zenon DEF Lies
  <1>2. PICK p \in Nat : p = c * U BY <1>1
  <1>3. p \div U = c
    <2>1. c <= p \div U BY <1>1, <1>2, DivLow
    <2>2. p < (c + 1) * U BY <1>1, <1>2
    <2>3. p \div U < c + 1 BY <1>1, <2>2, DivHigh
    <2>4. p \div U \in Nat BY <1>1, DivBounds
    <2> QED BY <1>1, <2>1, <2>3, <2>4
  <1>4. PICK k \in Nat : k = n - 1 BY <1>1
  <1>5. (c + k) * U = p + k * U BY <1>1, <1>2
  <1>6. (c + n) * U = p + n * U BY <1>1, <1>2
  <1>7. k * U < len /\ k * U \in Nat /\ n * U \in Nat BY <1>1, <1>4
  <1>8. PICK x \in Nat : x = p + len - 1 BY <1>1, <1>7
  <1>9. (c + k) * U <= x BY <1>1, <1>5, <1>7, <1>8
  <1>10. x < (c + n) * U BY <1>1, <1>6, <1>7, <1>8
  <1>11. x \div U = c + k
    <2>1. c + k \in Nat /\ c + n \in Nat BY <1>1
    <2>2. c + k <= x \div U BY <1>1, <1>9, <2>1, DivLow
    <2>3. x \div U < c + n BY <1>1, <1>10, <2>1, DivHigh
    <2>4. x \div U \in Nat BY <1>1, DivBounds
    <2> QED BY <1>1, <1>4, <2>2, <2>3, <2>4
  <1>12. at - b = p BY <1>0, <1>2
  <1>13. at + len - 1 - b = x BY <1>0, <1>1, <1>2, <1>8
  <1>14. c + k = c + n - 1 BY <1>1, <1>4
  <1>15. ClusterNo(b, U, at) = c BY <1>3, <1>12 DEF ClusterNo
  <1>17. ClusterNo(b, U, at + len - 1) = c + n - 1 
    <2>1. at \in Nat BY <1>0, <1>2
    <2> QED BY <1>0, <1>1, <1>4, <1>8, <1>11, <1>13, <1>14, <2>1 DEF ClusterNo
  <1>16. Reached(b, U, at, len) = c .. c + n - 1 BY <1>15, <1>17 DEF Reached
  <1> QED BY <1>16, Zenon DEF Covers, Span

\* a write that lies inside another
Within(b, U, at2, len2, at, len) ==
    /\ b \in Nat /\ U \in Nat /\ U > 0 /\ at \in Nat /\ len \in Nat /\ at2 \in Nat /\ len2 \in Nat
    /\ b <= at /\ at <= at2 /\ at2 + len2 <= at + len /\ len2 > 0
\* It reaches no cluster that the other does not.
LEMMA ReachedWithin ==
    ASSUME NEW b, NEW U, NEW at, NEW len, NEW at2, NEW len2, Within(b, U, at2, len2, at, len)
    PROVE  Reached(b, U, at2, len2) \subseteq Reached(b, U, at, len)
  <1>0. /\ b \in Nat /\ U \in Nat /\ U > 0 /\ at \in Nat /\ len \in Nat /\ at2 \in Nat /\ len2 \in Nat
        /\ b <= at /\ at <= at2 /\ at2 + len2 <= at + len /\ len2 > 0
    BY Zenon DEF Within
  <1>1. PICK x \in Nat, y \in Nat, z \in Nat, w \in Nat :
          x = at - b /\ y = at2 - b /\ z = at2 + len2 - 1 - b /\ w = at + len - 1 - b
    BY <1>0
  <1>2. x <= y /\ z <= w BY <1>0, <1>1
  <1>3. x \div U <= y \div U /\ z \div U <= w \div U BY <1>0, <1>2, DivMono
  <1>4. x \div U \in Nat /\ y \div U \in Nat /\ z \div U \in Nat /\ w \div U \in Nat BY <1>0, DivBounds
  <1>7. PICK xx \in Nat, yy \in Nat, zz \in Nat, ww \in Nat :
          xx = x \div U /\ yy = y \div U /\ zz = z \div U /\ ww = w \div U
    BY <1>4
  <1>8. yy .. zz \subseteq xx .. ww BY <1>3, <1>7
  <1>9. /\ ClusterNo(b, U, at) = xx /\ ClusterNo(b, U, at2) = yy /\ ClusterNo(b, U, at2 + len2 - 1) = zz
        /\ ClusterNo(b, U, at + len - 1) = ww
    BY <1>0, <1>1, <1>7 DEF ClusterNo
  <1> QED BY <1>8, <1>9 DEF Reached

\* the places in clusters
InClusters(L, b, M, R, B, A, G, U) ==
    /\ Lies(b, U, b, 1, 0, 1)
    /\ Lies(b, U, M, 32, L.mft, L.mftLen) /\ Lies(b, U, R, 8, L.mirr, L.mirrLen)
    /\ Lies(b, U, B, A - B, L.bitmap, L.bitmapLen) /\ Lies(b, U, G, 16 * U, L.log, 16)
    /\ Lies(b, U, A, 17 * U, L.attrdef, 17) /\ Lies(b, U, A, 1, L.attrdef, 1)

\* The places begin at clusters of the plan.
LEMMA ClustersOf ==
    ASSUME NEW L, NEW size, PlanFits(L, size), NEW b, NEW K, NEW M, NEW R, NEW B, NEW A, NEW G, NEW U,
           PlacesOf(L, b, K, M, R, B, A, G, U)
    PROVE  InClusters(L, b, M, R, B, A, G, U)
  <1>1. b \in Nat /\ U \in Nat /\ U >= 2 /\ b = L.base /\ U = L.unit BY DEF PlanFits, PlacesOf
  <1>2. /\ M = b + L.mft * U /\ R = b + L.mirr * U /\ B = b + L.bitmap * U
        /\ A = b + L.attrdef * U /\ G = b + L.log * U
    BY <1>1, Zenon DEF PlacesOf, ClusterAt
  <1>3. PICK e \in Nat, m \in Nat, a \in Nat, mirr \in Nat, mft \in Nat :
           e = L.bitmapLen /\ m = L.mirrLen /\ a = L.mftLen /\ mirr = L.mirr /\ mft = L.mft /\ e > 0 /\ m > 0 /\ a > 0
    BY DEF PlanFits
  <1>4. L.bitmap = mirr + m /\ L.attrdef = mirr + m + e /\ L.log = mirr + m + e + 1 BY <1>3 DEF PlanFits
  <1>5. Lies(b, U, M, 32, L.mft, L.mftLen) BY <1>1, <1>2, <1>3 DEF Lies, PlanFits
  <1>6. Lies(b, U, R, 8, L.mirr, L.mirrLen) BY <1>1, <1>2, <1>3 DEF Lies, PlanFits
  <1>7. Lies(b, U, B, A - B, L.bitmap, L.bitmapLen)
    <2>1. A - B = e * U BY <1>1, <1>3 DEF PlacesOf
    <2>2. e * U \in Nat /\ (e - 1) * U < e * U BY <1>1, <1>3
    <2> QED BY <1>1, <1>2, <1>3, <1>4, <2>1, <2>2 DEF Lies
  <1>8. Lies(b, U, G, 16 * U, L.log, 16)
    <2>1. L.log \in Nat BY <1>4
    <2>2. 16 * U \in Nat /\ (16 - 1) * U < 16 * U BY <1>1
    <2> QED BY <1>1, <1>2, <2>1, <2>2 DEF Lies
  <1>9. Lies(b, U, A, 17 * U, L.attrdef, 17)
    <2>1. L.attrdef \in Nat BY <1>4
    <2>2. 17 * U \in Nat /\ (17 - 1) * U < 17 * U BY <1>1
    <2> QED BY <1>1, <1>2, <2>1, <2>2 DEF Lies
  <1>10. Lies(b, U, A, 1, L.attrdef, 1)
    <2>1. L.attrdef \in Nat BY <1>4
    <2> QED BY <1>1, <1>2, <2>1 DEF Lies
  <1>11. Lies(b, U, b, 1, 0, 1) BY <1>1 DEF Lies
  <1> QED BY <1>5, <1>6, <1>7, <1>8, <1>9, <1>10, <1>11, Zenon DEF InClusters

\* the clusters that write j reaches, and the file they belong to
ReachOf(b, U, j) == Reached(b, U, writes[j].at, writes[j].len)
Reaches(L, b, U) ==
    /\ ReachOf(b, U, 1) = {0}
    /\ ReachOf(b, U, 2) \cap (0 .. L.total - 1) \subseteq {L.total - 1}
    /\ ReachOf(b, U, 3) = Span(L.mft, L.mftLen) /\ ReachOf(b, U, 4) = Span(L.mirr, L.mirrLen)
    /\ \A j \in 5 .. 13 : ReachOf(b, U, j) \subseteq Span(L.mft, L.mftLen)
    /\ ReachOf(b, U, 14) \subseteq Span(L.attrdef, 17) /\ L.attrdef \in ReachOf(b, U, 14)
    /\ ReachOf(b, U, 15) = Span(L.log, 16) /\ ReachOf(b, U, 16) = Span(L.bitmap, L.bitmapLen)
    /\ \A j \in 17 .. 20 : ReachOf(b, U, j) \subseteq Span(L.mirr, L.mirrLen)

\* The clusters that each of the twenty writes reaches.
LEMMA WritesReach ==
    ASSUME NEW L, NEW size, PlanFits(L, size), NEW b, NEW K, NEW M, NEW R, NEW B, NEW A, NEW G, NEW U,
           PlacesOf(L, b, K, M, R, B, A, G, U), Places(b, K, M, R, B, A, G, U),
           WroteAt(b, K, M, R, B, A, G, U)
    PROVE  Reaches(L, b, U)
  <1>1. InClusters(L, b, M, R, B, A, G, U) BY ClustersOf, Zenon
  <1>3. /\ Lies(b, U, b, 1, 0, 1)
        /\ Lies(b, U, M, 32, L.mft, L.mftLen) /\ Lies(b, U, R, 8, L.mirr, L.mirrLen)
        /\ Lies(b, U, B, A - B, L.bitmap, L.bitmapLen) /\ Lies(b, U, G, 16 * U, L.log, 16)
        /\ Lies(b, U, A, 17 * U, L.attrdef, 17) /\ Lies(b, U, A, 1, L.attrdef, 1)
    BY <1>1, Zenon DEF InClusters
  <1>c. /\ Covers(b, U, b, 1, 0, 1)
        /\ Covers(b, U, M, 32, L.mft, L.mftLen) /\ Covers(b, U, R, 8, L.mirr, L.mirrLen)
        /\ Covers(b, U, B, A - B, L.bitmap, L.bitmapLen) /\ Covers(b, U, G, 16 * U, L.log, 16)
        /\ Covers(b, U, A, 17 * U, L.attrdef, 17) /\ Covers(b, U, A, 1, L.attrdef, 1)
    BY <1>3, ReachedRange, Zenon
  <1>p. /\ b \in Nat /\ K \in Nat /\ M \in Nat /\ R \in Nat /\ B \in Nat /\ A \in Nat /\ G \in Nat /\ U \in Nat
        /\ U >= 2 /\ b + 2 * U <= M /\ M + 32 <= R /\ R + 8 <= B /\ B < A /\ A + U = G /\ G + 16 * U <= K
    BY Zenon DEF Places
  <1>w. /\ writes[1].at = b /\ writes[1].len = 1 /\ writes[2].at = K /\ writes[2].len = 1
        /\ writes[3].at = M /\ writes[3].len = 32 /\ writes[4].at = R /\ writes[4].len = 8
        /\ writes[14].at = A /\ writes[14].len = 8 /\ writes[15].at = G /\ writes[15].len = 16 * U
        /\ writes[16].at = B /\ writes[16].len = A - B
    BY DEF WroteAt
  <1>x. \A j \in 5 .. 13 : writes[j].at = M + 2 * (j - 5) /\ writes[j].len = 2 BY DEF WroteAt
  <1>y. \A j \in 17 .. 20 : writes[j].at = R + 2 * (j - 17) /\ writes[j].len = 2 BY DEF WroteAt
  <1>4. ReachOf(b, U, 1) = {0}
    <2>1. Span(0, 1) = {0} BY DEF Span
    <2>2. Reached(b, U, b, 1) = Span(0, 1) BY <1>c, Zenon DEF Covers
    <2> QED BY <1>w, <2>1, <2>2, Zenon DEF ReachOf
  <1>5. ReachOf(b, U, 3) = Span(L.mft, L.mftLen)
    BY <1>c, <1>w, Zenon DEF ReachOf, Covers
  <1>6. ReachOf(b, U, 4) = Span(L.mirr, L.mirrLen)
    BY <1>c, <1>w, Zenon DEF ReachOf, Covers
  <1>7. ReachOf(b, U, 15) = Span(L.log, 16)
    BY <1>c, <1>w, Zenon DEF ReachOf, Covers
  <1>8. ReachOf(b, U, 16) = Span(L.bitmap, L.bitmapLen)
    BY <1>c, <1>w, Zenon DEF ReachOf, Covers
  <1>9. Reached(b, U, A, 17 * U) = Span(L.attrdef, 17)
    BY <1>c, Zenon DEF Covers
  <1>10. ReachOf(b, U, 14) \subseteq Span(L.attrdef, 17)
    <2>1. Reached(b, U, A, 8) \subseteq Reached(b, U, A, 17 * U)
      <3>1. Within(b, U, A, 8, A, 17 * U) BY <1>p DEF Within
      <3> QED BY <3>1, ReachedWithin, Zenon
    <2> QED BY <1>9, <1>w, <2>1, Zenon DEF ReachOf
  <1>11. L.attrdef \in ReachOf(b, U, 14)
    <2>1. Reached(b, U, A, 1) = Span(L.attrdef, 1) BY <1>c, Zenon DEF Covers
    <2>2. L.attrdef \in Nat BY <1>3, Zenon DEF Lies
    <2>3. L.attrdef \in Reached(b, U, A, 1) BY <2>1, <2>2 DEF Span
    <2>4. Reached(b, U, A, 1) \subseteq Reached(b, U, A, 8)
      <3>1. Within(b, U, A, 1, A, 8) BY <1>p DEF Within
      <3> QED BY <3>1, ReachedWithin, Zenon
    <2> QED BY <1>w, <2>3, <2>4, Zenon DEF ReachOf
  <1>12. ASSUME NEW j \in 5 .. 13 PROVE ReachOf(b, U, j) \subseteq Span(L.mft, L.mftLen)
    <2>1. PICK at \in Nat : at = M + 2 * (j - 5) /\ M <= at /\ at + 2 <= M + 32 BY <1>p
    <2>2. Reached(b, U, at, 2) \subseteq Reached(b, U, M, 32)
      <3>1. Within(b, U, at, 2, M, 32) BY <1>p, <2>1 DEF Within
      <3> QED BY <3>1, ReachedWithin, Zenon
    <2> QED BY <1>5, <1>w, <1>x, <2>1, <2>2, Zenon DEF ReachOf
  <1>13. ASSUME NEW j \in 17 .. 20 PROVE ReachOf(b, U, j) \subseteq Span(L.mirr, L.mirrLen)
    <2>1. PICK at \in Nat : at = R + 2 * (j - 17) /\ R <= at /\ at + 2 <= R + 8 BY <1>p
    <2>2. Reached(b, U, at, 2) \subseteq Reached(b, U, R, 8)
      <3>1. Within(b, U, at, 2, R, 8) BY <1>p, <2>1 DEF Within
      <3> QED BY <3>1, ReachedWithin, Zenon
    <2> QED BY <1>6, <1>w, <1>y, <2>1, <2>2, Zenon DEF ReachOf
  <1>14. ReachOf(b, U, 2) \cap (0 .. L.total - 1) \subseteq {L.total - 1}
    <2>1. PICK n \in Nat, k \in Nat : n = L.total - 1 /\ k = K - b /\ n * U <= k
      <3>1. L.total - 1 \in Nat /\ L.total \in Nat
        <4>1. L.total \in Nat /\ L.log + 16 < L.total BY DEF PlanFits
        <4>2. L.log \in Nat BY <1>3, Zenon DEF Lies
        <4> QED BY <4>1, <4>2
      <3>2. K - b \in Nat /\ K - b = (L.totsec - 1) * L.sector
        <4>1. K = b + (L.totsec - 1) * L.sector BY Zenon DEF PlacesOf
        <4>2. L.totsec \in Nat /\ L.sector \in {1, 2} BY DEF PlanFits
        <4>3. (L.totsec - 1) * L.sector \in Int BY <4>2
        <4> QED BY <1>p, <4>1, <4>3
      <3>3. (L.total - 1) * U <= (L.totsec - 1) * L.sector BY DEF PlanFits, PlacesOf
      <3> QED BY <3>1, <3>2, <3>3
    <2>2. n <= k \div U
      <3>1. U \in Nat \ {0} BY <1>p
      <3>2. n * U <= k BY <2>1, Zenon
      <3> QED BY <3>1, <3>2, DivLow, Zenon
    <2>3. k \div U \in Nat BY <1>p, DivBounds
    <2>4. ClusterNo(b, U, K) = k \div U BY <2>1 DEF ClusterNo
    <2>5. ReachOf(b, U, 2) = (k \div U) .. (k \div U)
      <3>1. K + 1 - 1 = K BY <1>p
      <3> QED BY <1>w, <2>4, <3>1, Zenon DEF ReachOf, Reached
    <2> QED BY <2>1, <2>2, <2>3, <2>5
  <1> QED BY <1>4, <1>5, <1>6, <1>7, <1>8, <1>10, <1>11, <1>12, <1>13, <1>14, Zenon DEF Reaches

\* what was planned lies in the volume
InVolume(L) ==
    /\ L.total \in Nat /\ L.mft \in Nat /\ L.mftLen \in Nat /\ L.mirr \in Nat /\ L.mirrLen \in Nat
    /\ L.bitmap \in Nat /\ L.bitmapLen \in Nat /\ L.attrdef \in Nat /\ L.log \in Nat
    /\ 2 <= L.mft /\ L.mft + L.mftLen <= L.mirr /\ L.mirr + L.mirrLen = L.bitmap
    /\ L.bitmap + L.bitmapLen = L.attrdef /\ L.attrdef + 1 = L.log /\ L.log + 16 < L.total

\* The plan's runs follow one another below the last cluster.
LEMMA PlanInVolume == ASSUME NEW L, NEW size, PlanFits(L, size) PROVE InVolume(L)
  BY DEF PlanFits, InVolume

\* $Bitmap marks every cluster that was written, and but for the second of $Boot and
\* the last no other.
LEMMA MarkedExact ==
    ASSUME NEW L, InVolume(L), Reaches(L, L.base, L.unit), DOMAIN writes = 1 .. 20
    PROVE  Touched(L) \subseteq Marked(L) /\ Marked(L) \subseteq Touched(L) \cup {1, L.total - 1}
  <1>1. PICK n \in Nat, f \in Nat, a \in Nat, r \in Nat, m \in Nat, b \in Nat, e \in Nat, d \in Nat, g \in Nat :
          /\ n = L.total /\ f = L.mft /\ a = L.mftLen /\ r = L.mirr /\ m = L.mirrLen
          /\ b = L.bitmap /\ e = L.bitmapLen /\ d = L.attrdef /\ g = L.log
    BY DEF InVolume
  <1>2. 2 <= f /\ f + a <= r /\ r + m = b /\ b + e = d /\ d + 1 = g /\ g + 16 < n BY <1>1 DEF InVolume
  <1>3. Marked(L) = Span(0, 2) \cup Span(f, a) \cup Span(r, m) \cup Span(b, e) \cup Span(d, 1) \cup {n - 1} \cup Span(g, 16)
    BY <1>1, Zenon DEF Marked, MarkedNoLog, BootClusters, AttrDefClusters, LogClusters
  <1>4. PICK Q : Q = [i \in 1 .. 20 |-> ReachOf(L.base, L.unit, i)] OBVIOUS
  <1>5. /\ Q[1] = {0} /\ Q[2] \cap (0 .. n - 1) \subseteq {n - 1}
        /\ Q[3] = Span(f, a) /\ Q[4] = Span(r, m)
        /\ Q[14] \subseteq Span(d, 17) /\ d \in Q[14] /\ Q[15] = Span(g, 16) /\ Q[16] = Span(b, e)
    <2>1. \A i \in 1 .. 20 : Q[i] = ReachOf(L.base, L.unit, i) BY <1>4
    <2>2. /\ Q[1] = ReachOf(L.base, L.unit, 1) /\ Q[2] = ReachOf(L.base, L.unit, 2) /\ Q[3] = ReachOf(L.base, L.unit, 3)
          /\ Q[4] = ReachOf(L.base, L.unit, 4) /\ Q[14] = ReachOf(L.base, L.unit, 14)
          /\ Q[15] = ReachOf(L.base, L.unit, 15) /\ Q[16] = ReachOf(L.base, L.unit, 16)
      BY <2>1
    <2> QED BY <1>1, <2>2, Zenon DEF Reaches
  <1>6. (\A j \in 5 .. 13 : Q[j] \subseteq Span(f, a)) /\ (\A j \in 17 .. 20 : Q[j] \subseteq Span(r, m))
    <2>1. \A i \in 1 .. 20 : Q[i] = ReachOf(L.base, L.unit, i) BY <1>4
    <2>2. (\A j \in 5 .. 13 : j \in 1 .. 20) /\ (\A j \in 17 .. 20 : j \in 1 .. 20) OBVIOUS
    <2> QED BY <1>1, <2>1, <2>2, Zenon DEF Reaches
  <1>7. \A c : c \in Touched(L) <=> c \in 0 .. n - 1 /\ \E i \in 1 .. 20 : c \in Q[i]
    <2>1. \A i \in 1 .. 20 : Q[i] = Reach(L, i)
      <3> TAKE i \in 1 .. 20
      <3>1. ClusterOf(L, writes[i].at) = ClusterNo(L.base, L.unit, writes[i].at) BY DEF ClusterOf, ClusterNo
      <3>2. ClusterOf(L, writes[i].at + writes[i].len - 1) = ClusterNo(L.base, L.unit, writes[i].at + writes[i].len - 1)
        BY DEF ClusterOf, ClusterNo
      <3>3. Reach(L, i) = ReachOf(L.base, L.unit, i) BY <3>1, <3>2, Zenon DEF Reach, ReachOf, Reached
      <3> QED BY <1>4, <3>3
    <2>2. DOMAIN writes = 1 .. 20 BY <1>1
    <2>3. \A c : c \in UNION {Reach(L, i) : i \in 1 .. 20} <=> \E i \in 1 .. 20 : c \in Q[i] BY <2>1
    <2>4. PICK D : D = UNION {Reach(L, i) : i \in 1 .. 20} OBVIOUS
    <2>5. Touched(L) = D \cap (0 .. n - 1) BY <1>1, <2>2, <2>4, Zenon DEF Touched
    <2>6. \A c : c \in D <=> \E i \in 1 .. 20 : c \in Q[i] BY <2>3, <2>4, Zenon
    <2>7. \A c : c \in Touched(L) <=> c \in D /\ c \in 0 .. n - 1 BY <2>5
    <2> QED BY <2>6, <2>7
  <1>8. ASSUME NEW c \in Touched(L) PROVE c \in Marked(L)
    <2>1. PICK i \in 1 .. 20 : c \in Q[i] /\ c \in 0 .. n - 1 BY <1>7
    <2>2. CASE i \in 1 .. 4
      <3>1. i = 1 \/ i = 2 \/ i = 3 \/ i = 4 BY <2>2
      <3>2. c = 0 \/ c = n - 1 \/ c \in Span(f, a) \/ c \in Span(r, m) BY <1>5, <2>1, <3>1
      <3>3. 0 \in Span(0, 2) BY DEF Span
      <3> QED BY <1>3, <3>2, <3>3, Zenon
    <2>3. CASE i \in 5 .. 13 BY <1>3, <1>6, <2>1, <2>3, Zenon
    <2>4. CASE i \in 17 .. 20 BY <1>3, <1>6, <2>1, <2>4, Zenon
    <2>5. CASE i \in 14 .. 16
      <3>1. i = 14 \/ i = 15 \/ i = 16 BY <2>5
      <3>2. c \in Span(d, 17) \/ c \in Span(g, 16) \/ c \in Span(b, e) BY <1>5, <2>1, <3>1
      <3>3. c \in Span(d, 17) => c \in Span(d, 1) \/ c \in Span(g, 16) BY <1>2 DEF Span
      <3> QED BY <1>3, <3>2, <3>3, Zenon
    <2> QED BY <2>2, <2>3, <2>4, <2>5
  <1>9. ASSUME NEW c \in Marked(L) PROVE c \in Touched(L) \cup {1, L.total - 1}
    <2>1. \/ c \in Span(0, 2) \/ c \in Span(f, a) \/ c \in Span(r, m) \/ c \in Span(b, e)
          \/ c \in Span(d, 1) \/ c = n - 1 \/ c \in Span(g, 16)
      BY <1>3
    <2>2. CASE c \in Span(0, 2)
      <3>1. c = 0 \/ c = 1 BY <2>2 DEF Span
      <3>2. 0 \in Touched(L) BY <1>2, <1>5, <1>7
      <3> QED BY <3>1, <3>2
    <2>3. CASE c \in Span(f, a)
      <3>1. c \in 0 .. n - 1 BY <1>2, <2>3 DEF Span
      <3> QED BY <1>5, <1>7, <2>3, <3>1
    <2>4. CASE c \in Span(r, m)
      <3>1. c \in 0 .. n - 1 BY <1>2, <2>4 DEF Span
      <3> QED BY <1>5, <1>7, <2>4, <3>1
    <2>5. CASE c \in Span(b, e)
      <3>1. c \in 0 .. n - 1 BY <1>2, <2>5 DEF Span
      <3> QED BY <1>5, <1>7, <2>5, <3>1
    <2>6. CASE c \in Span(d, 1)
      <3>1. c = d /\ c \in 0 .. n - 1 BY <1>2, <2>6 DEF Span
      <3> QED BY <1>5, <1>7, <3>1
    <2>7. CASE c \in Span(g, 16)
      <3>1. c \in 0 .. n - 1 BY <1>2, <2>7 DEF Span
      <3> QED BY <1>5, <1>7, <2>7, <3>1
    <2>8. CASE c = n - 1 BY <1>1, <2>8
    <2> QED BY <2>1, <2>2, <2>3, <2>4, <2>5, <2>6, <2>7, <2>8
  <1> QED BY <1>8, <1>9

\* No cluster belongs to two files.
LEMMA RunsApart ==
    ASSUME NEW L, InVolume(L)
    PROVE  \A r, s \in 0 .. 8 :
             r # s => LET a == Seeds(L)[r].run
                          b == Seeds(L)[s].run
                      IN  Span(a.first, a.len) \cap Span(b.first, b.len) = {}
  <1> DEFINE Run(r) == Span(Seeds(L)[r].run.first, Seeds(L)[r].run.len)
  <1>a. Run(0) = Span(L.mft, L.mftLen) BY DEF Seeds, Clusters
  <1>b. Run(1) = Span(L.mirr, L.mirrLen) BY DEF Seeds, Clusters
  <1>c. Run(2) = Span(L.log, 16) BY DEF Seeds, Clusters, LogClusters
  <1>d. Run(3) = {} BY DEF Seeds, Clusters, NoRun, Span
  <1>e. Run(4) = Span(L.attrdef, 1) BY DEF Seeds, Clusters, AttrDefClusters
  <1>f. Run(5) = {} BY DEF Seeds, Clusters, NoRun, Span
  <1>g. Run(6) = Span(L.bitmap, L.bitmapLen) BY DEF Seeds, Clusters
  <1>h. Run(7) = Span(0, 2) BY DEF Seeds, Clusters, BootClusters
  <1>i. Run(8) = {} BY DEF Seeds, Clusters, NoRun, Span
  <1> HIDE DEF Run
  <1>1. PICK n \in Nat, f \in Nat, a \in Nat, r \in Nat, m \in Nat, b \in Nat, e \in Nat, d \in Nat, g \in Nat :
          /\ n = L.total /\ f = L.mft /\ a = L.mftLen /\ r = L.mirr /\ m = L.mirrLen
          /\ b = L.bitmap /\ e = L.bitmapLen /\ d = L.attrdef /\ g = L.log
    BY DEF InVolume
  <1>2. 2 <= f /\ f + a <= r /\ r + m = b /\ b + e = d /\ d + 1 = g /\ g + 16 < n BY <1>1 DEF InVolume
  <1>3. /\ \A c \in Run(7) : c \in Int /\ c < 2
        /\ \A c \in Run(0) : c \in Int /\ 2 <= c /\ c < r
        /\ \A c \in Run(1) : c \in Int /\ r <= c /\ c < b
        /\ \A c \in Run(6) : c \in Int /\ b <= c /\ c < d
        /\ \A c \in Run(4) : c \in Int /\ c = d
        /\ \A c \in Run(2) : c \in Int /\ d < c
    <2>1. \A c \in Run(7) : c \in Int /\ c < 2 BY <1>h DEF Span
    <2>2. \A c \in Run(0) : c \in Int /\ 2 <= c /\ c < r
      <3>1. Run(0) = Span(f, a) BY <1>a, <1>1, Zenon
      <3>2. \A c \in Span(f, a) : c \in Int /\ f <= c /\ c < f + a BY DEF Span
      <3> QED BY <1>2, <3>1, <3>2
    <2>3. \A c \in Run(1) : c \in Int /\ r <= c /\ c < b
      <3>1. Run(1) = Span(r, m) BY <1>b, <1>1, Zenon
      <3>2. \A c \in Span(r, m) : c \in Int /\ r <= c /\ c < r + m BY DEF Span
      <3> QED BY <1>2, <3>1, <3>2
    <2>4. \A c \in Run(6) : c \in Int /\ b <= c /\ c < d
      <3>1. Run(6) = Span(b, e) BY <1>g, <1>1, Zenon
      <3>2. \A c \in Span(b, e) : c \in Int /\ b <= c /\ c < b + e BY DEF Span
      <3> QED BY <1>2, <3>1, <3>2
    <2>5. \A c \in Run(4) : c \in Int /\ c = d
      <3>1. Run(4) = Span(d, 1) BY <1>e, <1>1, Zenon
      <3>2. \A c \in Span(d, 1) : c \in Int /\ d <= c /\ c < d + 1 BY DEF Span
      <3> QED BY <1>2, <3>1, <3>2
    <2>6. \A c \in Run(2) : c \in Int /\ d < c
      <3>1. Run(2) = Span(g, 16) BY <1>c, <1>1, Zenon
      <3>2. \A c \in Span(g, 16) : c \in Int /\ g <= c /\ c < g + 16 BY DEF Span
      <3> QED BY <1>2, <3>1, <3>2
    <2> QED BY <2>1, <2>2, <2>3, <2>4, <2>5, <2>6
  <1>4. ASSUME NEW x \in 0 .. 8, NEW y \in 0 .. 8, x # y, NEW c \in Run(x), c \in Run(y) PROVE FALSE
    <2>1. x \notin {3, 5, 8} /\ y \notin {3, 5, 8} BY <1>4, <1>d, <1>f, <1>i
    <2>2. r <= b /\ b <= d /\ 2 <= r BY <1>2
    <2>3. x \in {0, 1, 2, 4, 6, 7} /\ y \in {0, 1, 2, 4, 6, 7} BY <2>1
    <2>4. CASE x = 0 BY <1>3, <1>4, <2>2, <2>3, <2>4
    <2>5. CASE x = 1 BY <1>3, <1>4, <2>2, <2>3, <2>5
    <2>6. CASE x = 2 BY <1>3, <1>4, <2>2, <2>3, <2>6
    <2>7. CASE x = 4 BY <1>3, <1>4, <2>2, <2>3, <2>7
    <2>8. CASE x = 6 BY <1>3, <1>4, <2>2, <2>3, <2>8
    <2>9. CASE x = 7 BY <1>3, <1>4, <2>2, <2>3, <2>9
    <2> QED BY <2>3, <2>4, <2>5, <2>6, <2>7, <2>8, <2>9
  <1>5. \A x, y \in 0 .. 8 : x # y => Run(x) \cap Run(y) = {} BY <1>4
  <1> QED BY <1>5, Zenon DEF Run

\* Nothing is written outside the volume.
LEMMA WritesInside ==
    ASSUME NEW b, NEW K, NEW M, NEW R, NEW B, NEW A, NEW G, NEW U, NEW size \in Nat,
           Places(b, K, M, R, B, A, G, U), WroteAt(b, K, M, R, B, A, G, U), K < b + size
    PROVE  \A i \in 1 .. 20 : writes[i].at >= b /\ writes[i].at + writes[i].len <= b + size
  <1>p. /\ b \in Nat /\ K \in Nat /\ M \in Nat /\ R \in Nat /\ B \in Nat /\ A \in Nat /\ G \in Nat /\ U \in Nat
        /\ U >= 2 /\ b + 2 * U <= M /\ M + 32 <= R /\ R + 8 <= B /\ B < A /\ A + U = G /\ G + 16 * U <= K
    BY Zenon DEF Places
  <1> TAKE i \in 1 .. 20
  <1>1. /\ writes[i].at = IF i = 1 THEN b ELSE IF i = 2 THEN K ELSE IF i = 3 THEN M ELSE IF i = 4 THEN R
                        ELSE IF i <= 13 THEN M + 2 * (i - 5) ELSE IF i = 14 THEN A ELSE IF i = 15 THEN G
                        ELSE IF i = 16 THEN B ELSE R + 2 * (i - 17)
        /\ writes[i].len = IF i <= 2 THEN 1 ELSE IF i = 3 THEN 32 ELSE IF i = 4 THEN 8
                         ELSE IF i <= 13 THEN 2 ELSE IF i = 14 THEN 8 ELSE IF i = 15 THEN 16 * U
                         ELSE IF i = 16 THEN A - B ELSE 2
    BY DEF WroteAt
  <1> QED BY <1>1, <1>p

------------------------------------------------------------------------------
(* Formats that are through                                                  *)

\* what the option parsers and the device table let through: numbers, and the four
\* sector sizes that mkfs.ntfs knows
OptionsGiven ==
    /\ \A v \in Volumes : v.base \in Nat /\ v.size \in Nat /\ v.host \in Nat
    /\ \A o \in FatOptions : o.spc \in Nat /\ o.at \in Nat
    /\ \A o \in NtfsOptions :
         /\ o.bps \in {512, 1024, 2048, 4096} /\ o.spc \in Nat \ {0}
         /\ o.mft \in Nat /\ o.mirr \in Nat /\ o.at \in Nat

\* a format that has run its program to the end
Through(S) ==
    /\ \E W : writes \in Seq(W)
    /\ \A i \in 1 .. Len(writes) : Follows(S, writes, i)
    /\ Len(writes) < Len(S)
    /\ S[Len(writes) + 1].do = "stop" /\ S[Len(writes) + 1].tag = 0

\* A program that only refuses does not end with success.
LEMMA RefusalFails ==
    ASSUME NEW rc, rc = 2 \/ rc = 3, Through(<<EndWith(rc)>>)
    PROVE  FALSE
  <1>1. PICK e : e = EndWith(rc) OBVIOUS
  <1>2. e.tag = rc BY <1>1 DEF EndWith
  <1>3. PICK Q : Q = <<e>> OBVIOUS
  <1>4. Len(Q) = 1 /\ Q[1] = e BY <1>3
  <1>5. Through(Q) BY <1>1, <1>3, Zenon
  <1>6. Len(writes) \in Nat
    <2>1. PICK W : writes \in Seq(W) BY <1>5 DEF Through
    <2> QED BY <2>1
  <1>7. Len(writes) < 1 /\ Q[Len(writes) + 1].tag = 0 BY <1>4, <1>5, Zenon DEF Through
  <1>8. Len(writes) + 1 = 1 BY <1>6, <1>7
  <1> QED BY <1>2, <1>4, <1>7, <1>8

\* a FAT format of the kind FormatSound is about
FatGiven(v, o) ==
    v.size \in Nat /\ v.base \in Nat /\ o.spc \in Nat /\ o.at = 0

\* A FAT has 12, 16 or 32 bits.
LEMMA TypeIs == ASSUME NEW v, NEW o, v.size \in Nat PROVE FatType(v, o) \in {12, 16, 32}
  BY SMT DEF FatType

\* A FAT format that is through has left the file system it planned.
LEMMA FatThrough ==
    ASSUME NEW v, NEW o, FatGiven(v, o),
           Through(IF OffsetFits(v, o) THEN FatSteps(v, o) ELSE <<EndWith(2)>>)
    PROVE  FatSound(v, o)
  <1>1. PICK F : F = FatType(v, o) OBVIOUS
  <1>a. PICK size \in Nat, lba \in Nat : size = v.size /\ lba = v.base BY DEF FatGiven
  <1>2. F \in {12, 16, 32} BY <1>1, <1>a, TypeIs
  <1>3. PICK spc \in Nat \ {0} : spc = Spc(v, o)
    <2>1. o.spc \in Nat BY DEF FatGiven
    <2> QED BY <2>1 DEF Spc
  <1>4. PICK fatsz : fatsz = FatSize(F, spc, size) OBVIOUS
  <1>5. PICK S : S = FatWrites(F, lba, fatsz) \o <<EndWith(0)>> BY Zenon
  <1>6. FatList(F, lba, fatsz, S) /\ \E T : S \in Seq(T) BY <1>5, FatProgram, Zenon
  <1>b. VolumeStart(v, o) = lba BY <1>a DEF VolumeStart, FatGiven
  <1>7. FatSteps(v, o) = IF v.size < 100 THEN <<EndWith(3)>> ELSE S
    BY <1>1, <1>3, <1>4, <1>5, <1>a, <1>b, Zenon DEF FatSteps
  <1>8. ~(v.size < 100) /\ Through(S)
    <2>1. ~Through(<<EndWith(2)>>) /\ ~Through(<<EndWith(3)>>) BY RefusalFails
    <2>2. CASE OffsetFits(v, o) /\ v.size < 100 BY <1>7, <2>1, <2>2, Zenon
    <2>3. CASE OffsetFits(v, o) /\ ~(v.size < 100) BY <1>7, <2>1, <2>3, Zenon
    <2>4. CASE ~OffsetFits(v, o) BY <2>1, <2>4, Zenon
    <2> QED BY <2>2, <2>3, <2>4, Zenon
  <1>9. size >= 100 BY <1>8, <1>a
  <1>c. /\ \E W : writes \in Seq(W)
        /\ \A i \in 1 .. Len(writes) : Follows(S, writes, i)
        /\ Len(writes) < Len(S) /\ S[Len(writes) + 1].do = "stop"
    BY <1>8, Zenon DEF Through
  <1>10. FatWrote(F, lba, fatsz) BY <1>6, <1>c, FatWroteAll, Zenon
  <1>11. PICK data : data = Rsvd(F) + 2 * fatsz + RootSecs(F) OBVIOUS
  <1>12. FatInFigures(F, spc, size, fatsz, data)
    <2>1. FatPlan(F, spc, size, fatsz, data) BY <1>2, <1>3, <1>4, <1>9, <1>11, SMT DEF FatPlan
    <2> QED BY <2>1, FatFigures, Zenon
  <1>13. PICK W : writes \in Seq(W) BY <1>c
  <1>e. fatsz \in Nat \ {0} BY <1>12, Zenon DEF FatInFigures
  <1>f. Rsvd(F) = (IF F = 32 THEN 32 ELSE 1) /\ RootSecs(F) = (IF F = 32 THEN 0 ELSE 32)
    BY <1>12, Zenon DEF FatInFigures
  <1>14. LET fat1 == lba + Rsvd(F)
         IN  /\ Owner(lba) = "boot"
             /\ Owner(fat1) = "head" /\ Holds(fat1 + 1, fatsz - 1, {"fat"})
             /\ Owner(fat1 + fatsz) = "head" /\ Holds(fat1 + fatsz + 1, fatsz - 1, {"fat"})
             /\ Holds(fat1 + 2 * fatsz, RootSecs(F), {"root"})
    BY <1>2, <1>e, <1>f, <1>10, <1>13, FatOwners, Zenon
  <1>15. /\ data < size
         /\ LengthKept(F, spc, size) => 512 * fatsz >= FatBytes(F, (size - data) \div spc)
    BY <1>12, Zenon DEF FatInFigures
  <1>16. \A i \in DOMAIN writes : writes[i].at >= lba /\ writes[i].at + writes[i].len <= lba + data
    BY <1>2, <1>10, <1>11, <1>13, <1>e, <1>f, FatInside
  <1>17. v.base = lba /\ v.size = size /\ FatType(v, o) = F /\ Spc(v, o) = spc /\ FatSize(F, spc, size) = fatsz
    BY <1>1, <1>3, <1>4, <1>a, Zenon
  <1> QED BY <1>11, <1>14, <1>15, <1>16, <1>17 DEF FatSound

\* A format whose layout does not fit has written boot sectors and fails.
LEMMA BootOnlyFails ==
    ASSUME NEW L, Through(BootWrites(L) \o <<EndWith(3)>>)
    PROVE  FALSE
  <1>a. PICK a : a = Write(L.base, 1, "boot") OBVIOUS
  <1>b. PICK b : b = Write(L.base + (L.totsec - 1) * L.sector, 1, "boot") OBVIOUS
  <1>e. PICK e : e = EndWith(3) OBVIOUS
  <1>1. BootWrites(L) = <<a, b>> /\ a.do = "write" /\ b.do = "write" BY <1>a, <1>b DEF BootWrites, Write
  <1>2. e.tag = 3 BY <1>e DEF EndWith
  <1>3. PICK Q : Q = <<a, b>> \o <<e>> OBVIOUS
  <1>4. Len(Q) = 3 /\ Q[1] = a /\ Q[2] = b /\ Q[3] = e BY <1>3
  <1>5. Through(Q) BY <1>1, <1>3, <1>e, Zenon
  <1>6. PICK n \in Nat : n = Len(writes)
    <2>1. PICK W : writes \in Seq(W) BY <1>5 DEF Through
    <2> QED BY <2>1
  <1>7. n < 3 /\ Q[n + 1].do = "stop" /\ Q[n + 1].tag = 0 BY <1>4, <1>5, <1>6, Zenon DEF Through
  <1>8. n + 1 = 1 \/ n + 1 = 2 \/ n + 1 = 3 BY <1>6, <1>7
  <1> QED BY <1>1, <1>2, <1>4, <1>7, <1>8

\* An NTFS format that is through has made all its writes, and every record was built,
\* so sectors are of 512 or 1024 bytes.
LEMMA NtfsWroteAll ==
    ASSUME NEW L, NEW S, NtfsList(L, S), Through(S)
    PROVE  NtfsWrote(L, S) /\ L.sector \in {1, 2}
  <1>1. PICK n \in Nat : n = Len(writes)
    <2>1. PICK W : writes \in Seq(W) BY DEF Through
    <2> QED BY <2>1
  <1>2. /\ Len(S) = 21 /\ S[21].tag = 0
        /\ \A i \in 1 .. 20 : S[i].do = "stop" => S[i].tag = 4
    BY NtfsStops, Zenon
  <1>3. n < 21 /\ S[n + 1].do = "stop" /\ S[n + 1].tag = 0 BY <1>1, <1>2, Zenon DEF Through
  <1>4. n = 20
    <2>1. CASE n + 1 \in 1 .. 20
      <3>1. S[n + 1].tag = 4 BY <1>2, <1>3, <2>1, Zenon
      <3> QED BY <1>3, <3>1
    <2>2. CASE n + 1 \notin 1 .. 20 BY <1>3, <2>2
    <2> QED BY <2>1, <2>2
  <1>5. \A j \in 1 .. 20 : Follows(S, writes, j) BY <1>1, <1>4, Zenon DEF Through
  <1>6. RecordBuilds(L, 0)
    <2>1. 0 \in 0 .. 8 /\ 5 + 0 \in 1 .. 20 OBVIOUS
    <2>2. Follows(S, writes, 5 + 0) BY <1>5, <2>1, Zenon
    <2>3. S[5 + 0].do # "stop" BY <2>2, Zenon DEF Follows
    <2> QED BY <2>1, <2>3, Zenon DEF NtfsList, Stops
  <1>7. L.sector \in {1, 2} BY <1>6, Zenon DEF RecordBuilds
  <1>8. \E W : writes \in Seq(W) BY Zenon DEF Through
  <1> QED BY <1>1, <1>4, <1>5, <1>7, <1>8, Zenon DEF NtfsWrote

\* an NTFS format of the kind FormatSound is about
NtfsAsked(v, o) ==
    /\ v.size \in Nat /\ v.base \in Nat /\ o.at = 0
    /\ o.bps \in {512, 1024, 2048, 4096} /\ o.spc \in Nat \ {0} /\ o.mft \in Nat /\ o.mirr \in Nat
    /\ o.bps * o.spc >= 1024 /\ o.mft >= 2 /\ (v.base = 0 \/ o.bps = 512)

\* An NTFS format that is through has left the file system it planned, and nothing
\* outside the volume.
LEMMA NtfsThrough ==
    ASSUME NEW v, NEW o, NtfsAsked(v, o),
           Through(IF OffsetFits(v, o) /\ o.mft # o.mirr THEN NtfsSteps(v, o, Plan(v, o)) ELSE <<EndWith(2)>>)
    PROVE  /\ NtfsSound(Plan(v, o))
           /\ \A i \in DOMAIN writes :
                writes[i].at >= v.base /\ writes[i].at + writes[i].len <= v.base + v.size
  <1>1. PICK L : L = Plan(v, o) OBVIOUS
  <1>2. PICK S : S = BootWrites(L) \o NtfsMetadata(L) OBVIOUS
  <1>3. NtfsList(L, S) BY <1>2, NtfsProgram, Zenon
  <1>4. Through(S) /\ LayoutFits(L)
    <2>1. ~Through(<<EndWith(2)>>) /\ ~Through(<<EndWith(3)>>) BY RefusalFails
    <2>2. ~Through(BootWrites(L) \o <<EndWith(3)>>) BY BootOnlyFails, Zenon
    <2>3. Through(NtfsSteps(v, o, L)) BY <1>1, <2>1, Zenon
    <2>4. \/ NtfsSteps(v, o, L) = <<EndWith(3)>>
          \/ NtfsSteps(v, o, L) = S /\ LayoutFits(L)
          \/ NtfsSteps(v, o, L) = BootWrites(L) \o <<EndWith(3)>>
      BY <1>2, Zenon DEF NtfsSteps
    <2> QED BY <2>1, <2>2, <2>3, <2>4, Zenon
  <1>5. NtfsWrote(L, S) /\ L.sector \in {1, 2} BY <1>3, <1>4, NtfsWroteAll, Zenon
  <1>6. NtfsGiven(v, o, L) BY <1>1, <1>4, <1>5, SMT DEF NtfsGiven, NtfsAsked
  <1>7. PlanFits(L, v.size) /\ L.base = v.base BY <1>6, PlanInFigures, Zenon
  <1>8. Owners(L) BY <1>5, <1>7, NtfsOwners, Zenon
  <1>9. PICK b, K, M, R, B, A, G, U : PlacesOf(L, b, K, M, R, B, A, G, U) /\ Places(b, K, M, R, B, A, G, U)
    BY <1>7, PlacesFit, Zenon
  <1>10. NtfsList(L, S) /\ (\A j \in 1 .. 20 : Follows(S, writes, j)) BY <1>5, Zenon DEF NtfsWrote
  <1>11. WroteAt(b, K, M, R, B, A, G, U) BY <1>9, <1>10, NtfsWroteAt, Zenon
  <1>12. Reaches(L, b, U) BY <1>7, <1>9, <1>11, WritesReach, Zenon
  <1>13. b = L.base /\ U = L.unit BY <1>9, Zenon DEF PlacesOf
  <1>14. InVolume(L) BY <1>7, PlanInVolume, Zenon
  <1>15. DOMAIN writes = 1 .. 20
    <2>1. PICK W : writes \in Seq(W) BY <1>5, Zenon DEF NtfsWrote
    <2>2. Len(writes) = 20 BY <1>5, Zenon DEF NtfsWrote
    <2>3. DOMAIN writes = 1 .. Len(writes) BY <2>1
    <2> QED BY <2>2, <2>3, Zenon
  <1>r. Reaches(L, L.base, L.unit) BY <1>12, <1>13, Zenon
  <1>16. Touched(L) \subseteq Marked(L) /\ Marked(L) \subseteq Touched(L) \cup {1, L.total - 1}
    BY <1>r, <1>14, <1>15, MarkedExact, Zenon
  <1>17. \A r, s \in 0 .. 8 :
             r # s => LET a == Seeds(L)[r].run
                          c == Seeds(L)[s].run
                      IN  Span(a.first, a.len) \cap Span(c.first, c.len) = {}
    BY <1>14, RunsApart, Zenon
  <1>18. K < b + v.size /\ v.size \in Nat
    <2>1. v.size \in Nat BY Zenon DEF NtfsAsked
    <2>2. (L.totsec - 1) * L.sector < v.size BY <1>7, Zenon DEF PlanFits
    <2>3. K = b + (L.totsec - 1) * L.sector BY <1>9, Zenon DEF PlacesOf
    <2>4. L.totsec \in Nat /\ L.sector \in Nat BY <1>7 DEF PlanFits
    <2>5. (L.totsec - 1) * L.sector \in Int BY <2>4
    <2>6. b \in Nat BY <1>9, Zenon DEF Places
    <2> QED BY <2>1, <2>2, <2>3, <2>5, <2>6
  <1>19. \A i \in 1 .. 20 : writes[i].at >= b /\ writes[i].at + writes[i].len <= b + v.size
    BY <1>9, <1>11, <1>18, WritesInside, Zenon
  <1>20. NtfsSound(L) BY <1>8, <1>16, <1>17, Zenon DEF NtfsSound, Owners
  <1> QED BY <1>1, <1>7, <1>13, <1>15, <1>19, <1>20, Zenon

\* a format that has ended with a refusal after k steps of its program
RefusedAt(S, k, rc) ==
    /\ k \in Nat /\ k < Len(S) /\ S[k + 1].do = "stop" /\ S[k + 1].tag = rc
    /\ \A i \in 1 .. Len(writes) : \E j \in 1 .. k : Asked(S[j], writes[i])

\* A program that only refuses has written nothing.
LEMMA RefusedEmpty ==
    ASSUME NEW W, writes \in Seq(W), NEW c, NEW k, NEW rc, RefusedAt(<<EndWith(c)>>, k, rc)
    PROVE  writes = << >>
  <1>1. Len(<<EndWith(c)>>) = 1 OBVIOUS
  <1>2. k = 0 BY <1>1 DEF RefusedAt
  <1>3. Len(writes) \in Nat /\ \A i \in 1 .. Len(writes) : FALSE BY <1>2 DEF RefusedAt
  <1>4. Len(writes) = 0
    <2>1. CASE Len(writes) >= 1
      <3>1. 1 \in 1 .. Len(writes) BY <1>3, <2>1
      <3> QED BY <1>3, <3>1
    <2> QED BY <1>3, <2>1
  <1> QED BY <1>4

\* A FAT format that refuses has written nothing.
LEMMA FatRefused ==
    ASSUME NEW W, writes \in Seq(W), NEW v, NEW o, NEW k, NEW rc \in {2, 3},
           RefusedAt(IF OffsetFits(v, o) THEN FatSteps(v, o) ELSE <<EndWith(2)>>, k, rc)
    PROVE  writes = << >>
  <1>1. PICK F, lba, fatsz : /\ F = FatType(v, o) /\ lba = VolumeStart(v, o)
                             /\ fatsz = FatSize(FatType(v, o), Spc(v, o), v.size)
    OBVIOUS
  <1>2. PICK S : S = FatWrites(F, lba, fatsz) \o <<EndWith(0)>> BY Zenon
  <1>3. FatList(F, lba, fatsz, S) /\ \E T : S \in Seq(T) BY <1>2, FatProgram, Zenon
  <1>4. FatSteps(v, o) = IF v.size < 100 THEN <<EndWith(3)>> ELSE S BY <1>1, <1>2, Zenon DEF FatSteps
  <1>5. ~RefusedAt(S, k, rc)
    <2>1. SUFFICES ASSUME RefusedAt(S, k, rc) PROVE FALSE OBVIOUS
    <2>2. PICK T : S \in Seq(T) BY <1>3
    <2>3. k + 1 \in 1 .. Len(S) BY <2>1, <2>2 DEF RefusedAt
    <2>4. S[Len(S)].tag = 0 /\ \A i \in 1 .. Len(S) : S[i].do = "stop" => i = Len(S) BY <1>3, FatOK, Zenon
    <2>5. S[k + 1].tag = 0 BY <2>1, <2>3, <2>4, Zenon DEF RefusedAt
    <2> QED BY <2>1, <2>5 DEF RefusedAt
  <1> QED BY <1>4, <1>5, RefusedEmpty, Zenon

\* An NTFS format that refuses has written boot sectors, or nothing.
LEMMA NtfsRefused ==
    ASSUME NEW W, writes \in Seq(W), NEW v, NEW o, NEW k, NEW rc \in {2, 3},
           RefusedAt(IF OffsetFits(v, o) /\ o.mft # o.mirr THEN NtfsSteps(v, o, Plan(v, o)) ELSE <<EndWith(2)>>, k, rc)
    PROVE  RefusedClean(Plan(v, o))
  <1>1. PICK L : L = Plan(v, o) OBVIOUS
  <1>2. PICK S : S = BootWrites(L) \o NtfsMetadata(L) OBVIOUS
  <1>3. NtfsList(L, S) /\ \E T : S \in Seq(T) BY <1>2, NtfsProgram, Zenon
  <1>4. CASE writes = << >> BY <1>4 DEF RefusedClean
  <1>5. ~RefusedAt(S, k, rc)
    <2>1. SUFFICES ASSUME RefusedAt(S, k, rc) PROVE FALSE OBVIOUS
    <2>2. PICK T : S \in Seq(T) BY <1>3
    <2>3. Len(S) = 21 /\ S[21].tag = 0 /\ \A i \in 1 .. 20 : S[i].do = "stop" => S[i].tag = 4
      BY <1>3, NtfsStops, Zenon
    <2>4. k + 1 \in 1 .. 20 \/ k + 1 = 21
      <3>1. k \in Nat /\ k < 21 BY <2>1, <2>3, Zenon DEF RefusedAt
      <3> QED BY <3>1
    <2>5. S[k + 1].tag = 4 \/ S[k + 1].tag = 0 BY <2>1, <2>3, <2>4, Zenon DEF RefusedAt
    <2> QED BY <2>1, <2>5 DEF RefusedAt
  <1>6. CASE RefusedAt(BootWrites(L) \o <<EndWith(3)>>, k, rc)
    <2>a. PICK a : a = Write(L.base, 1, "boot") OBVIOUS
    <2>b. PICK b : b = Write(L.base + (L.totsec - 1) * L.sector, 1, "boot") OBVIOUS
    <2>e. PICK e : e = EndWith(3) OBVIOUS
    <2>1. a.do = "write" /\ a.at = L.base /\ a.len = 1 /\ a.tag = "boot" BY <2>a DEF Write
    <2>2. b.do = "write" /\ b.at = L.base + (L.totsec - 1) * L.sector /\ b.len = 1 /\ b.tag = "boot"
      BY <2>b, Zenon DEF Write
    <2>3. PICK Q : Q = <<a, b>> \o <<e>> OBVIOUS
    <2>4. Len(Q) = 3 /\ Q[1] = a /\ Q[2] = b BY <2>3
    <2>5. BootWrites(L) = <<a, b>> BY <2>a, <2>b, Zenon DEF BootWrites
    <2>6. RefusedAt(Q, k, rc) BY <1>6, <2>3, <2>5, <2>e, Zenon
    <2>7. ASSUME NEW i \in DOMAIN writes
          PROVE  /\ writes[i].tag = "boot" /\ writes[i].len = 1
                 /\ writes[i].at \in {L.base, L.base + (L.totsec - 1) * L.sector}
      <3>1. i \in 1 .. Len(writes) BY <2>7
      <3>2. PICK j \in 1 .. k : Asked(Q[j], writes[i]) BY <2>6, <3>1 DEF RefusedAt
      <3>3. k \in Nat /\ k < 3 BY <2>4, <2>6, Zenon DEF RefusedAt
      <3>4. j = 1 \/ j = 2 BY <3>3
      <3>5. CASE j = 1 BY <2>1, <2>4, <3>2, <3>5 DEF Asked
      <3>6. CASE j = 2
        <4>1. Asked(b, writes[i]) BY <2>4, <3>2, <3>6, Zenon
        <4>2. writes[i].tag = b.tag /\ writes[i].len = b.len /\ writes[i].at = b.at BY <2>2, <4>1 DEF Asked
        <4> QED BY <2>2, <4>2, Zenon
      <3> QED BY <3>4, <3>5, <3>6
    <2> QED BY <1>1, <2>7, Zenon DEF RefusedClean
  <1>7. \/ NtfsSteps(v, o, L) = <<EndWith(3)>>
        \/ NtfsSteps(v, o, L) = S
        \/ NtfsSteps(v, o, L) = BootWrites(L) \o <<EndWith(3)>>
    BY <1>2, Zenon DEF NtfsSteps
  <1> QED BY <1>1, <1>4, <1>5, <1>6, <1>7, RefusedEmpty, Zenon

\* For all volumes and options that the commands let through: a format that reports
\* success, none of whose writes was dropped, has left the file system it planned and
\* has written nothing outside the volume, with the exceptions that FormatSound names;
\* one that refuses has written at most NTFS boot sectors.
THEOREM FormatsCorrect ==
    ASSUME OptionsGiven
    PROVE  FormatsSpec => []FormatSound
  <1>1. ASSUME ProgramInv PROVE FormatSound
    <2>1. PICK v, o : v = fmt.vol /\ o = fmt.opt OBVIOUS
    <2>2. CASE fmt.cmd = "none"
      <3>1. fmt = NoFormat BY <1>1, <2>2 DEF ProgramInv
      <3>2. fmt.rc = 0 BY <3>1 DEF NoFormat
      <3> QED BY <2>2, <3>2 DEF FormatSound
    <2>3. CASE fmt.cmd # "none"
      <3>1. Given /\ \E k : Gone(Program(fmt.cmd, v, o), k) BY <1>1, <2>1, <2>3, Zenon DEF ProgramInv
      <3>2. PICK W : writes \in Seq(W) BY <1>1, <2>3 DEF ProgramInv
      <3>3. PICK k : Gone(Program(fmt.cmd, v, o), k) BY <3>1
      <3>4. /\ v \in Volumes
            /\ \/ fmt.cmd # "ntfs" /\ o \in FatOptions
               \/ fmt.cmd = "ntfs" /\ o \in NtfsOptions
        BY <2>1, <3>1, Zenon DEF Given
      <3>5. ASSUME fmt.rc = 0, ~dropped, o.at = 0
            PROVE  VolumeSound(v, o)
        <4>1. Through(Program(fmt.cmd, v, o))
          <5>1. fmt.rc \notin {Running, 4} BY <3>5 DEF Running
          <5> QED BY <3>2, <3>3, <3>5, <5>1, Zenon DEF Gone, Through
        <4>2. CASE fmt.cmd # "ntfs"
          <5>1. Through(IF OffsetFits(v, o) THEN FatSteps(v, o) ELSE <<EndWith(2)>>)
            BY <4>1, <4>2, Zenon DEF Program
          <5>2. o \in FatOptions BY <3>4, <4>2
          <5>3. FatGiven(v, o) BY <3>4, <3>5, <5>2, SMT DEF FatGiven, OptionsGiven
          <5>4. FatSound(v, o) BY <5>1, <5>3, FatThrough, Zenon
          <5> QED BY <4>2, <5>4, Zenon DEF VolumeSound
        <4>3. CASE fmt.cmd = "ntfs"
          <5>1. Through(IF OffsetFits(v, o) /\ o.mft # o.mirr THEN NtfsSteps(v, o, Plan(v, o)) ELSE <<EndWith(2)>>)
            BY <4>1, <4>3, Zenon DEF Program
          <5>2. o \in NtfsOptions BY <3>4, <4>3
          <5>3. SUFFICES ASSUME v.base = 0 \/ o.bps = 512, o.bps * o.spc >= 1024, o.mft >= BootClusters
                         PROVE  /\ NtfsSound(Plan(v, o))
                                /\ \A i \in DOMAIN writes :
                                     /\ writes[i].at >= v.base
                                     /\ writes[i].at + writes[i].len <= v.base + v.size
            BY <4>3, SMT DEF VolumeSound
          <5>4. NtfsAsked(v, o)
            <6>1. v.size \in Nat /\ v.base \in Nat BY <3>4, SMT DEF OptionsGiven
            <6>2. o.bps \in {512, 1024, 2048, 4096} /\ o.spc \in Nat \ {0} /\ o.mft \in Nat /\ o.mirr \in Nat
              BY <5>2, SMT DEF OptionsGiven
            <6>4. o.mft >= 2 BY <5>3 DEF BootClusters
            <6> QED BY <3>5, <5>3, <6>1, <6>2, <6>4, SMT DEF NtfsAsked
          <5> QED BY <5>1, <5>4, NtfsThrough, Zenon
        <4> QED BY <4>2, <4>3
      <3>6. ASSUME fmt.rc \in {2, 3}
            PROVE  IF fmt.cmd = "ntfs" THEN RefusedClean(Plan(v, o)) ELSE writes = << >>
        <4>1. fmt.rc \notin {Running, 4} BY <3>6 DEF Running
        <4>2. RefusedAt(Program(fmt.cmd, v, o), k, fmt.rc) BY <3>3, <4>1, Zenon DEF Gone, RefusedAt
        <4>3. CASE fmt.cmd # "ntfs"
          <5>1. RefusedAt(IF OffsetFits(v, o) THEN FatSteps(v, o) ELSE <<EndWith(2)>>, k, fmt.rc)
            BY <4>2, <4>3, Zenon DEF Program
          <5>2. writes = << >> BY <3>2, <3>6, <5>1, FatRefused, Zenon
          <5> QED BY <4>3, <5>2, Zenon
        <4>4. CASE fmt.cmd = "ntfs"
          <5>1. RefusedAt(IF OffsetFits(v, o) /\ o.mft # o.mirr THEN NtfsSteps(v, o, Plan(v, o)) ELSE <<EndWith(2)>>,
                          k, fmt.rc)
            BY <4>2, <4>4, Zenon DEF Program
          <5>2. RefusedClean(Plan(v, o)) BY <3>2, <3>6, <5>1, NtfsRefused, Zenon
          <5> QED BY <4>4, <5>2, Zenon
        <4> QED BY <4>3, <4>4
      <3>7. (fmt.cmd # "none" /\ fmt.rc = 0 /\ ~dropped /\ fmt.opt.at = 0) => VolumeSound(fmt.vol, fmt.opt)
        BY <2>1, <3>5, Zenon
      <3>8. fmt.rc \in {2, 3} =>
              IF fmt.cmd = "ntfs" THEN RefusedClean(Plan(fmt.vol, fmt.opt)) ELSE writes = << >>
        BY <2>1, <3>6, Zenon
      <3> QED BY <3>7, <3>8, Zenon DEF FormatSound
    <2> QED BY <2>2, <2>3
  <1> QED BY <1>1, ProgramKept, PTL
===============================================================================
