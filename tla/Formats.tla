------------------------------- MODULE Formats -------------------------------
(***************************************************************************)
(* The formatters mkfs.fat and mkfs_vfat (src/mkfs_fat_core.c) and         *)
(* mkfs.ntfs (src/mkfs_ntfs_core.c): the layout they plan and the writes   *)
(* they make, one action per write.                                        *)
(*                                                                         *)
(* Abstractions.                                                           *)
(*  - A volume is a range of units of 512 bytes in a host file, and the    *)
(*    file is the sequence of writes made: what a unit holds is what the   *)
(*    last write over it left.  Contents are tags; a FAT's first entries   *)
(*    are written over its first unit.                                     *)
(*  - mkfs.fat formats with 512-byte sectors: -S is left out, with which   *)
(*    put_sector writes more or less than its 512-byte structure.  Volumes *)
(*    are small enough that no 32-bit sum wraps.                           *)
(*  - The container is one whose payload is the host file's prefix (RAW,   *)
(*    fixed VHD), as the comment in cmd_mkfs_ntfs asks.                    *)
(***************************************************************************)
EXTENDS Integers, Sequences, FiniteSets

CONSTANTS
    Volumes,      \* [base, size, host]: rows of the device table and the file behind, in units
    FatOptions,   \* [spc, type, at]: 0, -1, 0 when not given
    NtfsOptions   \* [bps, spc, mft, mirr, at]

VARIABLES
    fmt,      \* the command: [cmd, vol, opt, steps, rc], rc = -1 while it runs
    writes,   \* writes made: [at, len, tag]
    dropped   \* a write failed and nobody looked
formatVars == <<fmt, writes, dropped>>

Running == -1
NoFormat == [cmd |-> "none", vol |-> [base |-> 0, size |-> 0, host |-> 0], opt |-> << >>,
             steps |-> << >>, rc |-> 0]
FormatsInit == fmt = NoFormat /\ writes = << >> /\ dropped = FALSE

CeilDiv(a, b) == (a + b - 1) \div b
Align8(n) == 8 * CeilDiv(n, 8)
\* a step of a format: a write whose result counts or not, or a check that ends it
Write(at, len, tag) == [do |-> "write", at |-> at, len |-> len, tag |-> tag]
Checked(at, len, tag) == [do |-> "checked", at |-> at, len |-> len, tag |-> tag]
EndWith(rc) == [do |-> "stop", at |-> 0, len |-> 0, tag |-> rc]

\* what unit u holds
Owner(u) ==
    LET over == {i \in DOMAIN writes : writes[i].at <= u /\ u < writes[i].at + writes[i].len}
    IN  IF over = {} THEN "old"
        ELSE writes[CHOOSE i \in over : \A j \in over : j <= i].tag

\* a device that is a partition has its place; -o moves the start on a whole disk
VolumeStart(v, o) == IF o.at = 0 THEN v.base ELSE o.at

------------------------------------------------------------------------------
(* FAT                                                                       *)

\* the type by size, and its cluster size, when none is given
FatType(v, o) ==
    CASE o.type \in {12, 16, 32} -> o.type
      [] o.type \notin {12, 16, 32} /\ v.size < 32768 -> 12
      [] o.type \notin {12, 16, 32} /\ v.size >= 32768 /\ v.size < 1048576 -> 16
      [] OTHER -> 32
Spc(v, o) == IF o.spc # 0 THEN o.spc ELSE IF FatType(v, o) = 32 THEN 8 ELSE 4
Rsvd(F) == IF F = 32 THEN 32 ELSE 1
RootSecs(F) == IF F = 32 THEN 0 ELSE CeilDiv(512 * 32, 512)

\* sectors of a FAT, from a guess of the clusters that does not take the FATs off
ClusGuess(F, spc, totsec) ==
    (totsec - Rsvd(F) - (IF F = 32 THEN 1 ELSE RootSecs(F))) \div spc
FatBytes(F, clusters) ==
    CASE F = 12 -> (clusters * 3 + 1) \div 2
      [] F = 16 -> clusters * 2
      [] OTHER -> clusters * 4
FatLength(F, spc, totsec) == CeilDiv(FatBytes(F, ClusGuess(F, spc, totsec)), 512)
\* the length is kept in 16 bits, or in 32 for FAT32, and not checked to fit
FatSize(F, spc, totsec) ==
    LET n == FatLength(F, spc, totsec)
        kept == IF F = 32 THEN n ELSE n % 65536
    IN  IF kept < 1 THEN 1 ELSE kept

LengthKept(F, spc, totsec) == F = 32 \/ FatLength(F, spc, totsec) < 65536

\* the boot sectors, then the FATs and the root directory, then the FATs' first entries
FatWrites(F, lba, fatsz) ==
    LET fat1 == lba + Rsvd(F)
        fat2 == fat1 + fatsz
        root == fat2 + fatsz
    IN  <<Write(lba, 1, "boot")>>
        \o (IF F = 32 THEN <<Write(lba + 1, 1, "fsinfo"), Write(lba + 6, 1, "boot")>> ELSE << >>)
        \o <<Write(fat1, fatsz, "fat"), Write(fat2, fatsz, "fat")>>
        \o (IF F = 32 THEN << >> ELSE <<Write(root, RootSecs(F), "root")>>)
        \o <<Write(fat1, 1, "head"), Write(fat2, 1, "head")>>

\* mkfs_fat_format
FatSteps(v, o) ==
    IF v.size < 100 THEN <<EndWith(3)>>
    ELSE FatWrites(FatType(v, o), VolumeStart(v, o), FatSize(FatType(v, o), Spc(v, o), v.size))
         \o <<EndWith(0)>>

BeginFormat(cmd, v, o, steps) ==
    /\ fmt.rc # Running /\ fmt.cmd = "none"
    /\ fmt' = [cmd |-> cmd, vol |-> v, opt |-> o, steps |-> steps, rc |-> Running]
    /\ UNCHANGED <<writes, dropped>>

\* -o is refused for a partition
OffsetFits(v, o) == v.base = 0 \/ o.at = 0
MkfsFat(v, o) ==
    BeginFormat("fat", v, o, IF OffsetFits(v, o) THEN FatSteps(v, o) ELSE <<EndWith(2)>>)
MkfsVfat(v, o) ==
    BeginFormat("vfat", v, o, IF OffsetFits(v, o) THEN FatSteps(v, o) ELSE <<EndWith(2)>>)

------------------------------------------------------------------------------
(* NTFS                                                                      *)

RecordBytes == 1024
MftRecords == 16
MirrorRecords == 4
BootClusters == 2
AttrDefClusters == 1
LogClusters == 16
AttrDefUnits == 8          \* a buffer of 4096 bytes
AttrDefUsed == 2           \* of which six definitions take 960

\* plan_layout and the sums that follow it, in clusters; unit: a cluster's units
Plan(v, o) ==
    LET sector == o.bps \div 512
        cluster == o.bps * o.spc
        totsec == v.size \div sector
        total == totsec \div o.spc
        mirror == CeilDiv(MirrorRecords * RecordBytes, cluster)
        bitmap == CeilDiv(CeilDiv(total, 8), cluster)
    IN  [sector |-> sector, unit |-> sector * o.spc, base |-> VolumeStart(v, o) * sector,
         totsec |-> totsec, total |-> total,
         mft |-> o.mft, mftLen |-> CeilDiv(MftRecords * RecordBytes, cluster),
         mirr |-> o.mirr, mirrLen |-> mirror,
         bitmap |-> o.mirr + mirror, bitmapLen |-> bitmap,
         attrdef |-> o.mirr + mirror + bitmap,
         log |-> o.mirr + mirror + bitmap + AttrDefClusters]
ClusterAt(L, c) == L.base + c * L.unit

\* the sum that is checked before the metadata is written
LayoutFits(L) ==
    /\ L.total # 0
    /\ L.mft + L.mftLen <= L.mirr
    /\ L.log + LogClusters < L.total

\* write_boot_sector: the first sector and the last
BootWrites(L) ==
    <<Write(L.base, 1, "boot"), Write(L.base + (L.totsec - 1) * L.sector, 1, "boot")>>

\* the system files: length of the name, and the clusters of the data
Clusters(first, len) == [first |-> first, len |-> len]
NoRun == Clusters(0, 0)
Seeds(L) ==
    [r \in 0 .. 8 |->
        CASE r = 0 -> [name |-> 4, run |-> Clusters(L.mft, L.mftLen)]
          [] r = 1 -> [name |-> 8, run |-> Clusters(L.mirr, L.mirrLen)]
          [] r = 2 -> [name |-> 8, run |-> Clusters(L.log, LogClusters)]
          [] r = 3 -> [name |-> 7, run |-> NoRun]
          [] r = 4 -> [name |-> 8, run |-> Clusters(L.attrdef, AttrDefClusters)]
          [] r = 5 -> [name |-> 1, run |-> NoRun]
          [] r = 6 -> [name |-> 7, run |-> Clusters(L.bitmap, L.bitmapLen)]
          [] r = 7 -> [name |-> 5, run |-> Clusters(0, BootClusters)]
          [] OTHER -> [name |-> 8, run |-> NoRun]]
RootIndex == <<4, 6, 2, 0, 1, 3>>

\* Bytes of an attribute with a resident value, of a file name, of the index of the
\* root, and of a run list, whose numbers take the bytes they need, up to eight.
Resident(bytes) == Align8(24 + bytes)
FileName(name) == 66 + 2 * name
NumberBytes(n) ==
    LET shifted[k \in 0 .. 7] == IF k = 0 THEN n ELSE shifted[k - 1] \div 256
    IN  1 + Cardinality({k \in 1 .. 7 : shifted[k] # 0})
RunListAttr(run) == Align8(64 + 2 + NumberBytes(run.len) + NumberBytes(run.first))
IndexRoot(L) ==
    LET size[n \in 0 .. Len(RootIndex)] ==
            IF n = 0 THEN 32 ELSE size[n - 1] + Align8(16 + FileName(Seeds(L)[RootIndex[n]].name))
    IN  size[Len(RootIndex)] + 16

\* write_metadata_record: a record is built when its attributes and the end mark fit,
\* and its update sequence covers whole sectors
RecordHeader(sector) == Align8(48 + 2 * (1 + 2 \div sector))
RecordSize(L, r) ==
    RecordHeader(L.sector) + Resident(48) + Resident(FileName(Seeds(L)[r].name))
    + (IF r = 3 THEN Resident(10) + Resident(12) ELSE 0)
    + (IF r = 8 THEN Resident(0) ELSE 0)
    + (IF Seeds(L)[r].run # NoRun THEN RunListAttr(Seeds(L)[r].run) ELSE 0)
    + (IF r = 5 THEN Resident(IndexRoot(L)) ELSE 0)
RecordBuilds(L, r) == L.sector \in {1, 2} /\ RecordSize(L, r) + 8 <= RecordBytes /\ IndexRoot(L) <= 768

RecordAt(L, lcn, r) == ClusterAt(L, lcn) + r * (RecordBytes \div 512)
RecordStep(L, r) ==
    IF RecordBuilds(L, r)
    THEN Checked(RecordAt(L, L.mft, r), RecordBytes \div 512, <<"record", r>>)
    ELSE EndWith(4)

\* the clusters that $Bitmap marks
Span(first, len) == first .. first + len - 1
MarkedNoLog(L) ==
    Span(0, BootClusters) \cup Span(L.mft, L.mftLen) \cup Span(L.mirr, L.mirrLen)
        \cup Span(L.bitmap, L.bitmapLen) \cup Span(L.attrdef, AttrDefClusters) \cup {L.total - 1}
Marked(L) == MarkedNoLog(L) \cup Span(L.log, LogClusters)

\* mkfs_ntfs_core behind the check of the layout
NtfsMetadata(L) ==
    <<Write(ClusterAt(L, L.mft), MftRecords * (RecordBytes \div 512), "zero"),
      Write(ClusterAt(L, L.mirr), MirrorRecords * (RecordBytes \div 512), "zero")>>
    \o [i \in 1 .. 9 |-> RecordStep(L, i - 1)]
    \o <<Checked(ClusterAt(L, L.attrdef), AttrDefUnits, "attrdef"),
         Write(ClusterAt(L, L.log), LogClusters * L.unit, "log"),
         Checked(ClusterAt(L, L.bitmap), L.bitmapLen * L.unit, <<"bitmap", Marked(L)>>)>>
    \o [i \in 1 .. MirrorRecords |->
          [do |-> "copy", at |-> RecordAt(L, L.mirr, i - 1), len |-> RecordBytes \div 512,
           tag |-> RecordAt(L, L.mft, i - 1)]]
    \o <<EndWith(0)>>

\* mkfs_ntfs_core: the boot sectors are written before the layout is checked
NtfsSteps(v, o, L) ==
    IF L.base > v.host \/ v.size > v.host - L.base \/ v.size < 100 * L.sector
    THEN <<EndWith(3)>>
    ELSE BootWrites(L) \o (IF LayoutFits(L) THEN NtfsMetadata(L) ELSE <<EndWith(3)>>)

MkfsNtfs(v, o) ==
    BeginFormat("ntfs", v, o, IF OffsetFits(v, o) /\ o.mft # o.mirr THEN NtfsSteps(v, o, Plan(v, o))
                              ELSE <<EndWith(2)>>)

------------------------------------------------------------------------------

Stepped == fmt' = [fmt EXCEPT !.steps = Tail(@)]
Ended(rc) == fmt' = [fmt EXCEPT !.steps = << >>, !.rc = rc]

\* the next write, the copy of a record to the mirror, or the end
FormatStep ==
    /\ fmt.rc = Running
    /\ \E s \in {Head(fmt.steps)} :
         \/ /\ s.do = "stop" /\ Ended(s.tag)
            /\ UNCHANGED writes
         \/ /\ s.do \in {"write", "checked"} /\ Stepped
            /\ writes' = Append(writes, [at |-> s.at, len |-> s.len, tag |-> s.tag])
         \/ /\ s.do = "copy" /\ Stepped
            /\ writes' = Append(writes, [at |-> s.at, len |-> s.len, tag |-> Owner(s.tag)])
    /\ UNCHANGED dropped

\* put_sector and zero_region do not look at what fseek and fwrite return, nor does
\* anyone at fclose.  A write whose result counts fails there, or later when stdio
\* writes its buffer out, at a seek of zero_region or at the end.  One write that is
\* lost this way is as good as several.
Unnoticed(steps) ==
    \/ Head(steps).do = "write"
    \/ Head(steps).do \in {"checked", "copy"} /\ Head(Tail(steps)).do \in {"write", "stop"}
FormatWriteFails ==
    /\ fmt.rc = Running
    /\ \/ Unnoticed(fmt.steps) /\ Stepped /\ ~dropped /\ dropped' = TRUE
       \/ Head(fmt.steps).do \in {"checked", "copy"} /\ Ended(4) /\ UNCHANGED dropped
    /\ UNCHANGED writes

FormatsNext ==
    \/ \E v \in Volumes : \/ \E o \in FatOptions : MkfsFat(v, o) \/ MkfsVfat(v, o)
                          \/ \E o \in NtfsOptions : MkfsNtfs(v, o)
    \/ FormatStep
    \/ FormatWriteFails
FormatsSpec == FormatsInit /\ [][FormatsNext]_formatVars

------------------------------------------------------------------------------
(* Properties                                                                *)

\* every unit of [at, at + len) holds one of tags
Holds(at, len, tags) == \A u \in at .. at + len - 1 : Owner(u) \in tags

\* The parts of a FAT volume lie in it; both FATs are empty behind their first entries,
\* so is the root directory of FAT12 and FAT16; and the data area keeps what it held,
\* the root directory of FAT32 in its first cluster with it.  A FAT has an entry for
\* every cluster of the data area (not counting the two entries that name no cluster),
\* unless its length was cut to 16 bits.
FatSound(v, o) ==
    LET F == FatType(v, o)
        spc == Spc(v, o)
        fatsz == FatSize(F, spc, v.size)
        fat1 == v.base + Rsvd(F)
        data == Rsvd(F) + 2 * fatsz + RootSecs(F)
    IN  /\ data < v.size
        /\ Owner(v.base) = "boot"
        /\ Owner(fat1) = "head" /\ Holds(fat1 + 1, fatsz - 1, {"fat"})
        /\ Owner(fat1 + fatsz) = "head" /\ Holds(fat1 + fatsz + 1, fatsz - 1, {"fat"})
        /\ Holds(fat1 + 2 * fatsz, RootSecs(F), {"root"})
        /\ \A i \in DOMAIN writes : writes[i].at >= v.base /\ writes[i].at + writes[i].len <= v.base + data
        /\ LengthKept(F, spc, v.size) => 512 * fatsz >= FatBytes(F, (v.size - data) \div spc)

\* the clusters that the format wrote to
ClusterOf(L, u) == (u - L.base) \div L.unit
Reach(L, i) == ClusterOf(L, writes[i].at) .. ClusterOf(L, writes[i].at + writes[i].len - 1)
Touched(L) == (UNION {Reach(L, i) : i \in DOMAIN writes}) \cap (0 .. L.total - 1)

\* Every data run of an NTFS system file still holds what was written for that file
\* when the format is through, the first records and their mirror are the same, and
\* $Bitmap marks every cluster that the format wrote to and no other but the second
\* of $Boot and the last of the volume.
NtfsSound(L) ==
    LET records == {<<"record", r>> : r \in 0 .. 8}
    IN  /\ Owner(L.base) = "boot" /\ Owner(L.base + (L.totsec - 1) * L.sector) = "boot"
        /\ \A r \in 0 .. 8 : Owner(RecordAt(L, L.mft, r)) = <<"record", r>>
        /\ Holds(ClusterAt(L, L.mft), MftRecords * 2, records \cup {"zero"})
        /\ \A r \in 0 .. MirrorRecords - 1 : Owner(RecordAt(L, L.mirr, r)) = Owner(RecordAt(L, L.mft, r))
        /\ Holds(ClusterAt(L, L.attrdef), AttrDefUsed, {"attrdef"})
        /\ Holds(ClusterAt(L, L.log), LogClusters * L.unit, {"log"})
        /\ Holds(ClusterAt(L, L.bitmap), L.bitmapLen * L.unit, {<<"bitmap", Marked(L)>>})
        /\ Touched(L) \subseteq Marked(L)
        /\ Marked(L) \subseteq Touched(L) \cup {1, L.total - 1}
        /\ \A r, s \in 0 .. 8 :
             r # s => LET a == Seeds(L)[r].run
                          b == Seeds(L)[s].run
                      IN  Span(a.first, a.len) \cap Span(b.first, b.len) = {}

\* A format that refuses its options or the volume has written nothing, but that of an
\* NTFS volume may have written its two boot sectors, before the layout was checked.
RefusedClean(L) ==
    \A i \in DOMAIN writes :
        /\ writes[i].tag = "boot" /\ writes[i].len = 1
        /\ writes[i].at \in {L.base, L.base + (L.totsec - 1) * L.sector}

VolumeSound(v, o) ==
    IF fmt.cmd # "ntfs" THEN FatSound(v, o)
    ELSE (v.base = 0 \/ o.bps = 512) /\ o.bps * o.spc >= 1024 /\ o.mft >= BootClusters =>
            /\ NtfsSound(Plan(v, o))
            /\ \A i \in DOMAIN writes :
                 writes[i].at >= v.base /\ writes[i].at + writes[i].len <= v.base + v.size

(* A format that reports success, none of whose writes was dropped, has left *)
(* the file system that it planned, and outside the volume nothing is        *)
(* written.  Excepted are options that the commands accept and the core does *)
(* not support: -o, sectors that are not the 512 bytes of the device table   *)
(* on a partition, clusters smaller than the table of $AttrDef, and an $MFT  *)
(* in the second cluster, which $Boot claims.  A FAT12 or FAT16 forced on a  *)
(* volume whose FAT needs more than 65535 sectors is left with a FAT too     *)
(* short for its clusters (mkfs_fat_core.c:191), and the root directory of   *)
(* FAT32 with what was in its cluster (mkfs_fat_core.c:139-181).  One that   *)
(* refuses has changed nothing but NTFS boot sectors.                        *)
FormatSound ==
    LET v == fmt.vol
        o == fmt.opt
    IN  /\ (fmt.cmd # "none" /\ fmt.rc = 0 /\ ~dropped /\ o.at = 0) => VolumeSound(v, o)
        /\ fmt.rc \in {2, 3} =>
              IF fmt.cmd = "ntfs" THEN RefusedClean(Plan(v, o)) ELSE writes = << >>
===============================================================================
