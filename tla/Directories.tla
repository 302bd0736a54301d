----------------------------- MODULE Directories -----------------------------
(***************************************************************************)
(* Reading directories: an ISO 9660 image with Rock Ridge names and links  *)
(* (src/iso9660.c, src/iso9660_walk.c, src/vfs_iso.c), and the listing of  *)
(* a directory in several getdents64 calls, there and in the EXT2 driver   *)
(* (src/vfs_ext2.c).                                                       *)
(*                                                                         *)
(* Abstractions.                                                           *)
(*  - A sector is a sequence of records; what they leave of its SectorSize *)
(*    units is zero.  Files take one unit of contents per sector.          *)
(*  - A name is a sequence of pieces, the parts a Rock Ridge entry may be  *)
(*    split into; LowerOf folds the case of a piece.                       *)
(*  - A System Use entry carries what its visitor looks at.  PX and TF     *)
(*    entries (modes and times) are an attribute found or not.  A link's   *)
(*    target is short enough for the 1024 bytes it is copied to.           *)
(***************************************************************************)
EXTENDS Integers, Sequences, SequencesExt, FiniteSetsExt

CONSTANTS
    IsoImages,    \* images to choose from
    Ext2Dirs,     \* EXT2 directories: sequences of blocks of records
    WantedNames,  \* names that are looked up
    LowerOf,      \* piece -> piece
    SectorSize,   \* 2048, in units of the record lengths
    BufferSizes,  \* room of a getdents64 call, in units of the entries
    CeMaxDepth,   \* RR_CE_MAX_DEPTH
    CeMaxBytes,   \* RR_CE_MAX_BYTES
    ReadSizes,    \* what a read asks for
    Repeats       \* bound: how long what was listed or read may get

ASSUME SectorAssumption == SectorSize \in Nat \ {0} /\ BufferSizes \subseteq Nat

VARIABLES
    image,    \* the medium: descriptor, sectors, continuation areas
    iso,      \* iso9660_t of the mount, or Unmounted
    dirh,     \* the open directory: what it is, f_pos, what was listed
    looked,   \* the last lookup: directory, name, result
    fileh     \* the open file: its extent, f_pos, what was read
isoVars == <<image, iso, dirh, looked, fileh>>

Unmounted == [root |-> [lba |-> 0, size |-> 0], susp |-> FALSE]
NoDir == [fs |-> "none"]
NoLookup == [kind |-> "none"]
NoFile == [lba |-> 0, size |-> 0, pos |-> 0, data |-> << >>]

DirectoriesInit ==
    /\ image \in IsoImages
    /\ iso = Unmounted
    /\ dirh = NoDir
    /\ looked = NoLookup
    /\ fileh = NoFile

\* iso_read_sector
HasSector(lba) == lba \in DOMAIN image.sectors
Sector(lba) == image.sectors[lba]

\* The record at an offset of a sector, if there is one and not only zeros.
Offset(sec, i) == FoldLeft(LAMBDA n, r : n + r.len, 0, SubSeq(sec, 1, i - 1))
At(sec, so) == {i \in DOMAIN sec : Offset(sec, i) = so}

------------------------------------------------------------------------------
(* System Use entries                                                        *)

\* rr_walk_su_area: the entries a visitor that looks for sig is shown, in order.
\* It leaves an area when it has enough, and goes into a continuation area where
\* its CE entry stands, unless that is too deep, too long or not to be read.
RECURSIVE SuWalk(_, _, _, _)
SuWalk(area, depth, st, sig) ==
    LET e == Head(area)
        seen == [st EXCEPT !.seen = Append(@, e)]
        fits == e.length <= st.budget /\ depth < CeMaxDepth
        inner == CASE e.sig # "CE" \/ ~fits -> seen
                   [] e.sig = "CE" /\ fits /\ e.block \notin DOMAIN image.areas ->
                         [seen EXCEPT !.ok = FALSE]
                   [] OTHER -> SuWalk(image.areas[e.block], depth + 1,
                                      [seen EXCEPT !.budget = @ - e.length], sig)
    IN  CASE area = << >> \/ ~st.ok -> st
          [] area # << >> /\ st.ok /\ e.sig = sig /\ ~e.cont -> seen
          [] area # << >> /\ st.ok /\ e.sig = "ST" -> seen
          [] OTHER -> SuWalk(Tail(area), depth, inner, sig)

\* rr_walk_record_su
RecordEntries(rec, sig) ==
    LET all == SuWalk(rec.su, 0, [seen |-> << >>, budget |-> CeMaxBytes, ok |-> TRUE], sig).seen
    IN  IF iso.susp THEN SelectSeq(all, LAMBDA e : e.sig = sig) ELSE << >>

\* iso_dir_record_px_ce and iso_dir_record_tf_ce
Has(rec, sig) == RecordEntries(rec, sig) # << >>

\* rr_sl_append: a new component, or more pieces of the last one.
SlAppend(t, pieces, cont) ==
    [t EXCEPT !.comps = IF t.sep \/ @ = << >> THEN Append(@, pieces)
                        ELSE [@ EXCEPT ![Len(@)] = @ \o pieces],
              !.sep = ~cont]

\* One component of an SL entry, as rr_sl_visit takes it.
SlComponent(t, c) ==
    CASE c.kind = "root" -> [abs |-> TRUE, comps |-> << >>, sep |-> FALSE]
      [] c.kind = "parent" -> SlAppend(t, <<"..">>, c.cont)
      [] c.kind = "current" -> SlAppend(t, <<".">>, c.cont)
      [] OTHER -> SlAppend(t, c.pieces, c.cont)

\* iso_dir_record_sl_ce
SlTarget(rec) ==
    LET none == [abs |-> FALSE, comps |-> << >>, sep |-> FALSE]
        t == FoldLeft(LAMBDA t0, e : FoldLeft(SlComponent, t0, e.comps), none,
                      RecordEntries(rec, "SL"))
    IN  [abs |-> t.abs, comps |-> t.comps]

\* iso_dir_record_name: NM entries of the record itself, not of its continuations;
\* without them the identifier, without its version and in lower case.
NoName == << >>
LowerCase(pieces) == [i \in DOMAIN pieces |-> LowerOf[pieces[i]]]
NmEntries(rec) == IF iso.susp THEN SelectSeq(rec.su, LAMBDA e : e.sig = "NM") ELSE << >>
RecordName(rec) ==
    LET nms == NmEntries(rec)
        ends == {i \in DOMAIN nms : ~nms[i].cont}
        used == IF ends = {} THEN nms ELSE SubSeq(nms, 1, Min(ends))
    IN  CASE rec.dot # "no" -> <<rec.dot>>
          [] rec.dot = "no" /\ nms # << >> -> FoldLeft(LAMBDA p, e : p \o e.pieces, << >>, used)
          [] OTHER -> LowerCase(rec.id)
Matches(rec, want) ==
    IF NmEntries(rec) # << >> THEN RecordName(rec) = want
    ELSE RecordName(rec) = LowerCase(want)

------------------------------------------------------------------------------
(* Mounting and looking up                                                   *)

\* iso_mount (and iso_probe, which is the same call): the descriptor is looked
\* through before anything is believed; SUSP is announced in the root's "." record.
PvdValid(pvd) ==
    /\ pvd.type = 1 /\ pvd.magic /\ pvd.version = 1
    /\ pvd.rootLen >= 34 /\ pvd.rootIsDir
    /\ pvd.lba # 0 /\ pvd.size # 0
SuspAnnounced(lba) ==
    /\ HasSector(lba)
    /\ Sector(lba) # << >>
    /\ \E dot \in {Head(Sector(lba))} :
         dot.dot = "." /\ \E i \in DOMAIN dot.su : dot.su[i].sig = "SP"

\* iso_mount_fs
IsoMount ==
    /\ iso = Unmounted
    /\ PvdValid(image.pvd)
    /\ iso' = [root |-> [lba |-> image.pvd.lba, size |-> image.pvd.size],
               susp |-> SuspAnnounced(image.pvd.lba)]
    /\ UNCHANGED <<image, dirh, looked, fileh>>

\* Mutant: a sector of the directory is left at its first record without a match.
WalkFirstOnly(dir, want) ==
    IF HasSector(dir.lba) /\ Sector(dir.lba) # << >> /\ Matches(Head(Sector(dir.lba)), want)
    THEN [kind |-> "found", rec |-> Head(Sector(dir.lba))] ELSE [kind |-> "absent"]

\* iso_walk_component.  left goes down by the records only, not by the zeros at
\* the end of a sector: the walk goes on behind a directory that has some.
RECURSIVE WalkSector(_, _, _, _, _)
WalkSector(lba, i, in, left, want) ==
    IF left <= 0 THEN [kind |-> "absent"]
    ELSE IF ~HasSector(lba) THEN [kind |-> "error"]
    ELSE IF i > Len(Sector(lba)) THEN WalkSector(lba + 1, 1, 0, left, want)
    ELSE LET rec == Sector(lba)[i]
         IN  IF in + rec.len > SectorSize \/ RecordName(rec) = NoName THEN [kind |-> "error"]
             ELSE IF rec.dot = "no" /\ Matches(rec, want) THEN [kind |-> "found", rec |-> rec]
             ELSE WalkSector(lba, i + 1, in + rec.len, left - rec.len, want)
WalkComponent(dir, want) == WalkSector(dir.lba, 1, 0, dir.size, want)

\* The directories of the image that a path can lead to.
Extent(rec) == [lba |-> rec.lba, size |-> rec.size]
Directories == {iso.root} \union
    {Extent(r) : r \in {x \in UNION {ToSet(Sector(l)) : l \in DOMAIN image.sectors} :
                          x.dot = "no" /\ x.dir}}

\* iso_lookup: an error is reported as a missing name.
NoTarget == [abs |-> FALSE, comps |-> << >>]
Lookup(dir, want) ==
    LET r == WalkComponent(dir, want)
        found == r.kind = "found"
    IN  /\ iso # Unmounted
        /\ looked' = [kind |-> IF found THEN "found" ELSE "absent", dir |-> dir, want |-> want,
                      rec |-> IF found THEN Extent(r.rec) ELSE Extent(NoFile),
                      target |-> IF found THEN SlTarget(r.rec) ELSE NoTarget,
                      isDir |-> found /\ r.rec.dir,
                      attributes |-> found /\ (Has(r.rec, "PX") \/ Has(r.rec, "TF"))]
        /\ UNCHANGED <<image, iso, dirh, fileh>>

------------------------------------------------------------------------------
(* Files                                                                     *)

\* iso_file_open; a link has no file operations.
OpenIsoFile ==
    /\ looked.kind = "found"
    /\ ~looked.isDir
    /\ looked.target = NoTarget
    /\ fileh' = [lba |-> looked.rec.lba, size |-> looked.rec.size, pos |-> 0, data |-> << >>]
    /\ UNCHANGED <<image, iso, dirh, looked>>

\* iso_file_read.  A sector that cannot be read ends the call; what was copied
\* before it is returned, but f_pos stays where it was.
ReadIsoFile(n) ==
    LET end == Min({fileh.pos + n, fileh.size})
        lost == {k \in fileh.pos .. end - 1 : ~HasSector(fileh.lba + k)}
        upTo == IF lost = {} THEN end ELSE Min(lost)
    IN  /\ fileh.pos < fileh.size
        /\ upTo > fileh.pos
        /\ Len(fileh.data) < Repeats
        /\ fileh' = [fileh EXCEPT !.pos = IF lost = {} THEN end ELSE @,
                                  !.data = @ \o [k \in 1 .. upTo - fileh.pos |->
                                                    fileh.lba + fileh.pos + k - 1]]
        /\ UNCHANGED <<image, iso, dirh, looked>>

------------------------------------------------------------------------------
(* Listing                                                                   *)

\* iso_dir_open and d_open
OpenIsoDir(dir) ==
    /\ iso # Unmounted
    /\ dirh' = [fs |-> "iso9660", dir |-> dir, pos |-> 0, listed |-> << >>, end |-> FALSE]
    /\ UNCHANGED <<image, iso, looked, fileh>>
OpenExt2Dir(blocks) ==
    /\ dirh' = [fs |-> "ext2", dir |-> blocks, pos |-> 0, listed |-> << >>, end |-> FALSE]
    /\ UNCHANGED <<image, iso, looked, fileh>>

Cost(name) == 1 + Len(name)
Filled(pos, out, ok) == [pos |-> pos, out |-> out, ok |-> ok]

\* The name a listing shows: an identifier is shown in upper case, as it is stored.
ListedName(rec) ==
    IF rec.dot = "no" /\ NmEntries(rec) = << >> THEN rec.id ELSE RecordName(rec)

\* iso_dir_getdents64.  After a read error it returns what it has, but f_pos stays
\* where it was.
RECURSIVE IsoFill(_, _, _, _)
IsoFill(dir, pos, room, out) ==
    LET si == pos \div SectorSize
        lba == dir.lba + si
        here == At(Sector(lba), pos % SectorSize)
        rec == Sector(lba)[CHOOSE i \in here : TRUE]
        name == ListedName(rec)
    IN  IF pos >= dir.size THEN Filled(pos, out, TRUE)
        ELSE IF ~HasSector(lba) THEN Filled(dirh.pos, out, out # << >>)
        ELSE IF here = {} \/ (pos % SectorSize) + rec.len > SectorSize
             THEN IsoFill(dir, (si + 1) * SectorSize, room, out)
        ELSE IF name = NoName THEN IsoFill(dir, pos + rec.len, room, out)
        ELSE IF Cost(name) > room THEN Filled(pos, out, TRUE)
        ELSE IsoFill(dir, pos + rec.len, room - Cost(name), Append(out, name))

\* Mutant: a call resumes behind the record that did not fit.
Ext2FillSkipping(blocks, fpos, room) ==
    LET recs == FlattenSeq(blocks)
        ends == [i \in DOMAIN recs |-> Offset(recs, i) + recs[i].len]
        live == {i \in DOMAIN recs : recs[i].ino # 0 /\ ends[i] > fpos}
        taken == {i \in live : Cost(<<recs[i].name>>) <= room}
        i1 == Min(taken)
    IN  IF taken = {} THEN Filled(fpos, << >>, TRUE)
        ELSE Filled(ends[Min({i1 + 1, Len(recs)})], <<<<recs[i1].name>>>>, TRUE)

\* d_getdents64: the records are counted from the start of the directory every
\* time, and those that end at or before f_pos are skipped.
RECURSIVE Ext2Scan(_, _, _, _, _, _)
Ext2Scan(recs, i, logical, fpos, room, out) ==
    IF i > Len(recs) THEN Filled(fpos, out, TRUE)
    ELSE LET next == logical + recs[i].len
             live == recs[i].ino # 0
             name == <<recs[i].name>>
         IN  IF next <= fpos THEN Ext2Scan(recs, i + 1, next, fpos, room, out)
             ELSE IF live /\ Cost(name) > room THEN Filled(fpos, out, TRUE)
             ELSE IF live THEN Ext2Scan(recs, i + 1, next, next, room - Cost(name), Append(out, name))
             ELSE Ext2Scan(recs, i + 1, next, next, room, out)
Ext2Fill(blocks, fpos, room) == Ext2Scan(FlattenSeq(blocks), 1, 0, fpos, room, << >>)

\* One call of cmd_ls's loop; an answer without entries ends it.
Getdents(room) ==
    LET r == IF dirh.fs = "ext2" THEN Ext2Fill(dirh.dir, dirh.pos, room)
             ELSE IsoFill(dirh.dir, dirh.pos, room, << >>)
    IN  /\ dirh # NoDir
        /\ ~dirh.end
        /\ r.ok
        /\ Len(dirh.listed) < Repeats
        /\ dirh' = [dirh EXCEPT !.pos = r.pos, !.listed = @ \o r.out, !.end = r.out = << >>]
        /\ UNCHANGED <<image, iso, looked, fileh>>

DirectoriesNext ==
    \/ IsoMount
    \/ iso # Unmounted /\ \E d \in Directories, n \in WantedNames : Lookup(d, n)
    \/ OpenIsoFile
    \/ \E n \in ReadSizes : ReadIsoFile(n)
    \/ iso # Unmounted /\ dirh = NoDir /\ \E d \in Directories : OpenIsoDir(d)
    \/ dirh = NoDir /\ \E b \in Ext2Dirs : OpenExt2Dir(b)
    \/ \E room \in BufferSizes : Getdents(room)

------------------------------------------------------------------------------
(* Properties                                                                *)

\* The records a directory really has: those of the sectors its size covers.
SectorsOf(dir) == dir.lba .. dir.lba + (dir.size + SectorSize - 1) \div SectorSize - 1
Readable(dir) == SectorsOf(dir) \subseteq DOMAIN image.sectors
RecordsOf(dir) == FoldLeft(LAMBDA s, l : s \o Sector(l), << >>, SetToSortSeq(SectorsOf(dir), <))
Entries ==
    IF dirh.fs = "ext2"
    THEN LET live == SelectSeq(FlattenSeq(dirh.dir), LAMBDA r : r.ino # 0)
         IN  [i \in DOMAIN live |-> <<live[i].name>>]
    ELSE [i \in DOMAIN RecordsOf(dirh.dir) |-> ListedName(RecordsOf(dirh.dir)[i])]

\* However many getdents64 calls cmd_ls needs, and with whatever room each of them
\* has, a listing of a readable directory is a part of its entries, each once and
\* in order, and is all of them when it ends.
ListingExact ==
    dirh # NoDir /\ (dirh.fs = "iso9660" => Readable(dirh.dir)) =>
        /\ IsPrefix(dirh.listed, Entries)
        /\ dirh.end => dirh.listed = Entries

\* A name that one entry of a readable directory is listed under is found by
\* iso_lookup, with the extent of that entry and the target its Rock Ridge fields
\* spell, wherever the fields are split; a file's sectors are read in order.
LookupExact ==
    /\ looked.kind # "none" /\ Readable(looked.dir) =>
          LET recs == RecordsOf(looked.dir)
              hits == {i \in DOMAIN recs : recs[i].dot = "no" /\ ListedName(recs[i]) = looked.want}
          IN  Cardinality(hits) = 1 =>
                 \A i \in hits : /\ looked.kind = "found"
                                 /\ looked.rec = Extent(recs[i])
                                 /\ looked.target = IF iso.susp THEN recs[i].target ELSE NoTarget
    /\ (\A k \in 0 .. fileh.size - 1 : HasSector(fileh.lba + k)) =>
          fileh.data = [k \in 1 .. fileh.pos |-> fileh.lba + k - 1]

\* A lookup finds only what is in the directory: "Scan a single ISO9660 directory
\* (at dir_lba, length dir_size bytes) for one component name" (iso_walk_component).
LookupStays ==
    looked.kind = "found" /\ Readable(looked.dir) =>
        \E r \in ToSet(RecordsOf(looked.dir)) : Extent(r) = looked.rec /\ Matches(r, looked.want)
==============================================================================
