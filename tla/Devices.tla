------------------------------ MODULE Devices ------------------------------
(***************************************************************************)
(* Disk images, the devices they are attached to and their partitions:     *)
(* the commands create, use, partscan, gpt, mbr, write and mount, with     *)
(* libvdisk's RAW, VHD and VMDK containers under them.                     *)
(*                                                                         *)
(* An image is a file of sectors on the host.  use opens it under a device *)
(* key (diskio.c) and registers a row for the device and one for every     *)
(* partition it finds (vblk.c, blkdev.c).  A mounted file system keeps a   *)
(* pointer to the row it was opened with, which is modelled as the row's   *)
(* slot.  gpt edits the table in one write after another: any of them may  *)
(* fail and the process may die between two.                               *)
(*                                                                         *)
(* Abstractions: a sector holds one body; the entry array of a GPT fits in *)
(* one sector; a checksum is the value it was computed from, so that it    *)
(* matches exactly what it covers.  A device name is a letter and digits,  *)
(* and a row's number is one digit.                                        *)
(***************************************************************************)
EXTENDS Integers, Sequences, FiniteSets, SequencesExt

CONSTANTS
    Images,        \* image files of the host
    Format,        \* the container an image's extension stands for
    Disks,         \* device names given to use
    Targets,       \* device names given to the other commands
    Parts,         \* names of partitions given to mount and write
    HostFiles,     \* what write is given: [at, len], a place in the row and a length
    MountPoints,   \* mount points
    Sizes,         \* sizes of created images, in sectors
    MaxLba,        \* the largest of them
    Media,         \* the sectors of the images at the start
    MediaSize,     \* and how many they hold, 0: no such file
    NumEntries,    \* entries in a GPT (ENTRIES_MAX)
    Requests,      \* options of gpt add: [start, end, size]
    Sector,        \* bytes in a sector (LSEC)
    MaxKeys,       \* DISKIO_MAX_MAP
    MaxRows,       \* VBLK_MAX
    MaxParts,      \* MAX_PARTS
    MaxMounts,     \* VFS_MAX_MOUNTS
    MaxCommands,   \* bound on the commands given
    MaxFaults,     \* bound on failed writes and crashes
    Careful        \* no command rescans a disk that has a mounted row

Formats == {"raw", "vhd", "vmdk"}
Names == {"a", "b"} \X Seq(1 .. 9)

NoImage == "no image"

ASSUME ImagesAssumption == Format \in [Images -> Formats] /\ NoImage \notin Images
ASSUME BoundsAssumption ==
    /\ MaxRows \in Nat \ {0} /\ NumEntries \in Nat \ {0} /\ MaxLba \in Nat
    /\ MaxKeys \in Nat /\ NumEntries <= MaxParts /\ MaxParts <= 9 /\ MaxMounts \in Nat
    /\ MaxCommands \in Nat /\ MaxFaults \in Nat /\ Careful \in BOOLEAN
ASSUME NamesAssumption == Disks \union Targets \union Parts \subseteq Names

VARIABLES
    disk,      \* the sectors of every image
    len,       \* sectors its host file holds
    tag,       \* the size its VHD footer or VMDK descriptor states, 0: none
    key,       \* g_map: the image a device key is attached to
    rows,      \* g_vblk
    mounts,    \* g_mnt: for every mount point the slot and the row mounted
    op,        \* the command in progress
    kept,      \* for every image the partitions of the last finished gpt add
    scanned,   \* for every device name the partitions its last scan registered
    mbrDisks,  \* the device names whose last scan took them from an MBR
    used       \* commands and faults so far

host == <<disk, len, tag>>
vars == <<disk, len, tag, key, rows, mounts, op, kept, scanned, mbrDisks, used>>

Slots == 1 .. MaxRows
Free == [name |-> <<"free", <<>>>>, dev |-> <<"free", <<>>>>, start |-> 0, size |-> 0]
NoMount == [slot |-> 0, row |-> Free]
Idle == [pc |-> "idle"]

------------------------------------------------------------------------------
(* Sectors                                                                   *)

Body(b) == [boot |-> FALSE, body |-> b]
Blank == Body([kind |-> "blank"])
Data == Body([kind |-> "data"])
Mbr(parts) == Body([kind |-> "mbr", parts |-> parts])
Protective(total) == Mbr(<<[type |-> "ee", lba |-> 1, count |-> total - 1]>>)

Empty == <<0, 0>>     \* an entry whose type GUID is zero
NoEntries == [e \in 1 .. NumEntries |-> Empty]

\* A zeroed array is what an array of empty entries looks like.
EntriesSector(es) == IF es = NoEntries THEN Blank ELSE Body([kind |-> "entries", es |-> es])
\* Data in the place of an array has no entry that is free.
EntriesOf(s) ==
    CASE s.body.kind = "entries" -> s.body.es
      [] s.body.kind = "data" -> << >>
      [] OTHER -> NoEntries
Ranges(es) == {es[e] : e \in {x \in DOMAIN es : es[x] # Empty}}
Overlap(r, s) == r[1] <= s[2] /\ r[2] >= s[1]

------------------------------------------------------------------------------
(* libvdisk: what vdisk_open accepts, and the size it reports                *)

\* raw_open: the size of the file.
RawOpen(i) == len[i]

\* fixed_footer_valid: the file is the data and a footer that states its size.
VhdOpen(i) == IF tag[i] = len[i] THEN tag[i] ELSE 0

\* vmdk_open: the extent file holds at least the sectors the descriptor states.
VmdkOpen(i) == IF tag[i] <= len[i] THEN tag[i] ELSE 0

\* vdisk_open: the driver of the extension, 0 when it refuses the file.
OpenSize(i) ==
    CASE Format[i] = "raw"  -> RawOpen(i)
      [] Format[i] = "vhd"  -> VhdOpen(i)
      [] Format[i] = "vmdk" -> VmdkOpen(i)

\* diskio_pread and diskio_pwrite on a key: bounded by the size of the handle,
\* which is the one the row of the device was registered with.
SizeOf(k) == IF key[k] = NoImage THEN 0 ELSE OpenSize(key[k])
Attached == {k \in Disks : key[k] # NoImage}

------------------------------------------------------------------------------
(* vblk.c: the registry                                                      *)

SlotOf(rs, n) == {s \in Slots : rs[s].name = n}
FirstOf(ss) == CHOOSE s \in ss : \A t \in ss : s <= t

RowNamed(rs, n) == rs[FirstOf(SlotOf(rs, n))]

\* Mutant: the next row goes behind as many rows as there are.
MutRegister(rs, r) ==
    LET here == SlotOf(rs, r.name)
        next == Cardinality({s \in Slots : rs[s] # Free}) + 1
    IN  IF here = {} /\ next \notin Slots THEN rs
        ELSE [rs EXCEPT ![IF here # {} THEN FirstOf(here) ELSE next] = r]

\* vblk_register: in place, else into the first free slot, else nowhere.
CanRegister(rs, n) == SlotOf(rs, n) \union SlotOf(rs, Free.name) # {}
Register(rs, r) ==
    LET here == SlotOf(rs, r.name)
        free == SlotOf(rs, Free.name)
    IN  IF ~CanRegister(rs, r.name) THEN rs
        ELSE [rs EXCEPT ![FirstOf(IF here # {} THEN here ELSE free)] = r]

\* The names vblk_remove_children takes for partitions of n: n and digits.
ChildOf(m, n) ==
    /\ m[1] = n[1] /\ Len(m[2]) > Len(n[2])
    /\ SubSeq(m[2], 1, Len(n[2])) = n[2]

\* Mutant: a rescan only adds rows.
MutRemoveChildren(rs, n) == rs

RemoveChildren(rs, n) == [s \in Slots |-> IF ChildOf(rs[s].name, n) THEN Free ELSE rs[s]]

\* vblk_open: the first row with that name, or whose backing device is it.
Opens(rs, n) == {s \in Slots : rs[s] # Free /\ (rs[s].name = n \/ rs[s].dev = n)}
VblkOpen(rs, n) == rs[FirstOf(Opens(rs, n))]

\* vblk_read_blocks: relative to the row and inside it.
Readable(r, a) == a < r.size /\ r.start + a < SizeOf(r.dev)
Read(r, a) == disk[key[r.dev]][r.start + a].body

------------------------------------------------------------------------------
(* blkdev.c: what a scan of a row finds                                      *)

Extended(p) == p.type = "ext"
RangeFrom(base, p) == <<base + p.lba, base + p.lba + p.count - 1>>

\* scan_ebr_chain: at most max partitions of the chain that starts at base.
\* Every EBR states its own partition relative to itself and the next EBR
\* relative to base.
ScanEbrChain(r, base, max) ==
    LET chain[a \in 0 .. MaxLba, m \in 0 .. MaxParts] ==
          IF m = 0 \/ ~Readable(r, a) THEN <<>>
          ELSE IF Read(r, a).kind # "mbr" THEN <<>>
          ELSE LET e1 == Read(r, a).parts[1]
                   e2 == Read(r, a).parts[2]
                   own == IF e1.type # "none" /\ e1.count > 0
                          THEN <<RangeFrom(a, e1)>> ELSE <<>>
               IN  IF Extended(e2)
                   THEN own \o chain[base + e2.lba, m - Len(own)] ELSE own
    IN  chain[base, max]

\* scan_mbr: an 0xEE entry sends it to the GPT.
HasMbr(r) == Readable(r, 0) /\ Read(r, 0).kind = "mbr"
IsProtective(r) ==
    HasMbr(r) /\ \E p \in Range(Read(r, 0).parts) : p.type = "ee" /\ p.count > 0
ScanMbr(r) ==
    IF ~HasMbr(r) THEN <<>>
    ELSE FoldLeft(LAMBDA found, p :
                    IF p.type = "none" \/ p.count = 0 THEN found
                    ELSE IF Extended(p)
                         THEN found \o ScanEbrChain(r, p.lba, MaxParts - Len(found))
                         ELSE IF Len(found) < MaxParts
                              THEN Append(found, RangeFrom(0, p)) ELSE found,
                  <<>>, Read(r, 0).parts)

\* The fields of a header both gpt_read_header and gpt_validate_at check; its
\* own checksum always matches, the header being written in one piece.
HeaderAt(r, a) ==
    /\ Readable(r, a)
    /\ Read(r, a).kind = "header"
    /\ LET h == Read(r, a)
       IN  h.current < r.size /\ h.backup < r.size /\ h.last < r.size /\ h.entries < r.size

\* gpt_read_entries: the array matches the checksum in the header.
EntriesMatch(r, a) ==
    LET h == Read(r, a)
    IN  Readable(r, h.entries) /\ EntriesOf([body |-> Read(r, h.entries)]) = h.crc

\* gpt_validate_at
ValidateAt(r, a) == HeaderAt(r, a) /\ EntriesMatch(r, a)

\* scan_gpt: the primary copy, else the backup that sector 1 points to.
GptHeader(r) ==
    IF ValidateAt(r, 1) THEN {1}
    ELSE IF Readable(r, 1) /\ Read(r, 1).kind = "header" /\ ValidateAt(r, Read(r, 1).backup)
         THEN {Read(r, 1).backup} ELSE {}
ScanGpt(r) ==
    UNION {LET es == Read(r, a).crc
           IN  {p \in Ranges(es) : p[1] <= p[2] /\ p[2] < r.size} : a \in GptHeader(r)}

\* sort_pairs: by first sector.  Every range takes the place behind the ones
\* before it; two that start together, which the code leaves as it found them,
\* go by their last sector.
Before(p, q) == p[1] < q[1] \/ (p[1] = q[1] /\ p[2] < q[2])
Sorted(ps) ==
    [j \in 1 .. Cardinality(ps) |->
        CHOOSE p \in ps : Cardinality({q \in ps : Before(q, p)}) = j - 1]

\* disk_scan_partitions: the MBR's partitions, else the GPT's.
TakesMbr(r) == ~IsProtective(r) /\ ScanMbr(r) # <<>>
Scan(r) ==
    IF TakesMbr(r) THEN Sorted(Range(ScanMbr(r)))
    ELSE Sorted(ScanGpt(r))

------------------------------------------------------------------------------
(* Commands                                                                  *)

Command == op = Idle /\ used.commands < MaxCommands /\ used' = [used EXCEPT !.commands = @ + 1]
InUse(n) == \E m \in MountPoints : mounts[m] # NoMount /\ mounts[m].row.dev = n
MayRescan(n) == Careful => ~InUse(n)

Init ==
    /\ disk = Media
    /\ len = MediaSize
    /\ tag = [i \in Images |-> IF Format[i] = "raw" THEN 0 ELSE MediaSize[i]]
    /\ key = [k \in Disks |-> NoImage]
    /\ rows = [s \in Slots |-> Free]
    /\ mounts = [m \in MountPoints |-> NoMount]
    /\ op = Idle
    /\ kept = [i \in Images |-> {}]
    /\ scanned = [n \in Disks \union Targets |-> <<>>]
    /\ mbrDisks = {}
    /\ used = [commands |-> 0, faults |-> 0]

\* disk_scan_partitions begins: the rows of old partitions go first.  The
\* partitions it has found are registered one by one by RegisterChild.
StartScan(rs, n, found) ==
    /\ rows' = RemoveChildren(rs, n)
    /\ scanned' = [scanned EXCEPT ![n] = found]
    /\ mbrDisks' = IF TakesMbr(RowNamed(rs, n)) THEN mbrDisks \union {n} ELSE mbrDisks \ {n}
    /\ op' = [pc |-> "scan", name |-> n, found |-> found, nth |-> 1]

\* diskio_attach_image: opens the image and puts it in the place of the one
\* attached under that key, or into a new place.
CanAttach(k, i) ==
    /\ OpenSize(i) # 0
    /\ key[k] # NoImage \/ Cardinality(Attached) < MaxKeys

\* handle_use_attach: attach the image, register the device, scan it.  When
\* the registry is full the key is detached again, whatever it held before.
\* An image is attached under one key at a time (see Vdi).
Use(k, i) ==
    /\ Command
    /\ MayRescan(k)
    /\ \A d \in Attached \ {k} : key[d] # i
    /\ CanAttach(k, i)
    /\ IF CanRegister(rows, k)
       THEN /\ key' = [key EXCEPT ![k] = i]
            /\ rows' = Register(rows, [name |-> k, dev |-> k, start |-> 0, size |-> OpenSize(i)])
            /\ op' = [pc |-> "attached", name |-> k]
       ELSE /\ key' = [key EXCEPT ![k] = NoImage]
            /\ UNCHANGED <<rows, op>>
    /\ UNCHANGED <<host, mounts, kept, scanned, mbrDisks>>

\* add_disk: the device has its row, scan it.
AddDisk ==
    /\ op.pc = "attached"
    /\ StartScan(rows, op.name, Scan(RowNamed(rows, op.name)))
    /\ UNCHANGED <<host, key, mounts, kept, used>>

\* register_child.  A full registry drops the row with a message.
RegisterChild ==
    LET p == op.found[op.nth]
        parent == RowNamed(rows, op.name)
        child == [name |-> <<op.name[1], Append(op.name[2], op.nth)>>, dev |-> parent.dev,
                  start |-> p[1], size |-> p[2] - p[1] + 1]
    IN  /\ op.pc = "scan" /\ op.nth <= Len(op.found)
        /\ rows' = Register(rows, child)
        /\ scanned' = IF CanRegister(rows, child.name) THEN scanned
                      ELSE [scanned EXCEPT ![op.name] = SubSeq(@, 1, Min({Len(@), op.nth - 1}))]
        /\ op' = [op EXCEPT !.nth = @ + 1]
        /\ UNCHANGED <<host, key, mounts, kept, mbrDisks, used>>

EndScan ==
    /\ op.pc = "scan" /\ op.nth > Len(op.found)
    /\ op' = Idle
    /\ UNCHANGED <<host, key, rows, mounts, kept, scanned, mbrDisks, used>>

\* cmd_partscan: the parent must have a row.
Partscan(n) ==
    /\ Command
    /\ MayRescan(n)
    /\ SlotOf(rows, n) # {}
    /\ StartScan(rows, n, Scan(RowNamed(rows, n)))
    /\ UNCHANGED <<host, key, mounts, kept>>

------------------------------------------------------------------------------
(* gpt init and gpt add: a list of sector writes, then a rescan              *)

\* resolve_key_or_path gives the device behind a row, not the row.
WholeDisk(k) == [name |-> k, dev |-> k, start |-> 0, size |-> SizeOf(k)]
Put(a, s) == [lba |-> a, sector |-> s, must |-> TRUE]
TryPut(a, s) == [Put(a, s) EXCEPT !.must = FALSE]
Header(current, backup, entries, total, es) ==
    Body([kind |-> "header", current |-> current, backup |-> backup, entries |-> entries,
          first |-> 3, last |-> total - 3, crc |-> es])

\* Mutant: both arrays, then both headers.
MutWriteBoth(p, b, es) ==
    <<Put(p.entries, EntriesSector(es)), Put(b.entries, EntriesSector(es)),
      Put(p.current, Body([p EXCEPT !.crc = es])), Put(b.current, Body([b EXCEPT !.crc = es]))>>

\* gpt_write_primary and gpt_write_backup: the entries before the header.
WriteBoth(p, b, es) ==
    <<Put(p.entries, EntriesSector(es)), Put(p.current, Body([p EXCEPT !.crc = es])),
      Put(b.entries, EntriesSector(es)), Put(b.current, Body([b EXCEPT !.crc = es]))>>

\* gpt_cmd_init: clears both copies, whatever errors that gives, and writes new
\* ones.  The smallest disk it accepts has no room for a partition.
InitWrites(total) ==
    LET p == Header(1, total - 1, 2, total, NoEntries).body
        b == Header(total - 1, 1, total - 2, total, NoEntries).body
    IN  <<TryPut(2, Blank), TryPut(total - 2, Blank),
          TryPut(1, Blank), TryPut(total - 1, Blank),
          Put(0, Protective(total))>> \o WriteBoth(p, b, NoEntries)

GptInit(n) ==
    LET k == RowNamed(rows, n).dev
    IN  /\ Command
        /\ SlotOf(rows, n) # {}
        /\ MayRescan(n) /\ MayRescan(k)
        /\ SizeOf(k) >= 4
        /\ kept' = [kept EXCEPT ![key[k]] = {}]
        /\ op' = [pc |-> "write", cmd |-> "init", name |-> n, key |-> k,
                  todo |-> InitWrites(SizeOf(k)), old |-> {}, new |-> {}, clean |-> FALSE]
        /\ UNCHANGED <<host, key, rows, mounts, scanned, mbrDisks>>

\* parse_size_spec and gpt_cmd_add_opts: a position in sectors, in percent of
\* the usable span, or in bytes; 0s and 0% are taken for 0 bytes.
Span(h) == h.last - h.first + 1
StartLba(h, spec) ==
    LET a == CASE spec.n = 0 -> 0
               [] spec.unit = "s" -> spec.n
               [] spec.unit = "%" -> h.first + (Span(h) * spec.n) \div 100
               [] OTHER -> spec.n \div Sector
    IN  IF a < h.first THEN h.first ELSE a
EndLba(h, start, req) ==
    LET e == req.end
        z == req.size
        rest == IF start <= h.last THEN h.last - start + 1 ELSE 0
    IN  IF e.unit # "none"
        THEN CASE e.n = 0 -> 0
               [] e.unit = "s" -> e.n
               [] e.unit = "%" -> h.first + (Span(h) * e.n) \div 100
               [] OTHER -> IF e.n >= Sector THEN e.n \div Sector - 1 ELSE 0
        ELSE CASE z.n = 0 -> start
               [] z.unit = "s" -> start + z.n - 1
               [] z.unit = "%" -> start + (rest * z.n) \div 100 - 1
               [] OTHER -> start + (z.n + Sector - 1) \div Sector - 1
Requested(h, req) ==
    LET start == StartLba(h, req.start)
        end == EndLba(h, start, req)
    IN  <<start, IF end > h.last THEN h.last ELSE end>>

\* Mutant: start over when the primary array does not match.
MutAddBase(r) == IF EntriesMatch(r, 1) THEN Read(r, 1).crc ELSE NoEntries

\* gpt_add_by_range: the entries it starts from are the primary's, or the
\* backup's, which are not held against their checksum.
AddBase(r) ==
    LET h == Read(r, 1)
    IN  IF EntriesMatch(r, 1) THEN h.crc
        ELSE EntriesOf([body |-> Read(r, Read(r, h.backup).entries)])
CanAdd(r) == HeaderAt(r, 1) /\ HeaderAt(r, Read(r, 1).backup)
Clean(r) == ValidateAt(r, 1) /\ ValidateAt(r, Read(r, 1).backup)
            /\ Read(r, 1).crc = Read(r, Read(r, 1).backup).crc
Vacant(es) == {e \in DOMAIN es : es[e] = Empty}

GptAdd(n, req) ==
    LET k == RowNamed(rows, n).dev
        r == WholeDisk(k)
        p == Requested(Read(r, 1), req)
        es == AddBase(r)
        new == [es EXCEPT ![FirstOf(Vacant(es))] = p]
    IN  /\ Command
        /\ SlotOf(rows, n) # {}
        /\ MayRescan(n) /\ MayRescan(k)
        /\ CanAdd(r)
        /\ p[1] <= p[2]
        /\ \A q \in Ranges(es) : ~Overlap(p, q)
        /\ Vacant(es) # {}
        /\ op' = [pc |-> "write", cmd |-> "add", name |-> n, key |-> k,
                  todo |-> WriteBoth(Read(r, 1), Read(r, Read(r, 1).backup), new),
                  old |-> ScanGpt(r), new |-> Ranges(new), clean |-> Clean(r)]
        /\ UNCHANGED <<host, key, rows, mounts, kept, scanned, mbrDisks>>

\* pwrite_bytes
WriteSector ==
    /\ op.pc = "write" /\ op.todo # <<>>
    /\ disk' = [disk EXCEPT ![key[op.key]][Head(op.todo).lba] = Head(op.todo).sector]
    /\ op' = [op EXCEPT !.todo = Tail(@)]
    /\ UNCHANGED <<len, tag, key, rows, mounts, kept, scanned, mbrDisks, used>>

\* A failed write ends the command without a rescan, unless init is clearing.
WriteFails ==
    /\ op.pc = "write" /\ op.todo # <<>>
    /\ used.faults < MaxFaults
    /\ used' = [used EXCEPT !.faults = @ + 1]
    /\ op' = IF Head(op.todo).must THEN Idle ELSE [op EXCEPT !.todo = Tail(@)]
    /\ UNCHANGED <<host, key, rows, mounts, kept, scanned, mbrDisks>>

\* The last write is followed by block_rescan of the name the command was given.
Written ==
    /\ op.pc = "write" /\ op.cmd # "raw" /\ op.todo = <<>>
    /\ kept' = [kept EXCEPT ![key[op.key]] = op.new]
    /\ StartScan(rows, op.name, Scan(RowNamed(rows, op.name)))
    /\ UNCHANGED <<host, key, mounts, used>>

\* mbr_install: bytes 0 to 445 of the first sector of what vblk_open returns.
MbrInstall(n) ==
    LET r == VblkOpen(rows, n)
    IN  /\ Command
        /\ Opens(rows, n) # {}
        /\ Readable(r, 0)
        /\ disk' = [disk EXCEPT ![key[r.dev]][r.start].boot = TRUE]
        /\ UNCHANGED <<len, tag, key, rows, mounts, op, kept, scanned, mbrDisks>>

\* cmd_write: a host file that fits goes into the row, one buffer after another.
RawWrite(n, f) ==
    LET r == VblkOpen(rows, n)
    IN  /\ Command
        /\ Opens(rows, n) # {}
        /\ f.at <= r.size /\ f.len <= r.size - f.at
        /\ op' = [pc |-> "write", cmd |-> "raw", name |-> n, key |-> r.dev,
                  todo |-> [j \in 1 .. f.len |-> Put(r.start + f.at + j - 1, Data)],
                  old |-> {}, new |-> {}, clean |-> FALSE]
        /\ UNCHANGED <<host, key, rows, mounts, kept, scanned, mbrDisks>>

\* vblk_flush.  write does not scan again.
RawWritten ==
    /\ op.pc = "write" /\ op.cmd = "raw" /\ op.todo = <<>>
    /\ op' = Idle
    /\ UNCHANGED <<host, key, rows, mounts, kept, scanned, mbrDisks, used>>

------------------------------------------------------------------------------
(* create                                                                    *)

RawCreate == <<"data", "size">>
VhdCreate == <<"data", "size", "tag">>             \* the footer comes last
VmdkCreate == <<"untag", "tag", "data", "size">>   \* the descriptor comes first

\* vdisk_create_ex_uuid and the drivers: the file is truncated and given its
\* size.  --mbr then writes sector 0.
CreateSteps(i, mbr) ==
    (CASE Format[i] = "raw"  -> RawCreate
       [] Format[i] = "vhd"  -> VhdCreate
       [] Format[i] = "vmdk" -> VmdkCreate)
    \o (IF mbr THEN <<"mbr">> ELSE <<>>)

Create(i, n, mbr) ==
    /\ Command
    /\ \A d \in Attached : key[d] # i
    /\ kept' = [kept EXCEPT ![i] = {}]
    /\ op' = [pc |-> "create", image |-> i, size |-> n, todo |-> CreateSteps(i, mbr)]
    /\ UNCHANGED <<host, key, rows, mounts, scanned, mbrDisks>>

CreateStep ==
    LET i == op.image
        step == Head(op.todo)
    IN  /\ op.pc = "create"
        /\ len' = CASE step = "data" -> [len EXCEPT ![i] = 0]
                    [] step = "size" -> [len EXCEPT ![i] = op.size]
                    [] OTHER -> len
        /\ tag' = CASE step = "untag" \/ (step = "data" /\ Format[i] = "vhd")
                         -> [tag EXCEPT ![i] = 0]
                    [] step = "tag" -> [tag EXCEPT ![i] = op.size]
                    [] OTHER -> tag
        /\ disk' = CASE step = "data" -> [disk EXCEPT ![i] = [a \in DOMAIN @ |-> Blank]]
                     [] step = "mbr" -> [disk EXCEPT ![i][0] = Mbr(<<>>)]
                     [] OTHER -> disk
        /\ op' = IF Len(op.todo) = 1 THEN Idle ELSE [op EXCEPT !.todo = Tail(@)]
        /\ UNCHANGED <<key, rows, mounts, kept, scanned, mbrDisks, used>>

\* A step of create fails; what was done so far stays.
CreateFails ==
    /\ op.pc = "create"
    /\ used.faults < MaxFaults
    /\ used' = [used EXCEPT !.faults = @ + 1]
    /\ op' = Idle
    /\ UNCHANGED <<host, key, rows, mounts, kept, scanned, mbrDisks>>

------------------------------------------------------------------------------
(* mount                                                                     *)

\* vfs_mount_dev: a free mount point and room in the table.
CanMount(m) ==
    /\ mounts[m] = NoMount
    /\ Cardinality({x \in MountPoints : mounts[x] # NoMount}) < MaxMounts

\* ext2_mount keeps the pointer to the row.
Ext2Mount(n) == [slot |-> FirstOf(Opens(rows, n)), row |-> VblkOpen(rows, n)]

\* cmd_mount and autoprobe_fs.  Whether a driver accepts the row is left open.
\* There is no command to unmount.
Mount(n, m) ==
    /\ Command
    /\ Opens(rows, n) # {}
    /\ CanMount(m)
    /\ mounts' = [mounts EXCEPT ![m] = Ext2Mount(n)]
    /\ UNCHANGED <<host, key, rows, op, kept, scanned, mbrDisks>>

\* The process ends and is started anew: only the images stay.
Crash ==
    /\ used.faults < MaxFaults
    /\ op # Idle
    /\ used' = [used EXCEPT !.faults = @ + 1]
    /\ key' = [k \in Disks |-> NoImage]
    /\ rows' = [s \in Slots |-> Free]
    /\ mounts' = [m \in MountPoints |-> NoMount]
    /\ op' = Idle
    /\ scanned' = [n \in DOMAIN scanned |-> <<>>]
    /\ mbrDisks' = {}
    /\ UNCHANGED <<host, kept>>

Next ==
    \/ \E k \in Disks, i \in Images : Use(k, i)
    \/ AddDisk \/ RegisterChild \/ EndScan
    \/ \E n \in Targets : Partscan(n) \/ MbrInstall(n)
    \/ \E n \in Targets : GptInit(n)
    \/ \E n \in Targets, req \in Requests : GptAdd(n, req)
    \/ WriteSector \/ WriteFails \/ Written
    \/ \E i \in Images, n \in Sizes, mbr \in BOOLEAN : Create(i, n, mbr)
    \/ CreateStep \/ CreateFails
    \/ \E n \in Parts, f \in HostFiles : RawWrite(n, f)
    \/ RawWritten
    \/ \E n \in Targets \union Parts, m \in MountPoints : Mount(n, m)
    \/ Crash

Spec == Init /\ [][Next]_vars

------------------------------------------------------------------------------
(* Properties                                                                *)

\* While gpt add replaces a table whose two copies agree, a scan finds the old
\* table or the new one after every write: a crash or a failed write at any
\* point loses nothing (gpt_write_primary, gpt_write_backup, scan_gpt).
AddAtomic ==
    op.pc = "write" /\ op.cmd = "add" /\ op.clean
        => ScanGpt(WholeDisk(op.key)) \in {op.old, op.new}

\* Whatever number of adds was cut short, the entries gpt add starts from hold
\* every partition of the last add that was finished, inside the usable
\* sectors and without overlap.  It rests on the backup array being taken
\* without its checksum when the primary one does not match.
NothingLost ==
    \A k \in Attached :
        LET r == WholeDisk(k)
        IN  CanAdd(r) =>
              /\ kept[key[k]] \subseteq Ranges(AddBase(r))
              /\ \A p \in Ranges(AddBase(r)) :
                    /\ Read(r, 1).first <= p[1] /\ p[2] <= Read(r, 1).last
                    /\ \A q \in Ranges(AddBase(r)) : p # q => ~Overlap(p, q)

\* Between commands the registry holds, for every device scanned, exactly one
\* row per partition the last scan found and had room for, numbered by
\* position, all of them on an attached image.  They lie inside it, unless the
\* scan took them from an MBR: scan_gpt drops the entries that reach beyond the
\* end, scan_mbr and scan_ebr_chain register what is stated.  An old MBR may
\* well be longer than its disk: a create that stops behind the descriptor
\* leaves the sectors of the larger image that was there.
RowsExact ==
    op = Idle =>
        /\ \A s, t \in Slots : rows[s] # Free /\ rows[s].name = rows[t].name => s = t
        /\ \A s \in Slots : rows[s] # Free =>
              /\ rows[s].dev \in Attached
              /\ \/ rows[s].start + rows[s].size <= SizeOf(rows[s].dev)
                 \/ rows[s].name # rows[s].dev /\ rows[s].dev \in mbrDisks
        /\ \A k \in Disks :
              LET n == Len(scanned[k])
                  found == {<<rows[s].name[2], rows[s].start, rows[s].start + rows[s].size - 1>> :
                              s \in {x \in Slots : ChildOf(rows[x].name, k)}}
                  wanted == {<<Append(k[2], j), scanned[k][j][1], scanned[k][j][2]>> : j \in 1 .. n}
              IN  found = wanted

\* A mounted file system's row stays the row it was mounted with, as long as
\* the commands that rescan a disk are given for disks without mounts: use,
\* partscan and gpt on other disks neither move nor overwrite its slot.
MountStable ==
    \A m \in MountPoints : mounts[m] # NoMount => rows[mounts[m].slot] = mounts[m].row
==============================================================================
