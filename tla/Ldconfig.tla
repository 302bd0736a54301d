------------------------------- MODULE Ldconfig -------------------------------
(***************************************************************************)
(* The dynamic linker cache that `pkg ldconfig`, and the ldconfig trigger, *)
(* write into an offline target, and `pkg ldconfig-cache` reads back       *)
(* (src/pkg_ldconfig.c).                                                   *)
(*                                                                         *)
(* Abstractions.                                                           *)
(*  - A soname is a sequence of characters, because the order of the cache *)
(*    is decided character by character.  A path is its number in the      *)
(*    order of strcmp, and has PathLength bytes.                           *)
(*  - An ELF file has the soname its dynamic section leads to, or defects: *)
(*    what elf_soname stumbles over.                                       *)
(*  - vfs_read gives at most ReadLimit bytes of a file (the twelve direct  *)
(*    blocks of the EXT2 driver).                                          *)
(***************************************************************************)
EXTENDS Integers, Sequences, SequencesExt, FiniteSetsExt

CONSTANTS
    Targets,       \* trees to choose from: directories, configuration files
    StandardDirs,  \* the six directories of pkg_ldconfig_run
    MainConf,      \* /etc/ld.so.conf
    ReadLimit,     \* see above
    CacheHeader,    \* CACHE_HEADER_SIZE
    EntrySize,     \* CACHE_ENTRY_SIZE
    PathLength     \* strlen of a path

ASSUME CacheSizes == {ReadLimit, CacheHeader, EntrySize, PathLength} \subseteq Nat

VARIABLES
    target,   \* the tree below the root
    cache,    \* /etc/ld.so.cache
    shown     \* what the last ldconfig-cache printed
ldVars == <<target, cache, shown>>

NoCache == [size |-> 0, header |-> "none", nlibs |-> 0, lenStrings |-> 0,
            table |-> << >>, strings |-> << >>]
NotShown == [ok |-> FALSE, entries |-> << >>]

LdconfigInit ==
    /\ target \in Targets
    /\ cache = NoCache
    /\ shown = NotShown

------------------------------------------------------------------------------
(* Order                                                                     *)

DigitChars == {"0", "1", "2"}
ValueOf == [d \in DigitChars |-> CASE d = "0" -> 0 [] d = "1" -> 1 [] OTHER -> 2]
CharCode(c) == CASE c = "." -> 46 [] c = "a" -> 97 [] OTHER -> 98

\* The number a soname begins with, and what is behind it.
Run(s) == LET others == {i \in DOMAIN s : s[i] \notin DigitChars}
          IN  IF others = {} THEN Len(s) ELSE Min(others) - 1
RunValue(s) == FoldLeft(LAMBDA v, d : 10 * v + ValueOf[d], 0, SubSeq(s, 1, Run(s)))
AfterRun(s) == SubSeq(s, Run(s) + 1, Len(s))

\* Mutant: digits are compared as characters.
LibCmpPlain(p1, p2) ==
    LET Code(s, i) == IF i > Len(s) THEN 0
                      ELSE IF s[i] \in DigitChars THEN 48 + ValueOf[s[i]] ELSE CharCode(s[i])
        differ == {i \in 1 .. Len(p1) + Len(p2) : Code(p1, i) # Code(p2, i)}
    IN  IF differ = {} THEN 0 ELSE Code(p1, Min(differ)) - Code(p2, Min(differ))

\* cache_libcmp: numbers by value, and behind any other character.
RECURSIVE CacheLibCmp(_, _)
CacheLibCmp(p1, p2) ==
    LET d1 == p1 # << >> /\ Head(p1) \in DigitChars
        d2 == p2 # << >> /\ Head(p2) \in DigitChars
        v == RunValue(p1) - RunValue(p2)
    IN  CASE p1 = << >> -> IF p2 = << >> THEN 0 ELSE -1
          [] d1 /\ d2 -> IF v # 0 THEN v ELSE CacheLibCmp(AfterRun(p1), AfterRun(p2))
          [] d1 /\ ~d2 -> 1
          [] p1 # << >> /\ ~d1 /\ d2 -> -1
          [] p1 # << >> /\ ~d1 /\ p2 = << >> -> 1
          [] OTHER -> IF Head(p1) # Head(p2) THEN CharCode(Head(p1)) - CharCode(Head(p2))
                      ELSE CacheLibCmp(Tail(p1), Tail(p2))
LibOrder(p1, p2) == CacheLibCmp(p1, p2)

\* ent_cmp: backwards, then by path; all entries have the same flags.
EntCmp(a, b) ==
    LET r == LibOrder(b.soname, a.soname) IN IF r # 0 THEN r ELSE a.path - b.path

------------------------------------------------------------------------------
(* Scanning                                                                  *)

\* read_file: all of it, or nothing.
ReadFile(size) == size <= ReadLimit

\* elf_soname
HasSoname(f) == f.defects = {}

\* add_entry: the first file with a soname stays.
AddEntry(ents, soname, path) ==
    IF \E i \in DOMAIN ents : ents[i].soname = soname THEN ents
    ELSE Append(ents, [soname |-> soname, path |-> path])

\* scan_dir: a directory that is not there has nothing.
Candidate(f) == f.dso /\ ReadFile(f.size) /\ HasSoname(f)
ScanDir(ents, dir) ==
    IF dir \notin DOMAIN target.dirs THEN ents
    ELSE FoldLeft(LAMBDA es, f : IF Candidate(f) THEN AddEntry(es, f.soname, f.path) ELSE es,
                  ents, target.dirs[dir])

\* scan_conf_file and scan_include: an include names the files its pattern matches;
\* a file that cannot be read has no lines, a line that is not understood ends all.
Failed == <<[soname |-> << >>, path |-> 0]>>
RECURSIVE ScanConfFile(_, _)
ConfLine(ents, line) ==
    CASE ents = Failed \/ line.kind = "comment" -> ents
      [] ents # Failed /\ line.kind = "dir" -> ScanDir(ents, line.dir)
      [] ents # Failed /\ line.kind = "include" -> FoldLeft(ScanConfFile, ents, line.files)
      [] OTHER -> Failed
ScanConfFile(ents, conf) ==
    IF ents = Failed \/ conf \notin DOMAIN target.confs \/ ~ReadFile(target.confs[conf].size) THEN ents
    ELSE FoldLeft(ConfLine, ents, target.confs[conf].lines)

Scanned == ScanConfFile(FoldLeft(ScanDir, << >>, StandardDirs), MainConf)

------------------------------------------------------------------------------
(* The file                                                                  *)

\* build_cache: the strings follow the table, soname and path of each entry in turn.
Bytes(e) == Len(e.soname) + 1 + PathLength + 1
KeyOffset(es, i) ==
    CacheHeader + Len(es) * EntrySize + FoldLeft(LAMBDA n, e : n + Bytes(e), 0, SubSeq(es, 1, i - 1))
ValueOffset(es, i) == KeyOffset(es, i) + Len(es[i].soname) + 1
StringTable(es) ==
    LET keys == {<<KeyOffset(es, i), es[i].soname>> : i \in DOMAIN es}
        values == {<<ValueOffset(es, i), es[i].path>> : i \in DOMAIN es}
        all == keys \union values
    IN  [k \in {p[1] : p \in all} |-> (CHOOSE p \in all : p[1] = k)[2]]
BuildCache(ents) ==
    LET es == SortSeq(ents, LAMBDA a, b : EntCmp(a, b) < 0)
        strings == FoldLeft(LAMBDA n, e : n + Bytes(e), 0, es)
    IN  [size |-> CacheHeader + Len(es) * EntrySize + strings, header |-> "1.1",
         nlibs |-> Len(es), lenStrings |-> strings,
         table |-> [i \in DOMAIN es |-> [key |-> KeyOffset(es, i), value |-> ValueOffset(es, i)]],
         strings |-> StringTable(es)]

\* pkg_ldconfig_run.  The old cache is emptied when the file is opened.
LdconfigRun ==
    /\ Scanned # Failed
    /\ cache' = BuildCache(Scanned)
    /\ UNCHANGED <<target, shown>>
WriteFails ==
    /\ Scanned # Failed
    /\ cache' = [NoCache EXCEPT !.header = "empty"]
    /\ UNCHANGED <<target, shown>>

\* cache_string_at
StringAt(off) == off \in DOMAIN cache.strings

\* pkg_ldconfig_print_cache checks every bound before it prints.
EntriesEnd == CacheHeader + cache.nlibs * EntrySize
StringsEnd == EntriesEnd + cache.lenStrings
EntrySound(e) ==
    /\ EntriesEnd <= e.key /\ e.key < StringsEnd /\ StringAt(e.key)
    /\ EntriesEnd <= e.value /\ e.value < StringsEnd /\ StringAt(e.value)
CacheSound ==
    /\ ReadFile(cache.size)
    /\ cache.header = "1.1"
    /\ StringsEnd <= cache.size
    /\ \A i \in DOMAIN cache.table : EntrySound(cache.table[i])
PrintCache ==
    /\ cache # NoCache
    /\ shown' = IF ~CacheSound THEN NotShown
                ELSE [ok |-> TRUE,
                      entries |-> [i \in DOMAIN cache.table |->
                                      [soname |-> cache.strings[cache.table[i].key],
                                       path |-> cache.strings[cache.table[i].value]]]]
    /\ UNCHANGED <<target, cache>>

LdconfigNext == LdconfigRun \/ WriteFails \/ PrintCache

------------------------------------------------------------------------------
(* Properties                                                                *)

\* How the dynamic linker looks a name up: it halves the table, in the order of the
\* cache, and takes what it meets.
RECURSIVE Search(_, _, _)
Search(want, left, right) ==
    LET mid == (left + right) \div 2
        c == CacheLibCmp(want, cache.strings[cache.table[mid].key])
    IN  IF left > right THEN 0
        ELSE IF c = 0 THEN mid
        ELSE IF c < 0 THEN Search(want, mid + 1, right) ELSE Search(want, left, mid - 1)

\* Every shared object that the scan could read is found in the cache by the
\* linker's search, whatever the numbers in the names are and wherever the
\* configuration lists its directory, with the path of the first directory that
\* has the name; and what ldconfig-cache reads back is what was scanned.
CacheFound ==
    /\ cache.header = "1.1" =>
          \A i \in DOMAIN Scanned :
             LET k == Search(Scanned[i].soname, 1, cache.nlibs)
             IN  /\ k # 0
                 /\ cache.strings[cache.table[k].key] = Scanned[i].soname =>
                       cache.strings[cache.table[k].value] = Scanned[i].path
    /\ shown.ok => ToSet(shown.entries) = ToSet(Scanned) /\ Len(shown.entries) = Len(Scanned)
==============================================================================
