------------------------------- MODULE Metadata -------------------------------
(***************************************************************************)
(* The texts of package metadata: how versions are ordered                 *)
(* (src/deb_version.c), how a Depends field is taken apart                 *)
(* (src/deb_dep.c), and how control files and Packages indexes are read    *)
(* (src/deb_control.c, parse_index of src/pkg_repo.c).                     *)
(*                                                                         *)
(* A version is a sequence of characters, because its order is decided     *)
(* character by character.  A Depends field is a sequence of tokens        *)
(* without its blanks: names, operators, versions and the punctuation that *)
(* the scanner counts.  A control file is a sequence of lines.  Texts are  *)
(* short enough for the buffers they are copied to.                        *)
(***************************************************************************)
EXTENDS Integers, Sequences, SequencesExt, FiniteSetsExt

CONSTANTS
    VersionTexts,  \* versions that are compared
    DependsLists,  \* lists of groups that are written out and read back
    ControlTexts,  \* files of lines
    DepMaxGroups,  \* DEB_DEP_MAX_GROUPS
    DepMaxAlts     \* DEB_DEP_MAX_ALTS

ASSUME DepLimits == DepMaxGroups \in Nat /\ DepMaxAlts \in Nat

VARIABLES
    asked,   \* what is to be read or compared
    answer   \* what came out
metaVars == <<asked, answer>>

Nothing == [kind |-> "none"]
MetadataInit == asked = Nothing /\ answer = Nothing

------------------------------------------------------------------------------
(* Versions                                                                  *)

Digits == {"0", "1", "2", "9"}
DigitValue == [d \in Digits |-> CASE d = "0" -> 0 [] d = "1" -> 1 [] d = "2" -> 2 [] OTHER -> 9]

\* order_char, with the end of the text as "".
Letters == [c \in {"a", "b"} |-> IF c = "a" THEN 97 ELSE 98]
Marks == [c \in {"+", "-", ".", ":"} |-> CASE c = "+" -> 43 [] c = "-" -> 45 [] c = "." -> 46 [] OTHER -> 58]
OrderChar(c) ==
    CASE c = "" -> 0
      [] c = "~" -> -1
      [] c \in Digits -> 48 + DigitValue[c]
      [] c \in DOMAIN Letters -> Letters[c]
      [] c \in DOMAIN Marks -> Marks[c] + 256

First(s) == IF s = << >> THEN "" ELSE Head(s)
Rest(s) == IF s = << >> THEN s ELSE Tail(s)
IsText(c) == c # "" /\ c \notin Digits

\* The part of verrevcmp that compares texts: it goes on while either version
\* shows a character that is no digit.
RECURSIVE SkipText(_, _)
SkipText(a, b) ==
    IF ~IsText(First(a)) /\ ~IsText(First(b)) THEN [sign |-> 0, a |-> a, b |-> b]
    ELSE LET oa == OrderChar(First(a))
             ob == OrderChar(First(b))
         IN  IF oa # ob THEN [sign |-> IF oa < ob THEN -1 ELSE 1, a |-> a, b |-> b]
             ELSE SkipText(Rest(a), Rest(b))

RECURSIVE SkipZeros(_)
SkipZeros(s) == IF First(s) = "0" THEN SkipZeros(Tail(s)) ELSE s
DigitsOf(s) ==
    LET others == {i \in DOMAIN s : s[i] \notin Digits}
    IN  SubSeq(s, 1, IF others = {} THEN Len(s) ELSE Min(others) - 1)

\* The part that compares numbers: the longer one is greater, then the first digit
\* that differs decides (strncmp).
CompareDigits(a, b) ==
    LET differ == {i \in DOMAIN a : a[i] # b[i]}
    IN  CASE Len(a) < Len(b) -> -1
          [] Len(a) > Len(b) -> 1
          [] Len(a) = Len(b) /\ differ = {} -> 0
          [] OTHER -> IF OrderChar(a[Min(differ)]) < OrderChar(b[Min(differ)]) THEN -1 ELSE 1

\* Mutant: leading zeros count as digits.
KeepZeros(s) == DigitsOf(s)

\* What of a number is compared.
NumberPart(s) == DigitsOf(SkipZeros(s))

RECURSIVE Verrevcmp(_, _)
Verrevcmp(a, b) ==
    IF a = << >> /\ b = << >> THEN 0
    ELSE LET t == SkipText(a, b)
             c == CompareDigits(NumberPart(t.a), NumberPart(t.b))
             After(s) == SubSeq(s, Len(DigitsOf(s)) + 1, Len(s))
         IN  IF t.sign # 0 THEN t.sign ELSE IF c # 0 THEN c ELSE Verrevcmp(After(t.a), After(t.b))

RECURSIVE Number(_)
Number(s) == IF s = << >> THEN 0 ELSE 10 * Number(Front(s)) + DigitValue[Last(s)]

\* parse_epoch: digits in front of the first colon.
Colons(s) == {i \in DOMAIN s : s[i] = ":"}
HasEpoch(s) == Colons(s) # {} /\ \A i \in 1 .. Min(Colons(s)) - 1 : s[i] \in Digits
ParseEpoch(s) == IF HasEpoch(s) THEN Number(SubSeq(s, 1, Min(Colons(s)) - 1)) ELSE 0
AfterEpoch(s) == IF HasEpoch(s) THEN SubSeq(s, Min(Colons(s)) + 1, Len(s)) ELSE s

\* deb_version_compare: a revision that is not there is "0".
Dashes(s) == {i \in DOMAIN s : s[i] = "-"}
Upstream(s) == IF Dashes(s) = {} THEN s ELSE SubSeq(s, 1, Max(Dashes(s)) - 1)
Revision(s) == IF Dashes(s) = {} THEN <<"0">> ELSE SubSeq(s, Max(Dashes(s)) + 1, Len(s))
Sign(n) == IF n < 0 THEN -1 ELSE IF n > 0 THEN 1 ELSE 0
VersionCompare(a, b) ==
    LET ar == AfterEpoch(a)
        br == AfterEpoch(b)
        epochs == Sign(ParseEpoch(a) - ParseEpoch(b))
        upstreams == Verrevcmp(Upstream(ar), Upstream(br))
    IN  CASE epochs # 0 -> epochs
          [] epochs = 0 /\ upstreams # 0 -> upstreams
          [] OTHER -> Verrevcmp(Revision(ar), Revision(br))

\* deb_version_satisfies
VersionSatisfies(have, op, want) ==
    LET c == VersionCompare(have, want)
    IN  \/ op = "" \/ want = << >>
        \/ op = "=" /\ c = 0
        \/ op \in {">=", ">>="} /\ c >= 0
        \/ op \in {"<=", "<<="} /\ c <= 0
        \/ op = ">>" /\ c > 0
        \/ op = "<<" /\ c < 0

------------------------------------------------------------------------------
(* Dependencies                                                              *)

\* The counters of deb_dep_parse.  A comma or bar inside of any of the brackets
\* separates nothing.
Outside == [par |-> 0, br |-> 0, profile |-> 0]
Bracket(d, c) ==
    CASE c = "(" -> [d EXCEPT !.par = @ + 1]
      [] c = ")" /\ d.par > 0 -> [d EXCEPT !.par = @ - 1]
      [] c = "[" -> [d EXCEPT !.br = @ + 1]
      [] c = "]" /\ d.br > 0 -> [d EXCEPT !.br = @ - 1]
      [] c = "<" /\ d.par = 0 -> [d EXCEPT !.profile = @ + 1]
      [] c = ">" /\ d.profile > 0 /\ d.par = 0 -> [d EXCEPT !.profile = @ - 1]
      [] OTHER -> d

\* The pieces of a text between separators outside of brackets.  The end counts as
\* a separator; what follows the last one that counts is dropped.
Pieces(text, sep) ==
    LET Take(st, c) ==
            LET d == Bracket(st.depth, c)
            IN  IF c = sep /\ d = Outside
                THEN [depth |-> d, piece |-> << >>, all |-> Append(st.all, st.piece)]
                ELSE [depth |-> d, piece |-> Append(st.piece, c), all |-> st.all]
    IN  FoldLeft(Take, [depth |-> Outside, piece |-> << >>, all |-> << >>], Append(text, sep)).all

\* parse_alt: a name, its architecture, a version in parentheses, restrictions.
Punctuation == {"(", ")", "[", "]", "<", ">", "|", ",", ":"}
BadAlt == [name |-> ""]
Drop(s, n) == SubSeq(s, n + 1, Len(s))
ParseAlt(piece) ==
    LET qualified == Len(piece) > 2 /\ piece[2] = ":"
        rest == Drop(piece, IF qualified THEN 3 ELSE 1)
        versioned == rest # << >> /\ Head(rest) = "("
        closing == {i \in DOMAIN rest : rest[i] = ")"}
    IN  IF piece = << >> \/ Head(piece) \in Punctuation \/ (versioned /\ closing = {}) THEN BadAlt
        ELSE [name |-> Head(piece),
              arch |-> IF qualified THEN piece[3] ELSE "",
              op |-> IF versioned THEN rest[2] ELSE "",
              version |-> IF versioned THEN rest[3] ELSE "",
              restrictions |-> IF versioned THEN Drop(rest, Min(closing)) ELSE rest]

\* The groups of a field.
GroupPieces(text) == Pieces(text, ",")

\* deb_dep_parse
ParseGroup(piece) == [i \in DOMAIN Pieces(piece, "|") |-> ParseAlt(Pieces(piece, "|")[i])]
DepParse(text) ==
    LET groups == [i \in DOMAIN GroupPieces(text) |-> ParseGroup(GroupPieces(text)[i])]
        bad == \/ Len(groups) > DepMaxGroups
               \/ \E i \in DOMAIN groups : Len(groups[i]) > DepMaxAlts \/ BadAlt \in ToSet(groups[i])
    IN  CASE text = << >> -> [ok |-> TRUE, groups |-> << >>]
          [] text # << >> /\ bad -> [ok |-> FALSE, groups |-> << >>]
          [] OTHER -> [ok |-> TRUE, groups |-> groups]

------------------------------------------------------------------------------
(* Control files                                                             *)

Fields == {"Package", "Version", "Depends"}
EmptyRecord == [f \in Fields |-> << >>]

\* One line of deb_control_parse: a folded line goes on with the field before it.
ControlLine(st, line) ==
    CASE line.kind = "folded" /\ st.current \in Fields ->
            [st EXCEPT !.rec[st.current] = Append(@, line.value)]
      [] line.kind = "folded" /\ st.current \notin Fields -> st
      [] line.kind = "field" /\ line.key \in Fields ->
            [rec |-> [st.rec EXCEPT ![line.key] = <<line.value>>], current |-> line.key]
      [] OTHER -> [st EXCEPT !.current = "none"]
Complete(rec) == rec["Package"] # << >> /\ rec["Version"] # << >>
ControlParse(lines) ==
    LET st == FoldLeft(ControlLine, [rec |-> EmptyRecord, current |-> "none"], lines)
    IN  [ok |-> Complete(st.rec), rec |-> st.rec]

\* append_entry: an entry of an index also names its file, and same_record keeps
\* the first of two that name the same.  The architecture is left out.
EmptyEntry == [f \in Fields \union {"Filename"} |-> << >>]
SameStanza(a, b) == \A f \in {"Package", "Version", "Filename"} : a[f] = b[f]
Repeated(all, rec) == \E i \in DOMAIN all : SameStanza(all[i], rec)
KeepEntry(all, rec) ==
    IF Complete(rec) /\ rec["Filename"] # << >> /\ ~Repeated(all, rec) THEN Append(all, rec) ELSE all

\* parse_index: a blank line ends a record, and folded lines are skipped.
IndexLine(st, line) ==
    CASE line.kind = "blank" -> [rec |-> EmptyEntry, all |-> KeepEntry(st.all, st.rec)]
      [] line.kind = "field" /\ line.key \in DOMAIN EmptyEntry ->
            [st EXCEPT !.rec[line.key] = <<line.value>>]
      [] OTHER -> st
Blank == [kind |-> "blank", key |-> "", value |-> ""]
ParseIndex(lines) ==
    FoldLeft(IndexLine, [rec |-> EmptyEntry, all |-> << >>], Append(lines, Blank)).all

------------------------------------------------------------------------------
(* Questions                                                                 *)

\* A list of groups, written as a Depends field.
Written(a) ==
    <<a.name>> \o (IF a.arch = "" THEN << >> ELSE <<":", a.arch>>)
               \o (IF a.op = "" THEN << >> ELSE <<"(", a.op, a.version, ")">>) \o a.restrictions
Joined(parts, sep) ==
    FoldLeft(LAMBDA t, p : IF t = << >> THEN p ELSE t \o <<sep>> \o p, << >>, parts)
WrittenList(groups) ==
    Joined([i \in DOMAIN groups |->
               Joined([j \in DOMAIN groups[i] |-> Written(groups[i][j])], "|")], ",")

CompareVersions(a, b) ==
    /\ asked' = [kind |-> "versions", a |-> a, b |-> b]
    /\ answer' = [kind |-> "versions", sign |-> VersionCompare(a, b),
                  met |-> {op \in {"", "=", ">=", "<=", ">>", "<<"} : VersionSatisfies(a, op, b)}]
ParseDepends(groups) ==
    /\ asked' = [kind |-> "depends", groups |-> groups]
    /\ answer' = [kind |-> "depends", parsed |-> DepParse(WrittenList(groups))]
ReadStanzas(lines) ==
    /\ asked' = [kind |-> "lines", lines |-> lines]
    /\ answer' = [kind |-> "lines", control |-> ControlParse(lines), index |-> ParseIndex(lines)]

MetadataNext ==
    /\ asked = Nothing
    /\ \/ \E a, b \in VersionTexts : CompareVersions(a, b)
       \/ \E groups \in DependsLists : ParseDepends(groups)
       \/ \E lines \in ControlTexts : ReadStanzas(lines)

------------------------------------------------------------------------------
(* Properties                                                                *)

\* The order Debian defines: an epoch, then two lists in which texts and numbers
\* alternate, compared part by part; a text that ends sorts before one that goes on
\* unless that goes on with "~".
RECURSIVE Parts(_)
Parts(s) ==
    IF s = << >> THEN << >>
    ELSE LET digits == {i \in DOMAIN s : s[i] \in Digits}
             k == IF digits = {} THEN Len(s) + 1 ELSE Min(digits)
             after == SubSeq(s, k, Len(s))
             n == DigitsOf(after)
         IN  <<SubSeq(s, 1, k - 1), Number(n)>> \o Parts(Drop(after, Len(n)))
RankOf(text, i) ==
    IF i > Len(text) THEN 0
    ELSE CASE text[i] = "~" -> -1 [] text[i] = "a" -> 1 [] text[i] = "b" -> 2
           [] text[i] = "+" -> 3 [] text[i] = "-" -> 4 [] text[i] = "." -> 5 [] OTHER -> 6
TextSign(a, b) ==
    LET differ == {i \in 1 .. Max({Len(a), Len(b)}) : RankOf(a, i) # RankOf(b, i)}
    IN  IF differ = {} THEN 0 ELSE Sign(RankOf(a, Min(differ)) - RankOf(b, Min(differ)))
PartSign(p, q, i) ==
    IF i % 2 = 1 THEN TextSign(IF i > Len(p) THEN << >> ELSE p[i], IF i > Len(q) THEN << >> ELSE q[i])
    ELSE Sign((IF i > Len(p) THEN 0 ELSE p[i]) - (IF i > Len(q) THEN 0 ELSE q[i]))
ListSign(p, q) ==
    LET differ == {i \in 1 .. Max({Len(p), Len(q)}) : PartSign(p, q, i) # 0}
    IN  IF differ = {} THEN 0 ELSE PartSign(p, q, Min(differ))
Ordered(a, b) ==
    LET signs == <<Sign(ParseEpoch(a) - ParseEpoch(b)),
                   ListSign(Parts(Upstream(AfterEpoch(a))), Parts(Upstream(AfterEpoch(b)))),
                   ListSign(Parts(Revision(AfterEpoch(a))), Parts(Revision(AfterEpoch(b))))>>
        differ == {i \in 1 .. 3 : signs[i] # 0}
    IN  IF differ = {} THEN 0 ELSE signs[Min(differ)]

\* deb_version_compare orders versions as Debian does, leading zeros, tildes and
\* missing parts included, and is antisymmetric; the relations that
\* deb_version_satisfies accepts are the ones of that order.
VersionAgrees ==
    answer.kind = "versions" =>
        LET s == Ordered(asked.a, asked.b)
        IN  /\ answer.sign = s
            /\ VersionCompare(asked.b, asked.a) = -s
            /\ asked.b # << >> =>
                  answer.met = {""} \union CASE s = 0 -> {"=", ">=", "<="}
                                            [] s > 0 -> {">=", ">>"}
                                            [] OTHER -> {"<=", "<<"}

\* What is written as a Depends field is read back as the same groups and
\* alternatives, whatever brackets they have, or refused for its size.
DependsParsed ==
    answer.kind = "depends" =>
        IF Len(asked.groups) > DepMaxGroups
           \/ \E i \in DOMAIN asked.groups : Len(asked.groups[i]) > DepMaxAlts
        THEN ~answer.parsed.ok
        ELSE answer.parsed = [ok |-> TRUE, groups |-> asked.groups]

\* One stanza is an entry of an index exactly when it is a control file that
\* deb_control_parse takes and names a file, and says the same in both, up to
\* folded lines.  Of several stanzas each is read as if it were alone, and only
\* the first of those that name the same package, version and file counts.
States(lines, f) == \E i \in DOMAIN lines : lines[i].kind = "field" /\ lines[i].key = f
StanzasParsed ==
    answer.kind = "lines" =>
        LET lines == asked.lines
            control == answer.control
            index == answer.index
        IN  /\ Blank \notin ToSet(lines) =>
                  /\ Len(index) = IF control.ok /\ States(lines, "Filename") THEN 1 ELSE 0
                  /\ index # << >> =>
                        \A f \in Fields : Head(control.rec[f] \o <<"">>) = Head(index[1][f] \o <<"">>)
            /\ \A i \in DOMAIN lines : lines[i] = Blank =>
                  LET front == ParseIndex(SubSeq(lines, 1, i - 1))
                      new(e) == ~Repeated(front, e)
                  IN  index = front \o SelectSeq(ParseIndex(Drop(lines, i)), new)

\* The versions, relationships and stanzas that the planner works on are the ones
\* the repository states: deb_version.c, deb_dep.c and parse_index together.
MetadataExact == VersionAgrees /\ DependsParsed /\ StanzasParsed
==============================================================================
