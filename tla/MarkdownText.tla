---------------------------- MODULE MarkdownText ----------------------------
(***************************************************************************)
(* Markdown as the cleaner and the chunker see it: a sequence of atoms.    *)
(* An atom is a stretch of text that no rule of theirs looks into: a word, *)
(* a list marker with its space, a heading mark with its space, a fence, a *)
(* table bar, a run of leader dots, a page number line, a single space, or *)
(* a line end.  Unicode normalisation is behind the choice of the atoms.   *)
(***************************************************************************)
EXTENDS Selection, SequencesExt, FiniteSets

NL == "NL"       \* \n
CRLF == "CRLF"   \* \r\n
FF == "FF"       \* \f, a page break
SP == "SP"       \* a space

LineEnds   == {NL, CRLF, FF}
Whitespace == {NL, CRLF, FF, SP}

LowerWords  == {"a", "b", "c"}
HyphenWord  == "hy-"             \* the first half of a word broken at a line end
JoinedWord  == "hy"              \* the same half once the break is undone
LowerCase   == LowerWords \cup {HyphenWord, JoinedWord, "o"}   \* atoms that begin in lower case
Words       == LowerWords \cup {"A", "Contents", "LONG", HyphenWord, JoinedWord}
Number      == "7"               \* a number, and so a page in a table of contents
PageWord    == "PAGE"            \* the words -- page in front of it
PageNumber  == "Page7"           \* a page number line
HeadingMark == {"#", "##"}
Level       == [m \in HeadingMark |-> IF m = "#" THEN 1 ELSE 2]
Bullets     == {"-", "*", "+"}   \* markers that Markdown has
ItemMarkers == Bullets \cup {"1."}
Dots        == "dots"            \* a bullet character that Markdown has not
Circle      == "o"               \* a second-level PDF bullet
Section     == "S"               \* a third-level PDF bullet
Bar         == "|"
Rule        == "---"             \* separator characters only
Leader      == "...."            \* leader dots between a title and its page
Stop        == "."               \* the end of a sentence
Fences      == {"tick3", "tick4", "tilde3"}   \* three or four backticks, three tildes
Atoms       == Whitespace \cup Words \cup ItemMarkers \cup HeadingMark \cup Fences
               \cup {Number, PageWord, PageNumber, Dots, Circle, Section, Bar, Rule, Leader, Stop}
Text        == Seq(Atoms)
FenceChar   == [f \in Fences |-> IF f = "tilde3" THEN "tilde" ELSE "tick"]
FenceSize   == [f \in Fences |-> IF f = "tick4" THEN 4 ELSE 3]

Map(Op(_), s)     == [i \in DOMAIN s |-> Op(s[i])]
FlatMap(Op(_), s) == FlattenSeq(Map(Op, s))

IsBlank(s) == Range(s) \subseteq Whitespace

\* The positions of s that are not whitespace.
InkAt(s) == {i \in DOMAIN s : s[i] \notin Whitespace}

\* s.strip()
Strip(s) == IF InkAt(s) = {} THEN <<>> ELSE SubSeq(s, Min(InkAt(s)), Max(InkAt(s)))

\* s.split(sep)
Split(s, sep) ==
    LET Cut(i) == Min({k \in i .. Len(s) : s[k] = sep} \cup {Len(s) + 1})
        starts == 1 .. Len(s) + 1
    IN  Scanned(Len(s) + 1, [i \in starts |-> <<SubSeq(s, i, Cut(i) - 1)>>],
                            [i \in starts |-> Cut(i) + 1])

\* sep.join(parts)
Join(parts, sep) ==
    FlattenSeq([i \in DOMAIN parts |-> IF i = 1 THEN parts[i] ELSE sep \o parts[i]])

Lines(s) == Split(s, NL)
FromLines(lines) == Join(lines, <<NL>>)

\* s.splitlines(keepends=True), which also ends a line at a page break.
KeptLines(s) ==
    LET End(i) == Min({k \in i .. Len(s) : s[k] \in LineEnds} \cup {Len(s)})
    IN  Scanned(Len(s), [i \in DOMAIN s |-> <<SubSeq(s, i, End(i))>>],
                        [i \in DOMAIN s |-> End(i) + 1])

\* s without the elements at the positions D.
Without(s, D) == Selected(s, DOMAIN s \ D)

\* The texts that are not blank.
WithInk(texts) == Selected(texts, {i \in DOMAIN texts : ~IsBlank(texts[i])})
=============================================================================
