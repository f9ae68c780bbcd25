------------------------------ MODULE Wording ------------------------------
(***************************************************************************)
(* What a document says, for the properties of the cleaning: its fenced    *)
(* code, its words, and the lines of it that the cleaning may take for     *)
(* running headers or for the header row of a table of contents.           *)
(***************************************************************************)
EXTENDS TocCleaning

\* The fenced lines of a text, fences included, as one scan of CommonMark finds them:
\* pairs <<from, to>> of line numbers.
CodeBlocks(lines) ==
    LET Mark(i)   == IF IsBlank(lines[i]) THEN "none" ELSE Head(Strip(lines[i]))
        Closes(f, i) == /\ Mark(i) \in Fences /\ Strip(lines[i]) = <<Mark(i)>>
                        /\ FenceChar[Mark(i)] = FenceChar[f] /\ FenceSize[Mark(i)] >= FenceSize[f]
        Open[i \in 0 .. Len(lines)] ==     \* the line whose fence is open behind line i, or 0
            IF i = 0 THEN 0
            ELSE IF Open[i - 1] = 0 THEN IF Mark(i) \in Fences THEN i ELSE 0
            ELSE IF Closes(Mark(Open[i - 1]), i) THEN 0 ELSE Open[i - 1]
    IN  {b \in (DOMAIN lines) \X (DOMAIN lines) :
            /\ b[1] <= b[2] /\ Open[b[1]] = b[1] /\ Open[b[1] - 1] = 0
            /\ \A m \in b[1] .. b[2] - 1 : Open[m] = b[1]
            /\ b[2] = Len(lines) \/ Open[b[2]] = 0}

Quotes(text, part) == \E i \in 0 .. Len(text) - Len(part) : SubSeq(text, i + 1, i + Len(part)) = part

\* The words of a text, one broken at a line end as the first half without its hyphen.
WordsOf(text) ==
    Map(LAMBDA x : IF x = HyphenWord THEN JoinedWord ELSE x,
        Selected(text, {i \in DOMAIN text : text[i] \in Words}))

\* s is t with some of its elements left out.
IsThinned(s, t) ==
    LET Found[k \in 0 .. Len(t)] ==       \* how much of s the first k of t have
            IF k = 0 THEN 0
            ELSE LET before == Found[k - 1]
                 IN  IF before < Len(s) /\ s[before + 1] = t[k] THEN before + 1 ELSE before
    IN  Found[Len(t)] = Len(s)

\* What of a line is more than its indentation, a list marker or a page number.
Noise == Whitespace \cup Bullets \cup {Dots, Circle, Section, PageNumber}
Gist(line) == Selected(line, {i \in DOMAIN line : line[i] \notin Noise})

\* Another line says the same: a running header or footer does, a line of its own does not.
Twin(lines, i) == \E k \in DOMAIN lines \ {i} : Strip(lines[k]) = Strip(lines[i])

\* The lines that can become the header row of a contents table, under a contents heading
\* and directly above a separator row: between them and the rule there are only lines that
\* the cleaning may have taken out (Faint), or halves of a row that was broken at hyphens.
ContentsHeaders(lines) ==
    LET Faint(i) == Gist(lines[i]) = <<>> \/ Twin(lines, i)
        IsRule(k) == Bar \in Range(Gist(lines[k])) /\ Range(Gist(lines[k])) \subseteq {Bar, Rule, Leader}
        Ends(i, k) == (\A m \in i + 1 .. k - 1 : Faint(m)) \/ Faint(i)
        Above(k) == {i \in 1 .. k - 1 :
                        \A m \in i .. k - 1 : Ends(m, k) \/ Last(Gist(lines[m])) = HyphenWord}
        Under(i) == \E h \in 1 .. i - 1 : IsTocHeading(Gist(lines[h]))
    IN  UNION {Above(k) : k \in {n \in DOMAIN lines :
                   IsRule(n) /\ \E i \in Above(n) : Bar \in Range(Gist(lines[i])) /\ Under(i)}}
=============================================================================
