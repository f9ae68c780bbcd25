------------------------------ MODULE Cleaning ------------------------------
(***************************************************************************)
(* clean.py: clean_markdown splits the text at its fenced code blocks and  *)
(* runs every other block through one chain of passes, each a rewriting of *)
(* the whole block.  A pass is an operator here; what the regular          *)
(* expressions do to the inside of an atom is left out.                    *)
(***************************************************************************)
EXTENDS TocCleaning

Spaces(n) == [i \in 1 .. n |-> SP]

\* The spaces a line begins with, and the rest of it.
Indent(line)  == Min(InkAt(line) \cup {Len(line) + 1}) - 1
Outdent(line) == SubSeq(line, Indent(line) + 1, Len(line))

StartsWith(line, atoms) == line # <<>> /\ Head(line) \in atoms

\* Apply a pass to every line of a text.
EachLine(text, Pass(_)) == FromLines(Map(Pass, Lines(text)))
-----------------------------------------------------------------------------
(* Fenced blocks.                                                           *)

OpensFence(line) == StartsWith(Outdent(line), Fences)

\* _is_fence_close_line: nothing but fence characters, and enough of them.
ClosesFence(line, fence) ==
    /\ Len(Strip(line)) = 1
    /\ StartsWith(Strip(line), Fences)
    /\ FenceChar[Head(Strip(line))] = FenceChar[fence]
    /\ FenceSize[Head(Strip(line))] >= FenceSize[fence]

\* _split_fenced_blocks: an unclosed fence runs to the end of the text.
FencedBlocks(text) ==
    LET lines == KeptLines(text)
        Block(fenced, i, k) == [fenced |-> fenced, text |-> FlattenSeq(SubSeq(lines, i, k))]
        CloseAt(i) == Min({k \in i + 1 .. Len(lines) :
                               ClosesFence(lines[k], Head(Outdent(lines[i])))} \cup {Len(lines)})
        OpenAt(i) == Min({k \in i .. Len(lines) : OpensFence(lines[k])} \cup {Len(lines) + 1})
        End(i) == IF OpensFence(lines[i]) THEN CloseAt(i) ELSE OpenAt(i) - 1
    IN  Scanned(Len(lines), [i \in DOMAIN lines |-> <<Block(OpensFence(lines[i]), i, End(i))>>],
                            [i \in DOMAIN lines |-> End(i) + 1])
-----------------------------------------------------------------------------
(* Pages.                                                                   *)

Pages(text) == WithInk(Split(text, FF))

\* The number of the first or last line of a page that is not blank.
EdgeAt(lines, first) ==
    LET ink == {i \in DOMAIN lines : ~IsBlank(lines[i])} IN IF first THEN Min(ink) ELSE Max(ink)

\* _page_edge_line: the line that may be a running header or footer.
EdgeLine(page, first) ==
    LET line == Strip(Lines(page)[EdgeAt(Lines(page), first)])
    IN  IF line = <<PageNumber>> \/ StartsWith(line, HeadingMark \cup {Bar} \cup Fences \cup ItemMarkers)
        THEN <<>> ELSE line

\* Mutation: a line on a single page counts as repeated.
RepeatedEdgeOnce(pages, first) ==
    LET elected == {i \in DOMAIN pages : EdgeLine(pages[i], first) # <<>>}
    IN  IF elected = {} THEN <<>> ELSE EdgeLine(pages[Min(elected)], first)

\* _select_repeated_edge: on half of the pages and on two at least.
RepeatedEdge(pages, first) ==
    LET Votes(line) == {i \in DOMAIN pages : EdgeLine(pages[i], first) = line}
        elected == {i \in DOMAIN pages :
                        /\ EdgeLine(pages[i], first) # <<>>
                        /\ Cardinality(Votes(EdgeLine(pages[i], first))) >= Max({2, (Len(pages) + 1) \div 2})}
    IN  IF elected = {} THEN <<>> ELSE EdgeLine(pages[Min(elected)], first)

\* _strip_page_edge for one of the two edges; <<>> is no edge.
WithoutEdge(page, edge, first) ==
    LET lines == Lines(page)
        at    == EdgeAt(lines, first)
    IN  IF edge = <<>> \/ IsBlank(page) \/ Strip(lines[at]) # edge THEN page
        ELSE FromLines([lines EXCEPT ![at] = <<>>])

\* page.strip("\n")
TrimLines(page) ==
    LET ink == {i \in DOMAIN page : page[i] # NL}
    IN  IF ink = {} THEN <<>> ELSE SubSeq(page, Min(ink), Max(ink))

\* _strip_repeated_headers_and_footers
PagesWithout(pages, header, footer) ==
    LET Bare(page) == WithoutEdge(WithoutEdge(page, header, TRUE), footer, FALSE)
    IN  WithInk(Map(Bare, pages))

StripPages(pages) ==
    Join(Map(TrimLines, PagesWithout(pages, RepeatedEdge(pages, TRUE), RepeatedEdge(pages, FALSE))),
         <<NL, NL>>)

HasEdges(pages) ==
    Len(pages) > 1 /\ \E first \in BOOLEAN : RepeatedEdge(pages, first) # <<>>

StripEdges(text) ==
    IF FF \in Range(text) /\ HasEdges(Pages(text)) THEN StripPages(Pages(text)) ELSE text

\* _normalize_page_breaks
BreakPages(text) == Join(Split(text, FF), <<NL, NL>>)

\* _strip_page_numbers: the line goes, with the blank lines around it.
StripPageNumbers(text) ==
    LET lines == Lines(text)
        IsNumber(i) == Strip(lines[i]) = <<PageNumber>>
        Gap(i, k) == \A m \in i .. k : IsBlank(lines[m]) \/ IsNumber(m)
        InGap(i) == \E k \in DOMAIN lines : IsNumber(k) /\ Gap(Min({i, k}), Max({i, k}))
        Gone(i) == i > 1 /\ InGap(i) /\ InGap(i - 1) /\ ~(IsNumber(i) /\ IsNumber(i - 1))
        bare == [i \in DOMAIN lines |-> IF InGap(i) THEN <<>> ELSE lines[i]]
    IN  FromLines(Without(bare, {i \in DOMAIN lines : Gone(i)}))
-----------------------------------------------------------------------------
(* Lines and words.                                                         *)

\* _normalize_whitespace, line ends: \r\n is one of them.  The passes before it
\* take \r for the blank at the end of a line, so it may as well come first.
UnixLines(text) == [i \in DOMAIN text |-> IF text[i] = CRLF THEN NL ELSE text[i]]

\* _normalize_whitespace, spaces: trailing ones go and a run becomes one space,
\* the indentation of a line included.
NormalizeSpaces(text) ==
    LET Next(i) == Min({k \in i .. Len(text) : text[k] # SP} \cup {Len(text) + 1})
        Trailing(i) == text[i] = SP /\ (Next(i) > Len(text) \/ text[Next(i)] = NL)
        Repeated(i) == i > 1 /\ text[i] = SP /\ text[i - 1] = SP
    IN  Without(text, {i \in DOMAIN text : Trailing(i) \/ Repeated(i)})

\* _normalize_dehyphenation: a word broken at a line end, blank lines or not.
Dehyphenate(text) ==
    LET Next(i) == Min({k \in i + 1 .. Len(text) : text[k] \notin {SP, NL}} \cup {Len(text) + 1})
        Broken(i) == /\ text[i] = HyphenWord
                     /\ Next(i) <= Len(text) /\ text[Next(i)] \in LowerCase
                     /\ \E k \in i + 1 .. Next(i) - 1 : text[k] = NL
        gone == UNION {i + 1 .. Next(i) - 1 : i \in {k \in DOMAIN text : Broken(k)}}
    IN  Without([i \in DOMAIN text |-> IF Broken(i) THEN JoinedWord ELSE text[i]], gone)

\* _fix_header_spacing: a blank line behind every line that ends in a heading.
SpaceHeadings(text) ==
    LET lines == Lines(text)
        Marked(i) == \E k \in 1 .. Len(lines[i]) - 1 : lines[i][k] \in HeadingMark
        Tight(i) == Marked(i) /\ i < Len(lines) /\ (lines[i + 1] # <<>> \/ i + 1 = Len(lines))
    IN  Join([i \in DOMAIN lines |-> IF Tight(i) THEN lines[i] \o <<NL>> ELSE lines[i]], <<NL>>)

\* _normalize_lists, the rules for one line in their order: bullet characters,
\* the two flattened PDF levels, MarkItDown's indentation, the other markers.
DotBullet(line) ==
    IF StartsWith(Outdent(line), {Dots}) THEN Spaces(Indent(line)) \o <<"-">> \o Tail(Outdent(line))
    ELSE line

PdfBullet(line) ==
    LET bare == IF StartsWith(line, {"-"}) THEN Tail(line) ELSE line
    IN  CASE StartsWith(bare, {Circle})  -> Spaces(2) \o <<"-">> \o Tail(bare)
          [] StartsWith(bare, {Section}) -> Spaces(4) \o <<"-">> \o Tail(bare)
          [] OTHER -> line

MarkItDownIndent(line) ==
    IF Indent(line) = 0 \/ ~StartsWith(Outdent(line), Bullets) THEN line
    ELSE LET depth == CASE Head(Outdent(line)) = "+" -> 2
                        [] Head(Outdent(line)) = "-" -> 3
                        [] Head(Outdent(line)) = "*" -> 4
         IN  Spaces(2 * depth) \o <<"-">> \o Tail(Outdent(line))

DashBullet(line) ==
    IF StartsWith(Outdent(line), {"*", "+"}) THEN Spaces(Indent(line)) \o <<"-">> \o Tail(Outdent(line))
    ELSE line

NormalizeLists(text) ==
    EachLine(text, LAMBDA line : DashBullet(MarkItDownIndent(PdfBullet(DotBullet(line)))))

IsListItem(line) == StartsWith(Outdent(line), ItemMarkers) /\ ~IsBlank(Tail(Outdent(line)))

\* _looks_like_block_boundary
IsBoundary(line) == StartsWith(Strip(line), HeadingMark \cup {Bar} \cup Fences) \/ IsSeparatorOnly(line)

\* _list_continuation_indent is not None: a line between two items, the lines
\* before it being `repaired`.
Continues(lines, repaired, i) ==
    LET before == {k \in DOMAIN repaired : ~IsBlank(repaired[k])}
        after  == {k \in i + 1 .. Len(lines) : ~IsBlank(lines[k])}
    IN  /\ ~IsListItem(lines[i]) /\ ~StartsWith(lines[i], {SP}) /\ ~IsBoundary(lines[i])
        /\ before # {} /\ after # {}
        /\ IsListItem(repaired[Max(before)])
        /\ IsListItem(lines[Min(after)])

LastItemIndent(repaired) == Indent(repaired[Max({k \in DOMAIN repaired : ~IsBlank(repaired[k])})])

\* _repair_list_continuations
RepairLists(text) ==
    LET lines == Lines(text)
        NextInk(i) == Min({k \in i + 1 .. Len(lines) : ~IsBlank(lines[k])} \cup {Len(lines) + 1})
        Dropped(repaired, i) ==
            /\ IsBlank(lines[i])
            /\ \E k \in DOMAIN repaired : ~IsBlank(repaired[k])
            /\ NextInk(i) <= Len(lines)
            /\ Continues(lines, repaired, NextInk(i))
        Repaired[i \in 0 .. Len(lines)] ==
            IF i = 0 THEN <<>>
            ELSE LET done == Repaired[i - 1]
                 IN  IF Dropped(done, i) THEN done
                     ELSE IF ~IsBlank(lines[i]) /\ Continues(lines, done, i)
                     THEN Append(done, Spaces(LastItemIndent(done) + 2) \o Strip(lines[i]))
                     ELSE Append(done, lines[i])
    IN  FromLines(Repaired[Len(lines)])

\* _clean_tables: the cells of a row lose the spaces around them.
CleanTables(text) ==
    EachLine(text, LAMBDA line :
        IF Bar \notin Range(line) THEN line
        ELSE Join(Map(Strip, Split(line, Bar)), <<Bar>>))

\* _collapse_blank_lines
CollapseBlanks(text) ==
    Without(text, {i \in DOMAIN text : i > 2 /\ \A k \in i - 2 .. i : text[k] = NL})
-----------------------------------------------------------------------------
\* The passes, in the order of clean_markdown.
CleanPages(text) == StripPageNumbers(BreakPages(StripEdges(UnixLines(text))))
CleanLines(text) == SpaceHeadings(Dehyphenate(NormalizeSpaces(text)))
CleanLists(text) == RepairLists(NormalizeLists(text))

\* Mutation: blank lines are collapsed before the other passes make new ones.
CleanProseCollapsedFirst(text) ==
    CleanTables(NormalizeToc(CleanLists(CleanLines(CollapseBlanks(CleanPages(text))))))

CleanProse(text) ==
    CollapseBlanks(CleanTables(NormalizeToc(CleanLists(CleanLines(CleanPages(text))))))

CleanBlock(block) == IF block.fenced THEN block.text ELSE CleanProse(block.text)

\* clean_markdown
CleanMarkdown(text) == Strip(FlatMap(CleanBlock, FencedBlocks(text))) \o <<NL>>
=============================================================================
