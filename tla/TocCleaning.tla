---------------------------- MODULE TocCleaning -----------------------------
(***************************************************************************)
(* _clean_toc.py: under a Contents heading, title-and-page lines get one *)
(* form, tables of such lines become lines, and separators go.             *)
(***************************************************************************)
EXTENDS MarkdownText

\* is_separator_only_line
IsSeparatorOnly(line) == Strip(line) # <<>> /\ Range(Strip(line)) \subseteq {Rule, Leader, SP}

IsHeading(line) ==
    /\ Strip(line) # <<>> /\ Head(Strip(line)) \in HeadingMark
    /\ ~IsBlank(Tail(Strip(line)))

\* _is_toc_heading_line: the heading mark, if there is one, does not count.
IsTocHeading(line) ==
    Strip(line) \in {<<"Contents">>} \cup {<<m, "Contents">> : m \in HeadingMark}

\* _TOC_LEADER_RE.search
HasLeader(line) == Leader \in Range(line)

\* s without the characters `edge' at its ends.
Trim(s, edge) ==
    LET inner == {i \in DOMAIN s : s[i] \notin edge}
    IN  IF inner = {} THEN <<>> ELSE SubSeq(s, Min(inner), Max(inner))

OneSpace(s) == Without(s, {i \in DOMAIN s : i > 1 /\ s[i] = SP /\ s[i - 1] = SP})

\* _clean_toc_fragment: leaders become spaces, and the bars around it go.
TocFragment(line) == Trim(OneSpace(Map(LAMBDA x : IF x = Leader THEN SP ELSE x, line)), {SP, Bar})

\* A title without the characters that may surround it.
Title(s) == Trim(s, {SP, Rule, "-"})

Entry(title, page) == title \o <<SP, PageWord, page>>

\* _looks_like_toc_line
LooksLikeToc(line) ==
    LET s    == Strip(line)
        body == IF s # <<>> /\ Head(s) \in Bullets THEN Tail(s) ELSE s
    IN  \/ Bar \in Range(s)
        \/ IsSeparatorOnly(s)
        \/ HasLeader(s)
        \/ Len(body) > 2 /\ body[1] = Number /\ body[2] = SP

\* _find_toc_region_end: before the first entry any short line belongs to the
\* region, after it only entries and blank lines do.
TocRegionEnd(lines, start) ==
    LET SawEntry(i) == \E k \in start .. i - 1 : ~IsBlank(lines[k]) /\ LooksLikeToc(lines[k])
        Ends(i) ==
            \/ i = Len(lines) + 1
            \/ IsHeading(lines[i]) /\ ~IsTocHeading(lines[i])
            \/ /\ ~IsBlank(lines[i]) /\ ~LooksLikeToc(lines[i])
               /\ SawEntry(i) \/ "LONG" \in Range(lines[i])
    IN  Min({i \in start .. Len(lines) + 1 : Ends(i)})

\* _split_markdown_table_row: the bars at its ends begin no cell.
WithoutEmptyEnds(cells) ==
    SubSeq(cells, IF Head(cells) = <<>> THEN 2 ELSE 1,
                  IF Len(cells) > 1 /\ Last(cells) = <<>> THEN Len(cells) - 1 ELSE Len(cells))

Cells(line) == WithoutEmptyEnds(Map(Strip, Split(line, Bar)))

IsSeparatorRow(cells) == \A i \in DOMAIN cells : Range(cells[i]) \subseteq {Rule, Leader, SP}

\* _toc_entry_from_cells: the last cell that is a page is the page; the other
\* cells are the title, and without a title there is no entry.
TocEntry(cells) ==
    LET IsText(cell) == cell # <<>> /\ ~IsSeparatorOnly(cell)
        Made(title, page) == IF title = <<>> \/ page = {} THEN title ELSE Entry(title, Number)
        Rest(clean, page) == Without(clean, page \cup {i \in DOMAIN clean : ~IsText(clean[i])})
        From(clean, page) == Made(Title(Join(Rest(clean, page), <<SP>>)), page)
        Page(clean) == {i \in DOMAIN clean : clean[i] = <<Number>>
                                              /\ \A k \in i + 1 .. Len(clean) : clean[k] # <<Number>>}
        Of(clean) == From(clean, Page(clean))
    IN  Of(Map(TocFragment, cells))

\* The entries of the rows of a table for which Skip is not true; without one the
\* table stays.
TableEntries(block, rows, Skip(_, _)) ==
    LET entries == [i \in DOMAIN rows |-> IF Skip(rows, i) THEN <<>> ELSE TocEntry(rows[i])]
        OrBlock(kept) == IF kept = <<>> THEN block ELSE kept
    IN  OrBlock(Without(entries, {i \in DOMAIN entries : entries[i] = <<>>}))

\* _normalize_toc_table_block: a header row and the separator below it go.
TocTable(block) ==
    LET IsHeader(rows, i) == i = 1 /\ Len(rows) > 1 /\ IsSeparatorRow(rows[2])
    IN  TableEntries(block, Map(Cells, block),
                     LAMBDA rows, i : IsSeparatorRow(rows[i]) \/ IsHeader(rows, i))

\* _normalize_toc_line, as the lines that stand for it; `cleaned' is its fragment.
LeaderLine(cleaned) ==
    LET HasPage == Len(cleaned) > 2 /\ Last(cleaned) = Number /\ cleaned[Len(cleaned) - 1] = SP
        Paged(title) == IF title = <<>> THEN Title(cleaned) ELSE Entry(title, Number)
    IN  IF cleaned = <<>> THEN <<>>
        ELSE IF HasPage THEN <<Paged(Title(SubSeq(cleaned, 1, Len(cleaned) - 2)))>>
        ELSE <<Title(cleaned)>>

TocLine(line) ==
    IF IsBlank(line) THEN <<line>>
    ELSE IF IsSeparatorOnly(line) THEN <<>>
    ELSE IF HasLeader(line) THEN LeaderLine(TocFragment(Strip(line)))
    ELSE <<line>>

\* _normalize_toc_region: rows with bars that follow one another are one table.
TocRegion(lines) ==
    LET HasBar(i) == Bar \in Range(lines[i])
        BlockEnd(i) == Min({k \in i .. Len(lines) : ~HasBar(k)} \cup {Len(lines) + 1})
        Cleaned(i) == IF HasBar(i) THEN TocTable(SubSeq(lines, i, BlockEnd(i) - 1)) ELSE TocLine(lines[i])
    IN  Scanned(Len(lines), [i \in DOMAIN lines |-> Cleaned(i)],
                            [i \in DOMAIN lines |-> IF HasBar(i) THEN BlockEnd(i) ELSE i + 1])

\* normalize_toc_blocks
NormalizeTocLines(lines) ==
    LET End(i) == IF IsTocHeading(lines[i]) THEN TocRegionEnd(lines, i + 1) ELSE i + 1
        Cleaned(i) == <<lines[i]>> \o TocRegion(SubSeq(lines, i + 1, End(i) - 1))
    IN  Scanned(Len(lines), [i \in DOMAIN lines |-> Cleaned(i)], [i \in DOMAIN lines |-> End(i)])

NormalizeToc(text) == FromLines(NormalizeTocLines(Lines(text)))
=============================================================================
