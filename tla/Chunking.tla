------------------------------ MODULE Chunking ------------------------------
(***************************************************************************)
(* chunk.py: cleaned Markdown is cut at headings, every section is split   *)
(* at the coarsest separator that makes the pieces small enough, the       *)
(* pieces are packed up to the target size, and what is then still too     *)
(* large is cut into token windows.                                        *)
(*                                                                         *)
(* An offset counts atoms.  tiktoken is external: it is stood for by the   *)
(* greedy tokeniser of a vocabulary, with which the count of a text may be *)
(* more or less than the sum over its parts and may fall as it grows.      *)
(***************************************************************************)
EXTENDS MarkdownText

CONSTANTS
    Vocabulary,     \* the atom sequences that are one token; any single atom is
    ChunkSize,      \* chunk_size_tokens
    MaxChunk,       \* max_chunk_tokens
    MinRecommended  \* MIN_RECOMMENDED_CHUNK_TOKENS

\* __post_init__ of ChunkingConfig.
ASSUME ChunkingAssumption ==
    /\ ChunkSize \in Nat \ {0} /\ MaxChunk \in Nat /\ ChunkSize <= MaxChunk
    /\ MinRecommended \in Nat
    /\ \A token \in Vocabulary : token \in Seq(Range(token)) /\ Len(token) > 1

\* encode: at every place the longest token.
Encoded(text) ==
    LET Matches(i) == {token \in Vocabulary : i + Len(token) - 1 <= Len(text)
                                              /\ SubSeq(text, i, i + Len(token) - 1) = token}
        Longest(i) == Max({1} \cup {Len(token) : token \in Matches(i)})
    IN  Scanned(Len(text), [i \in DOMAIN text |-> <<SubSeq(text, i, i + Longest(i) - 1)>>],
                           [i \in DOMAIN text |-> i + Longest(i)])

\* count_tokens
Tokens(text) == Len(Encoded(text))

\* A _Span: text between two offsets of a source; `end` is exclusive.
Span(text, start) == [text |-> text, start |-> start, end |-> start + Len(text)]
Part(span, i, k)  == Span(SubSeq(span.text, i, k), span.start + i - 1)
Slice(source, start, end) == SubSeq(source, start + 1, end)
-----------------------------------------------------------------------------
(* Sections.                                                                *)

\* The line starts with one of the marks, behind at most three spaces.
MarkedBy(line, marks) ==
    ~IsBlank(line) /\ Min(InkAt(line)) <= 4 /\ line[Min(InkAt(line))] \in marks

\* The fence that is open behind a line, given the one open before it: any fence
\* of its kind that is long enough closes it, whatever follows on the line.
FenceAfter(open, line) ==
    IF ~MarkedBy(line, Fences) THEN open
    ELSE LET fence == Head(Strip(line))
         IN  IF open = "none" THEN fence
             ELSE IF FenceChar[fence] = FenceChar[open] /\ FenceSize[fence] >= FenceSize[open]
             THEN "none" ELSE open

OpenFence(lines, i) ==
    LET Open[k \in 0 .. i - 1] == IF k = 0 THEN "none" ELSE FenceAfter(Open[k - 1], lines[k])
    IN  Open[i - 1]

OffsetOf(lines, i) == Len(FlattenSeq(SubSeq(lines, 1, i - 1)))

\* The ATX headings outside of fences: level, title and offset of each.
Headings(text) ==
    LET lines == KeptLines(text)
        At(i) == Min(InkAt(lines[i]))
        IsAtx(i) ==
            /\ MarkedBy(lines[i], HeadingMark)
            /\ ~IsBlank(SubSeq(lines[i], At(i) + 1, Len(lines[i])))
            /\ OpenFence(lines, i) = "none"
        Heading(i) == [level |-> Level[lines[i][At(i)]],
                       title |-> Strip(SubSeq(lines[i], At(i) + 1, Len(lines[i]))),
                       offset |-> OffsetOf(lines, i) + At(i) - 1]
        found == Selected([i \in DOMAIN lines |-> i], {i \in DOMAIN lines : IsAtx(i)})
    IN  Map(Heading, found)

\* _build_section_path_states: a heading replaces the path from its level on.
SectionStates(text) ==
    LET headings == Headings(text)
        Path[n \in 0 .. Len(headings)] ==
            IF n = 0 THEN <<>>
            ELSE LET above == Path[n - 1]
                     kept  == Min({Len(above), headings[n].level - 1})
                 IN  Append(SubSeq(above, 1, kept), headings[n].title)
    IN  [n \in DOMAIN headings |-> [offset |-> headings[n].offset, path |-> Path[n]]]

\* path_for
PathFor(states, offset) ==
    LET before == {n \in DOMAIN states : states[n].offset <= offset}
    IN  IF before = {} THEN <<>> ELSE states[Max(before)].path

\* _split_on_section_boundaries; the states are in the order of their offsets.
Sections(text, states) ==
    LET inside  == Selected(states, {n \in DOMAIN states : states[n].offset > 0})
        ordered == <<0>> \o [n \in DOMAIN inside |-> inside[n].offset]
        End(n) == IF n = Len(ordered) THEN Len(text) ELSE ordered[n + 1]
    IN  [n \in DOMAIN ordered |-> Span(Slice(text, ordered[n], End(n)), ordered[n])]
-----------------------------------------------------------------------------
(* Splitting.                                                               *)

\* separators; the last one cuts anywhere.  A question or an exclamation mark splits
\* as a full stop does.
Separators == << <<NL, NL>>, <<NL>>, <<Stop>>, <<SP>>, <<>> >>

SeparatorAt(text, sep, i) ==
    /\ i + Len(sep) - 1 <= Len(text)
    /\ SubSeq(text, i, i + Len(sep) - 1) = sep

\* _split_on_separator: a separator stays with the piece before it.
SplitOn(span, sep) ==
    LET text == span.text
        End(i) == LET at == {k \in i .. Len(text) : SeparatorAt(text, sep, k)}
                  IN  IF at = {} THEN Len(text) ELSE Min(at) + Len(sep) - 1
    IN  Scanned(Len(text), [i \in DOMAIN text |-> <<Part(span, i, End(i))>>],
                           [i \in DOMAIN text |-> End(i) + 1])

\* The text from `start' to `end' has tokens, and not too many of them.
WindowFits(text, start, end) == Tokens(Slice(text, start, end)) \in 1 .. ChunkSize

\* One iteration of the loop of _best_token_window_end: what is before `low' is the best
\* end so far.
Halved(range, text, start) ==
    LET mid == (range.low + range.high) \div 2
    IN  IF range.low > range.high THEN range
        ELSE IF WindowFits(text, start, mid) THEN [low |-> mid + 1, high |-> range.high]
        ELSE [low |-> range.low, high |-> mid - 1]

\* _best_token_window_end: the binary search, which supposes that a longer text never
\* has fewer tokens.  It is over when every end has been tried at the latest.
WindowEnd(text, start) ==
    LET Search[k \in 0 .. Len(text)] ==
            IF k = 0 THEN [low |-> start + 1, high |-> Len(text)]
            ELSE Halved(Search[k - 1], text, start)
    IN  Search[Len(text)].low - 1

\* _split_force_token_windows: at least one character at a time.
TokenWindows(span) ==
    LET text == span.text
        End(i) == Max({WindowEnd(text, i - 1), i})
    IN  Scanned(Len(text), [i \in DOMAIN text |-> <<Part(span, i, End(i))>>],
                           [i \in DOMAIN text |-> End(i) + 1])

\* One level of _split_recursive: what is too large is split at a separator.
Refine(spans, sep) ==
    FlatMap(LAMBDA span : IF Tokens(span.text) <= MaxChunk THEN <<span>>
                          ELSE IF sep = <<>> THEN TokenWindows(span)
                          ELSE SplitOn(span, sep), spans)

\* _split_recursive: the pieces that are still too large go on to the next separator.
SplitRecursive(span) ==
    LET Pieces[k \in 0 .. Len(Separators)] ==
            IF k = 0 THEN <<span>> ELSE Refine(Pieces[k - 1], Separators[k])
    IN  IF span.text = <<>> THEN <<>> ELSE Pieces[Len(Separators)]
-----------------------------------------------------------------------------
(* Packing.                                                                 *)

JoinSpans(parts) == Span(FlattenSeq([i \in DOMAIN parts |-> parts[i].text]), parts[1].start)

Flushed(state) == IF state.parts = <<>> THEN state.out ELSE Append(state.out, JoinSpans(state.parts))

\* One iteration of _pack_spans.  The sum of the token counts of the parts stands
\* for the count of the chunk.
PackNext(state, span) ==
    LET tokens == Tokens(span.text)
        total  == state.tokens + tokens
        fits   == \/ total <= ChunkSize
                  \/ state.tokens < MinRecommended /\ total <= MaxChunk
    IN  IF tokens > MaxChunk
        THEN [out |-> Flushed(state) \o TokenWindows(span), parts |-> <<>>, tokens |-> 0]
        ELSE IF state.parts = <<>> THEN [state EXCEPT !.parts = <<span>>, !.tokens = tokens]
        ELSE IF fits THEN [state EXCEPT !.parts = Append(@, span), !.tokens = total]
        ELSE [out |-> Flushed(state), parts |-> <<span>>, tokens |-> tokens]

\* _pack_spans
PackSpans(spans) ==
    LET State[i \in 0 .. Len(spans)] ==
            IF i = 0 THEN [out |-> <<>>, parts |-> <<>>, tokens |-> 0]
            ELSE PackNext(State[i - 1], spans[i])
    IN  Flushed(State[Len(spans)])

\* Mutation: the offset does not move with the whitespace that goes.
StrippedInPlace(raw, start) == IF IsBlank(raw) THEN <<>> ELSE <<Span(Strip(raw), start)>>

\* _normalize_span, as the spans that are left: surrounding whitespace goes, and a
\* blank span is none.
Stripped(raw, start) ==
    IF IsBlank(raw) THEN <<>> ELSE <<Span(Strip(raw), start + Min(InkAt(raw)) - 1)>>

NormalizeSpan(source, span) == Stripped(Slice(source, span.start, span.end), span.start)

\* Mutation: a packed chunk is not looked at again.
EnforceNothing(source, span) == <<span>>

FitWindows(span) == IF Tokens(span.text) > MaxChunk THEN TokenWindows(span) ELSE <<span>>

PackSection(span) == PackSpans(SplitRecursive(span))

\* _enforce_max_tokens: a packed chunk that is larger than the sum of its parts is
\* split and packed again, and as a last resort cut into windows.
EnforceMax(source, span) ==
    IF Tokens(span.text) <= MaxChunk THEN <<span>>
    ELSE FlatMap(FitWindows, FlatMap(LAMBDA c : NormalizeSpan(source, c), PackSection(span)))

\* The spans of chunk_markdown before duplicates are dropped.
PackedSpans(text) ==
    FlatMap(PackSection, Sections(text, SectionStates(text)))

FinalSpans(text) ==
    IF IsBlank(text) THEN <<>>
    ELSE FlatMap(LAMBDA span : EnforceMax(text, span),
                 FlatMap(LAMBDA span : NormalizeSpan(text, span), PackedSpans(text)))

ChunkOf(span, states) ==
    [text |-> span.text, start |-> span.start, end |-> span.end, path |-> PathFor(states, span.start)]

\* _append_chunk: the same text in the same section is one chunk.
DropDuplicates(chunks) ==
    Without(chunks, {i \in DOMAIN chunks : \E k \in 1 .. i - 1 :
                        chunks[k].text = chunks[i].text /\ chunks[k].path = chunks[i].path})

ChunksOf(states, spans) == Map(LAMBDA span : ChunkOf(span, states), spans)

\* chunk_markdown
ChunkMarkdown(text) == DropDuplicates(ChunksOf(SectionStates(text), FinalSpans(text)))
=============================================================================
