------------------------------ MODULE Pipeline ------------------------------
(***************************************************************************)
(* pipeline.py: the type of a file is detected, its parsers are tried in   *)
(* the order of their priority, and what the chosen one returns is cleaned *)
(* and chunked.  Whatever goes wrong is kept in the result.                *)
(*                                                                         *)
(* A file is what the libraries make of it: `label', the type that Magika  *)
(* finds, and `views', the text and the quality score that each parser     *)
(* which does not raise gets out of it.                                    *)
(***************************************************************************)
EXTENDS Cleaning, Chunking

Absent == [label |-> "absent"]      \* no such file

\* _EXT_TO_MIME, one extension of each kind.
ExtMime == [html |-> "html", txt |-> "text", md |-> "markdown", json |-> "json",
            pdf |-> "pdf", doc |-> "doc", docx |-> "docx"]

KnownDocMimes == Range(ExtMime)
TextualMimes  == {"html", "text", "markdown", "json"}

\* detect_mime with _resolve_detected_mime: what Magika finds is believed, unless it
\* finds nothing or no document type and the extension names one, or takes HTML for
\* another kind of text.
DetectMime(ext, label) ==
    LET named      == ext \in DOMAIN ExtMime
        mislabeled == ext = "html" /\ label \notin KnownDocMimes \ TextualMimes
    IN  IF named /\ (label \notin KnownDocMimes \/ mislabeled) THEN ExtMime[ext]
        ELSE IF label \in {"octet-stream", "raises"} THEN "none" ELSE label

\* @register_parser, in the order of the imports.
Registered ==
    {[parser |-> "BeautifulSoupHtml", mimes |-> {"html"},             priority |-> 10],
     [parser |-> "MarkItDownHtml",    mimes |-> {"html"},             priority |-> 20],
     [parser |-> "KreuzbergOffice",   mimes |-> {"doc"},              priority |-> 5],
     [parser |-> "DoclingOffice",     mimes |-> {"doc", "docx"},      priority |-> 20],
     [parser |-> "MarkItDownOffice",  mimes |-> {"doc", "docx"},      priority |-> 10],
     [parser |-> "DoclingPdf",        mimes |-> {"pdf"},              priority |-> 10],
     [parser |-> "Pypdfium",          mimes |-> {"pdf"},              priority |-> 20],
     [parser |-> "MarkItDownPdf",     mimes |-> {"pdf"},              priority |-> 30],
     [parser |-> "PlainText",         mimes |-> {"text", "markdown"}, priority |-> 10],
     [parser |-> "Json",              mimes |-> {"json"},             priority |-> 10]}

\* get_parsers
GetParsers(mime) ==
    LET entries == {r \in Registered : mime \in r.mimes}
    IN  SetToSortSeq(entries, LAMBDA x, y : x.priority < y.priority)

Threshold == 3      \* quality.THRESHOLD, on a scale of scores from 0

\* _extract_with_fallback, as the set of at most one extraction: the first parser
\* that reaches the threshold, or else the first of those with the best score.
ExtractWithFallback(file, parsers) ==
    LET Ran   == {i \in DOMAIN parsers : parsers[i].parser \in DOMAIN file.views}
        View(i)  == file.views[parsers[i].parser]
        Good  == {i \in Ran : View(i).score >= Threshold}
        Best  == {i \in Ran : /\ View(i).text # <<>>
                              /\ \A k \in Ran : \/ View(k).score < View(i).score
                                                \/ View(k).score = View(i).score /\ k >= i}
        chosen == IF Good # {} THEN {i \in Good : \A k \in Good : k >= i} ELSE Best
    IN  {[text |-> View(i).text, parser |-> parsers[i].parser] : i \in chosen}

\* A Result that is not ok.
Failure(path) == [ok |-> FALSE, source |-> path]

\* _process and process_file: the errors are captured, never raised.  The raw text is
\* not in a Result; it is kept to state what the cleaning owes it.
Success(path, chosen, markdown) ==
    [ok |-> TRUE, source |-> path, parser |-> chosen.parser, raw |-> chosen.text,
     markdown |-> markdown, chunks |-> ChunkMarkdown(markdown)]

Extracted(path, chosen) == Success(path, chosen, CleanMarkdown(chosen.text))

ResultOf(path, extracted) ==
    IF extracted = {} THEN Failure(path) ELSE Extracted(path, CHOOSE e \in extracted : TRUE)

ProcessFile(path, file) ==
    IF file = Absent THEN Failure(path)
    ELSE ResultOf(path, ExtractWithFallback(file, GetParsers(DetectMime(path.ext, file.label))))

\* The two files that a result is written to, as files that can be read again: the
\* parser of a JSON file renders it as a fenced block.
MarkdownFile(result) ==
    [label |-> "markdown",
     views |-> IF IsBlank(result.markdown) THEN <<>>
               ELSE [PlainText |-> [text |-> result.markdown, score |-> Threshold]]]

JsonText == <<"tick3", "a", NL, "A", NL, "tick3">>

JsonFile(result) ==
    [label   |-> "json",
     views   |-> [Json |-> [text |-> JsonText, score |-> Threshold]],
     source  |-> result.source,
     content |-> result.markdown]
=============================================================================
