----------------------------- MODULE MCCliBatch -----------------------------
(***************************************************************************)
(* Commands for TLC: one file with any text of several small families, and *)
(* directories whose files have common stems, fail or are outputs.         *)
(***************************************************************************)
EXTENDS CliBatch

MCNames == << <<"_report", "json">>, <<"a", "doc">>, <<"a", "html">>, <<"a", "json">>, <<"a", "md">>,
              <<"a", "pdf">>, <<"b", "md">>, <<"b", "txt">>, <<"c", "xyz">> >>

MCVocabulary == {<<"NL", "NL">>, <<"SP", "a">>, <<"a", "b", "a", "b">>, <<"b", "NL">>}

\* The texts of at most n of the fragments.
Texts(fragments, n) == {FlattenSeq(s) : s \in BoundedSeq(fragments, n) \ {<<>>}}

CodeTexts == Texts({<<"tick3", "NL">>, <<"tick4", "NL">>, <<"tick3", "a", "NL">>,
                    <<"SP", "SP", "hy-", "NL">>, <<"b", "NL">>, <<"FF">>}, 4)
PageTexts == Texts({<<"A", "NL">>, <<"b", "NL">>, <<"FF">>, <<"Page7", "NL">>}, 6)
ListTexts == Texts({<<"-", "a", "NL">>, <<"SP", "+", "b", "NL">>, <<"-", "o", "c", "NL">>,
                    <<"hy-", "NL">>, <<"c", "SP", "NL">>, <<"SP", "NL">>}, 4)
TocTexts  == {<<"#", "Contents", "NL">> \o t : t \in
              Texts({<<"|", "a", "|", "7", "NL">>, <<"|", "---", "|", "---", "NL">>, <<"|", "b", "|", "c", "NL">>,
                     <<"c", "....", "7", "NL">>, <<"LONG", "NL">>, <<"NL">>}, 3)}
ChunkTexts == Texts({<<"a">>, <<"b", "b", "b">>, <<"b", "b", "SP">>, <<"NL">>, <<".">>, <<"SP">>,
                     <<"a", "b", "a", "b">>}, 4)
HeadTexts  == Texts({<<"#", "a", "NL">>, <<"##", "b", "NL">>, <<"a", "SP", "b", "NL">>, <<"tick3", "NL">>,
                     <<"NL">>, <<"b", "b", "b", "SP">>}, 4)

Markdown(text) == [label |-> "markdown", views |-> [PlainText |-> [text |-> text, score |-> 3]]]

Named(stem, ext) == [root |-> "in", stem |-> stem, ext |-> ext]

Anything == {"doc", "html", "json", "md", "pdf", "txt", "xyz"}

OneDocument(texts) ==
    {[input |-> (Named("a", "md") :> Markdown(t)), single |-> TRUE, out |-> "out", workers |-> 1,
      report |-> FALSE, include |-> Anything, times |-> 1] : t \in texts}

Doc(first, second) ==
    [label |-> "doc", views |-> [KreuzbergOffice |-> first, MarkItDownOffice |-> second]]
View(atom, score) == [text |-> <<atom>>, score |-> score]

\* a.doc has a better second view; a.html is taken for a text and a.pdf cannot be
\* read; b.txt is blank; nothing knows c.xyz.
Everything ==
    (Named("a", "doc")  :> Doc(View("a", 1), View("b", 2)))
    @@ (Named("a", "html") :> [label |-> "text", views |-> [MarkItDownHtml |-> View("A", 3)]])
    @@ (Named("a", "pdf")  :> [label |-> "raises", views |-> <<>>])
    @@ (Named("b", "txt")  :> [label |-> "text", views |-> [PlainText |-> View("NL", 0)]])
    @@ (Named("b", "md")   :> Markdown(<<"c">>))
    @@ (Named("c", "xyz")  :> [label |-> "octet-stream", views |-> <<>>])

Directories ==
    {[input |-> [p \in S |-> Everything[p]], single |-> FALSE, out |-> out, workers |-> workers,
      report |-> out = "in", include |-> include, times |-> IF workers = 1 THEN 2 ELSE 1] :
        S \in {T \in SUBSET DOMAIN Everything : Cardinality(T) \in 1 .. 3},
        out \in {"in", "out"}, workers \in {1, 2}, include \in {Anything, {"html", "md"}}}

DocumentCommands == OneDocument(CodeTexts \cup PageTexts \cup ListTexts \cup TocTexts
                                \cup ChunkTexts \cup HeadTexts)
AllCommands == DocumentCommands \cup Directories

HeadCommands == OneDocument(HeadTexts)
=============================================================================
