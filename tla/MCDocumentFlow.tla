--------------------------- MODULE MCDocumentFlow ---------------------------
EXTENDS DocumentFlow

\* A document with two texts, one with a blank chunk, one without any text.
MCContents == {<<"one", "two">>, <<Blank, "one">>, <<Blank>>}
=============================================================================
