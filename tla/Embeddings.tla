----------------------------- MODULE Embeddings -----------------------------
(***************************************************************************)
(* What the LLM worker makes of a chunk file: the texts it embeds, the     *)
(* batches it sends to LiteLLM and the artifact it writes.  A chunk is its *)
(* text, a vector the text that the provider computed it from.             *)
(***************************************************************************)
EXTENDS Selection

CONSTANTS
    Blank,      \* the text of a chunk with nothing to embed
    BatchSize   \* BATCH_SIZE, the texts of one request

ASSUME BatchAssumption == BatchSize \in Nat \ {0}

\* _extract_texts: blank chunks are dropped, the positions of the rest move up.
ExtractTexts(chunks) == Selected(chunks, {i \in DOMAIN chunks : chunks[i] # Blank})

\* texts[n : n + BATCH_SIZE]
Batch(texts, n) == [i \in 1 .. (IF n + BatchSize <= Len(texts) THEN BatchSize
                                                                 ELSE Len(texts) - n) |-> texts[n + i]]

\* The vectors that one request may return: in order, not always one per text.
\* create_embeddings appends them as they come and never looks at their number.
ReturnedVectors(batch) == {Selected(batch, I) : I \in SUBSET DOMAIN batch}

\* all_vectors.extend
Extend(vectors, returned) == vectors \o returned

\* Mutation: chunk_count is the number of texts that were embedded.
ArtifactOfTexts(chunks, vectors) ==
    [chunkCount |-> Len(ExtractTexts(chunks)), vectors |-> vectors]

\* The artifact file.  Its entry i pairs texts[i], counted without the blank
\* chunks, with the i-th vector; vector_count is Len(vectors).
Artifact(chunks, vectors) == [chunkCount |-> Len(chunks), vectors |-> vectors]
=============================================================================
