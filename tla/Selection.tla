----------------------------- MODULE Selection -----------------------------
(***************************************************************************)
(* Two ways to go through a sequence: a list comprehension with a          *)
(* condition, and a scan that takes a piece and goes on behind it.         *)
(***************************************************************************)
EXTENDS Naturals, Sequences

\* What s has at the positions I, moved up.
Selected(s, I) ==
    LET Upto[n \in 0 .. Len(s)] ==
            IF n = 0 THEN <<>>
            ELSE IF n \in I THEN Append(Upto[n - 1], s[n]) ELSE Upto[n - 1]
    IN  Upto[Len(s)]

\* The pieces of a scan of the positions 1 .. n: the piece at 1 and, behind the piece
\* at i, what begins at next[i].
Scanned(n, piece, next) ==
    LET From[i \in 1 .. n + 1] == IF i > n THEN <<>> ELSE piece[i] \o From[next[i]]
    IN  From[1]
=============================================================================
